------------------------------- MODULE Sources -------------------------------
(***************************************************************************)
(* Source files and the errors in them: core/source_reader.cpp, the record *)
(* of errors in core/error_sink.cpp, and the imports that join them in     *)
(* core/interpreter.cpp and core/core.cpp.  A file is known by the paths   *)
(* it was imported by and by its identity on disk; its characters get      *)
(* consecutive source ids, from which the place of an error is found again *)
(* by reading the file once more.  What parsing a file or evaluating its   *)
(* definitions finds wrong is left open.                                   *)
(***************************************************************************)
EXTENDS Naturals, Sequences, SequencesExt, FiniteSetsExt

CONSTANTS
  FileOf,         \* by path, the file on disk (external: links share a file)
  TextOf,         \* by file, its characters when the compiler starts
  Edited,         \* by file, what it may be changed to meanwhile (external)
  Resolve,        \* by path of the importing file and imported name, a path
  PreludePath, MainPath,
  MaxSource,      \* UINT32_MAX
  MaxErrors,      \* MAX_ERROR_RECORD_COUNT
  MaxFindings,    \* the most errors one file is found to have (a bound)
  ContextBefore,  \* characters of a line that are shown before the column
  ContextSize     \* sizeof(SourceLocation::context)

Paths == DOMAIN FileOf
Names == {r[2] : r \in DOMAIN Resolve}
Files == DOMAIN TextOf

ASSUME SourcesAssumption ==
  /\ {PreludePath, MainPath} \cup {Resolve[r] : r \in DOMAIN Resolve} \subseteq Paths
  /\ {FileOf[p] : p \in Paths} \subseteq Files
  /\ TextOf \in [Files -> Seq(STRING)] /\ \A f \in Files : Edited[f] \subseteq Seq(STRING)
  /\ {MaxSource, MaxErrors, MaxFindings, ContextBefore, ContextSize} \subseteq Nat
  /\ ContextBefore < ContextSize

\* TypeId::INVALID, SourceId::INVALID and the name such an id is shown under,
\* which stands for no file.
NoType == 0
NoSource == 0
PreludeName == "<prelude>"

ASSUME PreludeAssumption == PreludeName \notin Files

VARIABLES
  disk,      \* the text of each file
  byPath,    \* known_files_by_path: the entry of a path, 0 for a new path
  entries,   \* known_files_by_identity, by source id: base, path, type, ...
  nextBase,  \* curr_source_id_base
  reading,   \* the entry a file is being read into and the size it had, or 0
  phase,     \* how far run_compilation has come, or how it ended
  errors,    \* the error records
  found,     \* every error there was: the file, its text then, the offset
  given,     \* the imports answered: the file, and the type it was given
  printed    \* the locations print_errors has shown

vars == <<disk, byPath, entries, nextBase, reading, phase, errors, found, given, printed>>

-----------------------------------------------------------------------------
(* Source ids and locations *)

BaseOf(e) == entries[e].base

Ranks == 0 .. Len(entries)

\* Mutant: a source id that begins a file is taken for the end of the last.
NarrowAfter(r, id) ==
  LET mid == (r.lo + r.hi) \div 2
  IN  IF r.lo >= r.hi THEN r
      ELSE IF id < BaseOf(mid) THEN [r EXCEPT !.hi = mid - 1]
      ELSE IF id > BaseOf(mid + 1) THEN [r EXCEPT !.lo = mid + 1]
      ELSE [lo |-> mid, hi |-> mid]

\* One round of the search in source_file_from_source_id; ranks count from 1.
Narrow(r, id) ==
  LET mid == (r.lo + r.hi) \div 2
  IN  IF r.lo >= r.hi THEN r
      ELSE IF id < BaseOf(mid) THEN [r EXCEPT !.hi = mid - 1]
      ELSE IF id >= BaseOf(mid + 1) THEN [r EXCEPT !.lo = mid + 1]
      ELSE [lo |-> mid, hi |-> mid]

\* The search among the ranks from first to last: every round but the last
\* leaves fewer of them.
SearchEntry(id, first, last) ==
  LET rounds[n \in Ranks] ==
        IF n = 0 THEN [lo |-> first, hi |-> last] ELSE Narrow(rounds[n - 1], id)
  IN  rounds[Len(entries)].lo

EntryOf(id) ==
  IF BaseOf(Len(entries)) <= id THEN Len(entries) ELSE SearchEntry(id, 1, Len(entries) - 1)

\* Mutant: the carriage return that ends a line is shown with it.
LocationInReturn(path, text, offset) ==
  LET newlines == {i \in 1 .. offset : text[i] = "newline"}
      begin    == IF newlines = {} THEN 0 ELSE Max(newlines)
      stops    == {i \in begin + 1 .. Len(text) : text[i] = "newline"}
      end      == IF stops = {} THEN Len(text) ELSE Min(stops) - 1
      column   == offset - begin
      first    == begin + (IF column < ContextBefore THEN 0 ELSE column - ContextBefore)
      shown    == IF end >= first /\ end - first < ContextSize THEN end - first ELSE ContextSize
  IN  [path |-> path, line |-> Cardinality(newlines) + 1, column |-> column + 1,
       context |-> first + 1 .. first + shown]

\* build_source_location; offsets count from 0, and "context" names the
\* characters of the text that are shown.
LocationIn(path, text, offset) ==
  LET newlines == {i \in 1 .. offset : text[i] = "newline"}
      begin    == IF newlines = {} THEN 0 ELSE Max(newlines)
      stops    == {i \in begin + 1 .. Len(text) : text[i] \in {"newline", "return"}}
      end      == IF stops = {} THEN Len(text) ELSE Min(stops) - 1
      column   == offset - begin
      first    == begin + (IF column < ContextBefore THEN 0 ELSE column - ContextBefore)
      shown    == IF end >= first /\ end - first < ContextSize THEN end - first ELSE ContextSize
  IN  [path |-> path, line |-> Cardinality(newlines) + 1, column |-> column + 1,
       context |-> first + 1 .. first + shown]

\* source_location_from_source_id: the file is read again.
LocationOf(id) ==
  LET e == EntryOf(id)
  IN  IF id = NoSource THEN LocationIn(PreludeName, <<>>, 0)
      ELSE LocationIn(entries[e].path, disk[entries[e].file], id - BaseOf(e))

-----------------------------------------------------------------------------
(* Errors *)

\* record_error for each of the ids: what is over the limit is forgotten.
Record(ids) == SubSeq(errors \o ids, 1, IF Len(errors \o ids) < MaxErrors THEN Len(errors \o ids) ELSE MaxErrors)

\* What was wrong there.
Place(e, text, offset) == [file |-> entries[e].file, text |-> text, offset |-> offset]

-----------------------------------------------------------------------------
(* Reading and importing *)

\* run_compilation's three parts and the import each waits for.
After == [prelude |-> "main", main |-> "run", run |-> "run"]

\* The import of a file that was read before.
Answer(e) ==
  IF entries[e].type = NoType \/ entries[e].error
  THEN phase' = "failed" /\ UNCHANGED given
  ELSE /\ phase' = After[phase]
       /\ given' = given \cup {[file |-> entries[e].file, type |-> entries[e].type]}

\* The import of a path whose entry is known.
ImportKnownPath(path) ==
  /\ byPath[path] # 0
  /\ Answer(byPath[path])
  /\ UNCHANGED <<disk, byPath, entries, nextBase, reading, errors, found, printed>>

\* Mutant: a file is not looked up by its identity.
EntriesAnew(file) == {}

EntriesOf(file) == {e \in DOMAIN entries : entries[e].file = file}

\* A new path to a file that is known by its identity.
ImportKnownFile(path) ==
  /\ byPath[path] = 0
  /\ \E e \in EntriesOf(FileOf[path]) :
       /\ byPath' = [byPath EXCEPT ![path] = e]
       /\ Answer(e)
  /\ UNCHANGED <<disk, entries, nextBase, reading, errors, found, printed>>

\* A new file: its size is taken, and source ids for its characters and for
\* its end.  The counter has 32 bits.
OpenFile(path) ==
  LET file == FileOf[path]
      size == Len(disk[file])
  IN  /\ byPath[path] = 0
      /\ EntriesOf(file) = {}
      /\ IF size + nextBase > MaxSource
         THEN /\ phase' = "panic"
              /\ UNCHANGED <<byPath, entries, nextBase, reading>>
         ELSE /\ byPath' = [byPath EXCEPT ![path] = Len(entries) + 1]
              /\ entries' = Append(entries, [file |-> file, path |-> path, base |-> nextBase,
                                             text |-> <<>>, type |-> NoType, error |-> FALSE])
              /\ nextBase' = (nextBase + size + 1) % (MaxSource + 1)
              /\ reading' = size
              /\ UNCHANGED phase
      /\ UNCHANGED <<disk, errors, found, given, printed>>

\* read_source_file up to where the content is read.
ImportPath(path) == ImportKnownPath(path) \/ ImportKnownFile(path) \/ OpenFile(path)

NotReading == MaxSource + 1

\* import_prelude, and the import of the main file.
ImportFirst ==
  /\ reading = NotReading
  /\ phase \in {"prelude", "main"}
  /\ ImportPath(IF phase = "prelude" THEN PreludePath ELSE MainPath)

\* builtin_import: a name is relative to the path the importing file was first
\* read by.
ImportFrom(e, name) ==
  /\ reading = NotReading
  /\ phase = "run"
  /\ entries[e].type # NoType
  /\ <<entries[e].path, name>> \in DOMAIN Resolve
  /\ ImportPath(Resolve[<<entries[e].path, name>>])

\* The file's content, parse and resolve_names and type_from_ast: offsets at
\* which they find errors, if any.  A file that has become shorter since its
\* size was taken cannot be read.
ReadFile(offsets) ==
  LET e       == Len(entries)
      file    == entries[e].file
      content == SubSeq(disk[file], 1, reading)
      read    == [entries EXCEPT ![e].text = content, ![e].error = offsets # <<>>,
                                 ![e].type = IF offsets = <<>> THEN e ELSE NoType]
  IN  /\ reading # NotReading
      /\ reading' = NotReading
      /\ IF Len(disk[file]) < reading
         THEN phase' = "panic" /\ UNCHANGED <<entries, errors, found, given>>
         ELSE /\ entries' = read
              /\ errors' = Record([i \in DOMAIN offsets |-> BaseOf(e) + offsets[i]])
              /\ found' = found \o [i \in DOMAIN offsets |-> Place(e, content, offsets[i])]
              /\ IF offsets # <<>>
                 THEN phase' = "failed" /\ UNCHANGED given
                 ELSE /\ phase' = After[phase]
                      /\ given' = given \cup {[file |-> file, type |-> e]}
      /\ UNCHANGED <<disk, byPath, nextBase, printed>>

-----------------------------------------------------------------------------
(* Evaluation and its end *)

\* record_interpreter_error: evaluation stops at a place in a file.
EvaluationFails(e, offset) ==
  /\ reading = NotReading
  /\ phase = "run"
  /\ entries[e].type # NoType
  /\ phase' = "failed"
  /\ errors' = Record(<<BaseOf(e) + offset>>)
  /\ found' = Append(found, Place(e, entries[e].text, offset))
  /\ UNCHANGED <<disk, byPath, entries, nextBase, reading, given, printed>>

\* evaluate_file_definition_by_name: the main file does not define the entry
\* point, which is seen before anything of it is evaluated.
EntryPointMissing ==
  /\ reading = NotReading
  /\ phase = "run"
  /\ \A e \in DOMAIN entries : entries[e].path \in {PreludePath, MainPath}
  /\ phase' = "failed"
  /\ errors' = Record(<<NoSource>>)
  /\ found' = Append(found, [file |-> PreludeName, text |-> <<>>, offset |-> 0])
  /\ UNCHANGED <<disk, byPath, entries, nextBase, reading, given, printed>>

\* run_compilation returns TRUE.
EvaluationEnds ==
  /\ reading = NotReading
  /\ phase = "run"
  /\ phase' = "done"
  /\ UNCHANGED <<disk, byPath, entries, nextBase, reading, errors, found, given, printed>>

\* print_errors, one record at a time.  The file may have become so short that
\* the place is not in it, where build_source_location is undefined.
PrintNext ==
  LET id == errors[Len(printed) + 1]
      e  == EntryOf(id)
  IN  /\ phase = "failed"
      /\ Len(printed) < Len(errors)
      /\ IF id # NoSource /\ id - BaseOf(e) > Len(disk[entries[e].file])
         THEN phase' = "undefined" /\ UNCHANGED printed
         ELSE printed' = Append(printed, LocationOf(id)) /\ UNCHANGED phase
      /\ UNCHANGED <<disk, byPath, entries, nextBase, reading, errors, found, given>>

\* Someone saves a file meanwhile (external).
Edit(file, text) ==
  /\ phase \in {"prelude", "main", "run", "failed"}
  /\ disk' = [disk EXCEPT ![file] = text]
  /\ UNCHANGED <<byPath, entries, nextBase, reading, phase, errors, found, given, printed>>

-----------------------------------------------------------------------------
Init ==
  /\ disk = TextOf
  /\ byPath = [p \in Paths |-> 0]
  /\ entries = <<>>
  /\ nextBase = 1
  /\ reading = NotReading
  /\ phase = "prelude"
  /\ errors = <<>>
  /\ found = <<>>
  /\ given = {}
  /\ printed = <<>>

\* The offsets one reading of a file may find errors at: in any order, up to
\* the end of the file.
Findings(size) == UNION {[1 .. n -> 0 .. size] : n \in 0 .. MaxFindings}

Next ==
  \/ ImportFirst
  \/ \E e \in DOMAIN entries, name \in Names : ImportFrom(e, name)
  \/ reading # NotReading /\ \E offsets \in Findings(reading) : ReadFile(offsets)
  \/ \E e \in DOMAIN entries : \E offset \in 0 .. Len(entries[e].text) : EvaluationFails(e, offset)
  \/ EntryPointMissing
  \/ EvaluationEnds
  \/ PrintNext
  \/ \E file \in Files : \E text \in Edited[file] : Edit(file, text)

Spec == Init /\ [][Next]_vars

-----------------------------------------------------------------------------
(* What is true of it *)

\* Every source id that was given out leads back to the file it was given out
\* for, whatever the number and the sizes of the files (empty ones too): the
\* search relies on the order and the gaps of the entries' first ids.
Attributed ==
  \A e \in DOMAIN entries :
    LET end == IF e = Len(entries) THEN nextBase ELSE BaseOf(e + 1)
    IN  BaseOf(e) < end /\ \A id \in BaseOf(e) .. end - 1 : id # NoSource /\ EntryOf(id) = e

\* However it is imported, by one path or several, before or after it was
\* edited, a file has one entry and every import of it gives the same type;
\* different files have different types.
OneTypePerFile ==
  /\ \A e1, e2 \in DOMAIN entries : entries[e1].file = entries[e2].file => e1 = e2
  /\ \A p \in Paths : byPath[p] # 0 => entries[byPath[p]].file = FileOf[p]
  /\ \A g1, g2 \in given : g1.file = g2.file <=> g1.type = g2.type

\* The lines of a text, without what ends them.
LineStarts(text) == {0} \cup {i \in DOMAIN text : text[i] = "newline"}

\* Where an error is shown: under a path of the file it is in, at the line and
\* column its offset has in the text, and with characters of that line only,
\* the one it is at among them.  A carriage return inside a line ends it for
\* one half of build_source_location only, which excuses the characters.
Shows(location, place) ==
  LET text    == place.text
      here    == place.offset + 1
      start   == Max({s \in LineStarts(text) : s < here})
      cutOff  == \E i \in start + 1 .. place.offset : text[i] = "return"
  IN  /\ IF place.file = PreludeName THEN location.path = PreludeName ELSE FileOf[location.path] = place.file
      /\ location.line = Cardinality({s \in LineStarts(text) : s <= start})
      /\ location.column = here - start
      /\ cutOff \/ /\ \A i \in location.context : i > start /\ text[i] \notin {"newline", "return"}
                   /\ here \in DOMAIN text /\ text[here] \notin {"newline", "return"} => here \in location.context

\* Each error is shown where it was found, although the file is read again
\* for it, as long as the file is still the same by then; errors are shown in
\* the order they were found in.
ShownWhereFound ==
  [][\A i \in DOMAIN printed' \ DOMAIN printed :
       (found[i].file = PreludeName \/ disk[found[i].file] = found[i].text) => Shows(printed'[i], found[i])]_vars
=============================================================================
