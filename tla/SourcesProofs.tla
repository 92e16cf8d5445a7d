--------------------------- MODULE SourcesProofs ---------------------------
(***************************************************************************)
(* Proofs about the source reader: whatever files there are, under however *)
(* many paths they are imported and however they are edited meanwhile, a   *)
(* file has one entry and every import of it gives the one type it has;    *)
(* every source id leads back to its file and every error is shown where   *)
(* it was found, unless the counter of the ids comes round to zero.        *)
(***************************************************************************)
EXTENDS Sources, NumberFacts, SequenceTheorems, FiniteSetTheorems, TLAPS

Entry ==
  [file : Files, path : Paths, base : Nat, text : Seq(STRING), type : Nat, error : BOOLEAN]

\* The types of what the source reader keeps.
ReaderTypes ==
  /\ disk \in [Files -> Seq(STRING)]
  /\ byPath \in [Paths -> Nat]
  /\ entries \in Seq(Entry)
  /\ nextBase \in Nat
  /\ reading \in Nat

\* A file is entered once.
OneEntry == \A e1, e2 \in DOMAIN entries : entries[e1].file = entries[e2].file => e1 = e2

\* A path that is known leads to the entry of its file.
PathsLead ==
  \A p \in Paths : byPath[p] # 0 => byPath[p] \in DOMAIN entries /\ entries[byPath[p]].file = FileOf[p]

\* A file's type is made from the file itself, once it has been read.
OwnTypes == \A e \in DOMAIN entries : entries[e].type \in {NoType, e}

\* The file being read is the last one entered and has no type yet: the read
\* that gives it one replaces none that was given before.
ReadingLast == reading # NotReading => entries # <<>> /\ entries[Len(entries)].type = NoType

\* An import was answered with the type its file has and keeps.
GivenKept ==
  \A g \in given : /\ g.type \in DOMAIN entries
                   /\ entries[g.type].file = g.file /\ entries[g.type].type = g.type

ReaderInv == ReaderTypes /\ OneEntry /\ PathsLead /\ OwnTypes /\ ReadingLast /\ GivenKept

-----------------------------------------------------------------------------
\* Two imports that were answered for one file lead to one entry, so to one type.
LEMMA GivesOneType ==
  ASSUME ReaderInv
  PROVE  OneTypePerFile
<1>1. \A g1, g2 \in given : g1.file = g2.file <=> g1.type = g2.type
  BY DEF ReaderInv, OneEntry, GivenKept
<1> QED
  BY <1>1 DEF ReaderInv, OneEntry, PathsLead, OneTypePerFile

LEMMA InitReader ==
  ASSUME Init
  PROVE  ReaderInv
<1>1. ReaderTypes
  BY SourcesAssumption DEF Init, ReaderTypes, Paths, Files, NotReading
<1>2. entries = <<>> /\ given = {} /\ reading = NotReading /\ \A p \in Paths : byPath[p] = 0
  BY DEF Init
<1> QED
  BY <1>1, <1>2 DEF ReaderInv, OneEntry, PathsLead, OwnTypes, ReadingLast, GivenKept

\* An answer is the type of the entry, which is the entry itself.
LEMMA AnswerKeeps ==
  ASSUME ReaderInv, NEW e \in DOMAIN entries, Answer(e), UNCHANGED entries
  PROVE  GivenKept'
<1>1. entries[e].type # NoType => entries[e].type = e
  BY DEF ReaderInv, OwnTypes
<1> QED
  BY <1>1 DEF ReaderInv, GivenKept, Answer

\* A step that leaves the entries and what was given as they are.
LEMMA OthersKeep ==
  ASSUME ReaderInv, UNCHANGED <<byPath, entries, nextBase, reading, given>>,
         disk' \in [Files -> Seq(STRING)]
  PROVE  ReaderInv'
BY DEF ReaderInv, ReaderTypes, OneEntry, PathsLead, OwnTypes, ReadingLast, GivenKept

LEMMA KnownPathKeeps ==
  ASSUME ReaderInv, NEW path \in Paths, ImportKnownPath(path)
  PROVE  ReaderInv'
<1>1. byPath[path] \in DOMAIN entries
  BY DEF ReaderInv, PathsLead, ImportKnownPath
<1>2. GivenKept'
  BY <1>1, AnswerKeeps DEF ImportKnownPath
<1> QED
  BY <1>2 DEF ImportKnownPath, ReaderInv, ReaderTypes, OneEntry, PathsLead, OwnTypes, ReadingLast

LEMMA KnownFileKeeps ==
  ASSUME ReaderInv, NEW path \in Paths, ImportKnownFile(path)
  PROVE  ReaderInv'
<1>1. PICK e \in EntriesOf(FileOf[path]) : byPath' = [byPath EXCEPT ![path] = e] /\ Answer(e)
  BY DEF ImportKnownFile
<1>2. e \in DOMAIN entries /\ entries[e].file = FileOf[path]
  BY DEF EntriesOf
<1>3. GivenKept'
  BY <1>1, <1>2, AnswerKeeps DEF ImportKnownFile
<1>4. e \in Nat
  BY <1>2 DEF ReaderInv, ReaderTypes
<1>5. ReaderTypes' /\ PathsLead'
  BY <1>1, <1>2, <1>4 DEF ImportKnownFile, ReaderInv, ReaderTypes, PathsLead
<1> QED
  BY <1>3, <1>5 DEF ImportKnownFile, ReaderInv, OneEntry, OwnTypes, ReadingLast

\* A file that is in no entry is entered, without a type.
LEMMA OpenKeeps ==
  ASSUME ReaderInv, NEW path \in Paths, OpenFile(path)
  PROVE  ReaderInv'
<1> DEFINE file == FileOf[path]
           size == Len(disk[file])
           new == [file |-> file, path |-> path, base |-> nextBase, text |-> <<>>,
                   type |-> NoType, error |-> FALSE]
<1>1. CASE size + nextBase > MaxSource
  BY <1>1, OthersKeep DEF OpenFile, ReaderInv, ReaderTypes
<1>2. CASE ~(size + nextBase > MaxSource)
  <2>1. /\ byPath' = [byPath EXCEPT ![path] = Len(entries) + 1]
        /\ entries' = Append(entries, new)
        /\ nextBase' = (nextBase + size + 1) % (MaxSource + 1)
        /\ reading' = size
        /\ UNCHANGED <<disk, given>>
    BY <1>2 DEF OpenFile
  <2>2. file \in Files /\ size \in Nat /\ new \in Entry
    BY SourcesAssumption DEF ReaderInv, ReaderTypes, Entry, NoType, Paths
  <2>3. /\ entries' \in Seq(Entry) /\ Len(entries') = Len(entries) + 1
        /\ DOMAIN entries' = DOMAIN entries \cup {Len(entries) + 1}
        /\ \A e \in DOMAIN entries : entries'[e] = entries[e]
        /\ entries'[Len(entries) + 1] = new
        /\ Len(entries) + 1 \notin DOMAIN entries
    <3> HIDE DEF new
    <3> QED
      BY <2>1, <2>2 DEF ReaderInv, ReaderTypes
  <2>4. \A e \in DOMAIN entries : entries[e].file # file
    BY DEF OpenFile, EntriesOf
  <2>5. ReaderTypes'
    <3>1. MaxSource + 1 \in Nat \ {0} /\ nextBase + size + 1 \in Nat
      BY <2>2, SourcesAssumption DEF ReaderInv, ReaderTypes
    <3>2. nextBase' \in Nat
      BY <2>1, <3>1
    <3>3. byPath' \in [Paths -> Nat]
      BY <2>1 DEF ReaderInv, ReaderTypes
    <3> QED
      BY <2>1, <2>2, <2>3, <3>2, <3>3 DEF ReaderInv, ReaderTypes
  <2>6. OneEntry'
    BY <2>3, <2>4 DEF ReaderInv, OneEntry
  <2>7. PathsLead'
    BY <2>1, <2>3 DEF ReaderInv, ReaderTypes, PathsLead
  <2>8. OwnTypes' /\ ReadingLast'
    BY <2>1, <2>3 DEF ReaderInv, OwnTypes, ReadingLast
  <2>9. GivenKept'
    BY <2>1, <2>3 DEF ReaderInv, GivenKept
  <2> QED
    BY <2>5, <2>6, <2>7, <2>8, <2>9 DEF ReaderInv
<1> QED
  BY <1>1, <1>2

\* The file read last gets its type; every other entry stays.
LEMMA ReadKeeps ==
  ASSUME ReaderInv, NEW offsets, ReadFile(offsets)
  PROVE  ReaderInv'
<1> DEFINE e == Len(entries)
           file == entries[e].file
           content == SubSeq(disk[file], 1, reading)
           type == IF offsets = <<>> THEN e ELSE NoType
<1>1. e \in DOMAIN entries /\ entries[e].type = NoType /\ entries[e] \in Entry /\ e \in Nat \ {0}
  <2>1. reading # NotReading
    BY DEF ReadFile
  <2>2. entries # <<>> /\ entries \in Seq(Entry) /\ entries[e].type = NoType
    BY <2>1 DEF ReaderInv, ReaderTypes, ReadingLast
  <2> QED
    BY <2>2
<1>2. reading' = NotReading /\ NotReading \in Nat /\ UNCHANGED <<disk, byPath, nextBase>>
  BY SourcesAssumption DEF ReadFile, NotReading
<1>3. CASE Len(disk[file]) < reading
  <2>1. UNCHANGED <<entries, given>>
    BY <1>3 DEF ReadFile
  <2> QED
    BY <2>1, <1>2 DEF ReaderInv, ReaderTypes, OneEntry, PathsLead, OwnTypes, ReadingLast, GivenKept
<1>4. CASE ~(Len(disk[file]) < reading)
  <2>1. /\ entries' = [entries EXCEPT ![e].text = content, ![e].error = offsets # <<>>,
                                      ![e].type = type]
        /\ given' = IF offsets # <<>> THEN given
                    ELSE given \cup {[file |-> file, type |-> e]}
    BY <1>4 DEF ReadFile
  <2>2. content \in Seq(STRING)
    <3>1. disk[file] \in Seq(STRING) /\ reading \in Nat /\ reading <= Len(disk[file])
      BY <1>1, <1>4 DEF ReaderInv, ReaderTypes, Entry
    <3> QED
      BY <3>1, SubSeqProperties
  <2>3. /\ DOMAIN entries' = DOMAIN entries /\ entries' \in Seq(Entry)
        /\ \A d \in DOMAIN entries : entries'[d].file = entries[d].file
        /\ \A d \in DOMAIN entries \ {e} : entries'[d] = entries[d]
        /\ entries'[e].type = type
    <3> DEFINE read == [entries[e] EXCEPT !.text = content, !.error = (offsets # <<>>), !.type = type]
    <3>1. entries' = [entries EXCEPT ![e] = read]
      BY <1>1, <2>1 DEF ReaderInv, ReaderTypes
    <3>2. read \in Entry /\ read.file = file /\ read.type = type
      BY <1>1, <2>2 DEF Entry, NoType
    <3> HIDE DEF read, type, file
    <3> QED
      BY <1>1, <3>1, <3>2 DEF ReaderInv, ReaderTypes, file
  <2>4. ReaderTypes'
    BY <1>2, <2>3 DEF ReaderInv, ReaderTypes
  <2>5. OneEntry' /\ PathsLead' /\ OwnTypes' /\ ReadingLast'
    BY <1>2, <2>3 DEF ReaderInv, OneEntry, PathsLead, OwnTypes, ReadingLast
  <2>6. GivenKept'
    <3>1. \A g \in given : g.type # e
      BY <1>1 DEF ReaderInv, GivenKept, NoType
    <3>2. ASSUME NEW g \in given
          PROVE  g.type \in DOMAIN entries' /\ entries'[g.type].file = g.file /\ entries'[g.type].type = g.type
      BY <2>3, <3>1 DEF ReaderInv, GivenKept
    <3> QED
      BY <1>1, <2>1, <2>3, <3>2 DEF GivenKept
  <2> QED
    BY <2>4, <2>5, <2>6 DEF ReaderInv
<1> QED
  BY <1>3, <1>4

LEMMA ImportKeeps ==
  ASSUME ReaderInv, NEW path \in Paths, ImportPath(path)
  PROVE  ReaderInv'
BY KnownPathKeeps, KnownFileKeeps, OpenKeeps DEF ImportPath

LEMMA NextReader ==
  ASSUME ReaderInv, [Next]_vars
  PROVE  ReaderInv'
<1> USE DEF ReaderInv, ReaderTypes
<1>1. CASE ImportFirst
  <2>1. ImportPath(PreludePath) \/ ImportPath(MainPath)
    BY <1>1 DEF ImportFirst
  <2> QED
    BY <2>1, ImportKeeps, SourcesAssumption
<1>2. CASE \E e \in DOMAIN entries, name \in Names : ImportFrom(e, name)
  <2>1. PICK e \in DOMAIN entries, name \in Names : ImportFrom(e, name)
    BY <1>2
  <2>2. Resolve[<<entries[e].path, name>>] \in Paths
    BY <2>1, SourcesAssumption DEF ImportFrom
  <2> QED
    BY <2>1, <2>2, ImportKeeps DEF ImportFrom
<1>3. CASE \E offsets \in Findings(reading) : ReadFile(offsets)
  BY <1>3, ReadKeeps
<1>4. CASE \E e \in DOMAIN entries : \E offset \in 0 .. Len(entries[e].text) : EvaluationFails(e, offset)
  BY <1>4, OthersKeep DEF EvaluationFails
<1>5. CASE EntryPointMissing
  BY <1>5, OthersKeep DEF EntryPointMissing
<1>6. CASE EvaluationEnds
  BY <1>6, OthersKeep DEF EvaluationEnds
<1>7. CASE PrintNext
  BY <1>7, OthersKeep DEF PrintNext
<1>8. CASE \E file \in Files : \E text \in Edited[file] : Edit(file, text)
  <2>1. PICK file \in Files : \E text \in Edited[file] : Edit(file, text)
    BY <1>8
  <2>2. PICK text \in Edited[file] : Edit(file, text)
    BY <2>1
  <2>3. disk' \in [Files -> Seq(STRING)]
    BY <2>2, SourcesAssumption DEF Edit
  <2> QED
    BY <2>2, <2>3, OthersKeep DEF Edit
<1>9. CASE UNCHANGED vars
  BY <1>9, OthersKeep DEF vars
<1> QED
  BY <1>1, <1>2, <1>3, <1>4, <1>5, <1>6, <1>7, <1>8, <1>9 DEF Next

\* The invariant of the source reader (read_source_file and its callers).
THEOREM SpecReaderInv == Spec => []ReaderInv
BY InitReader, NextReader, PTL DEF Spec

\* However it is imported, a file has one entry and one type.
THEOREM SpecOneTypePerFile == Spec => []OneTypePerFile
<1>1. ReaderInv => OneTypePerFile
  BY GivesOneType
<1> QED
  BY <1>1, SpecReaderInv, PTL

-----------------------------------------------------------------------------
(* Finding the entry of a source id. *)

\* The entries' first ids are in the order of the entries.
Ascending ==
  /\ \A e \in DOMAIN entries : BaseOf(e) \in Nat \ {0}
  /\ \A d, e \in DOMAIN entries : d < e => BaseOf(d) < BaseOf(e)

Spans == [lo : DOMAIN entries, hi : Ranks]

\* After n rounds the entry e is still in the span r.
Around(n, r, e) ==
  /\ r \in Spans /\ r.lo <= e /\ e <= r.hi /\ r.hi < Len(entries)
  /\ r.lo = r.hi \/ (r.hi - r.lo) + n < Len(entries)

LEMMA NarrowType ==
  ASSUME entries \in Seq(Entry), NEW id, NEW r \in Spans
  PROVE  Narrow(r, id) \in Spans
<1> DEFINE N == Len(entries)
           mid == (r.lo + r.hi) \div 2
<1>1. N \in Nat /\ DOMAIN entries = 1 .. N /\ Ranks = 0 .. N
  BY DEF Ranks
<1>2. r.lo \in 1 .. N /\ r.hi \in 0 .. N
  BY <1>1 DEF Spans
<1>3. r.lo < r.hi => mid \in 1 .. N /\ mid - 1 \in 0 .. N /\ mid + 1 \in 1 .. N
  BY <1>1, <1>2
<1>4. Narrow(r, id) = IF r.lo >= r.hi THEN r
                      ELSE IF id < BaseOf(mid) THEN [r EXCEPT !.hi = mid - 1]
                      ELSE IF id >= BaseOf(mid + 1) THEN [r EXCEPT !.lo = mid + 1]
                      ELSE [lo |-> mid, hi |-> mid]
  BY DEF Narrow
<1> HIDE DEF mid
<1>5. r.lo < r.hi => /\ [r EXCEPT !.hi = mid - 1] \in Spans /\ [r EXCEPT !.lo = mid + 1] \in Spans
                     /\ [lo |-> mid, hi |-> mid] \in Spans
  BY <1>1, <1>2, <1>3 DEF Spans
<1>6. r.lo >= r.hi \/ r.lo < r.hi
  BY <1>1, <1>2
<1> QED
  BY <1>4, <1>5, <1>6

LEMMA NarrowKeeps ==
  ASSUME entries \in Seq(Entry), Ascending, NEW e \in DOMAIN entries, e # Len(entries),
         NEW id \in Nat, BaseOf(e) <= id, id < BaseOf(e + 1),
         NEW n \in Nat, NEW r, Around(n, r, e)
  PROVE  Around(n + 1, Narrow(r, id), e)
<1> DEFINE N == Len(entries)
           mid == (r.lo + r.hi) \div 2
<1>1. N \in Nat /\ DOMAIN entries = 1 .. N /\ Ranks = 0 .. N /\ e \in 1 .. N
  BY DEF Ranks
<1>2. /\ r \in Spans /\ r.lo \in 1 .. N /\ r.hi \in 0 .. N /\ r.lo <= e /\ e <= r.hi /\ r.hi < N
      /\ r.lo = r.hi \/ (r.hi - r.lo) + n < N
  BY <1>1 DEF Around, Spans
<1>3. Narrow(r, id) = IF r.lo >= r.hi THEN r
                      ELSE IF id < BaseOf(mid) THEN [r EXCEPT !.hi = mid - 1]
                      ELSE IF id >= BaseOf(mid + 1) THEN [r EXCEPT !.lo = mid + 1]
                      ELSE [lo |-> mid, hi |-> mid]
  BY DEF Narrow
<1>4. CASE r.lo >= r.hi
  BY <1>1, <1>2, <1>3, <1>4 DEF Around
<1>5. CASE r.lo < r.hi
  <2>1. mid \in 1 .. N /\ r.lo <= mid /\ mid < r.hi /\ mid + 1 \in 1 .. N
    BY <1>1, <1>2, <1>5
  <2>2. ~(r.lo >= r.hi)
    BY <1>2, <1>5
  <2> HIDE DEF mid
  <2>3. CASE id < BaseOf(mid)
    <3>1. e < mid
      <4>1. mid <= e => BaseOf(mid) <= BaseOf(e)
        BY <1>1, <2>1 DEF Ascending
      <4>2. BaseOf(mid) \in Nat /\ BaseOf(e) \in Nat
        BY <1>1, <2>1 DEF Ascending
      <4> QED
        BY <1>1, <2>1, <2>3, <4>1, <4>2
    <3>2. Narrow(r, id) = [r EXCEPT !.hi = mid - 1]
      BY <1>3, <2>2, <2>3
    <3>3. Narrow(r, id).lo = r.lo /\ Narrow(r, id).hi = mid - 1 /\ Narrow(r, id) \in Spans
      BY <1>2, <3>2, NarrowType DEF Spans
    <3> QED
      BY <1>1, <1>2, <1>5, <2>1, <3>1, <3>3 DEF Around
  <2>4. CASE ~(id < BaseOf(mid)) /\ id >= BaseOf(mid + 1)
    <3>1. mid + 1 <= e
      <4>1. BaseOf(mid + 1) \in Nat /\ BaseOf(e + 1) \in Nat /\ e + 1 \in 1 .. N
        BY <1>1, <2>1 DEF Ascending
      <4>2. e < mid + 1 => BaseOf(e + 1) <= BaseOf(mid + 1)
        BY <1>1, <2>1, <4>1 DEF Ascending
      <4> QED
        BY <1>1, <2>1, <2>4, <4>1, <4>2
    <3>2. Narrow(r, id) = [r EXCEPT !.lo = mid + 1]
      BY <1>3, <2>2, <2>4
    <3>3. Narrow(r, id).lo = mid + 1 /\ Narrow(r, id).hi = r.hi /\ Narrow(r, id) \in Spans
      BY <1>2, <3>2, NarrowType DEF Spans
    <3> QED
      BY <1>1, <1>2, <1>5, <2>1, <3>1, <3>3 DEF Around
  <2>5. CASE ~(id < BaseOf(mid)) /\ ~(id >= BaseOf(mid + 1))
    <3>1. e = mid
      <4>1. /\ BaseOf(mid) \in Nat /\ BaseOf(mid + 1) \in Nat /\ BaseOf(e) \in Nat
            /\ BaseOf(e + 1) \in Nat /\ e + 1 \in 1 .. N
        <5>1. e + 1 \in 1 .. N
          BY <1>1, <1>2
        <5>2. \A d \in 1 .. N : BaseOf(d) \in Nat
          BY <1>1 DEF Ascending
        <5> QED
          BY <1>1, <2>1, <5>1, <5>2
      <4>0. \A d, f \in 1 .. N : d <= f => BaseOf(d) <= BaseOf(f)
        BY <1>1 DEF Ascending
      <4>2. e < mid => BaseOf(e + 1) <= BaseOf(mid)
        BY <1>1, <2>1, <4>0, <4>1
      <4>3. mid < e => BaseOf(mid + 1) <= BaseOf(e)
        BY <1>1, <2>1, <4>0
      <4> QED
        BY <1>1, <2>1, <2>5, <4>1, <4>2, <4>3
    <3>2. Narrow(r, id) = [lo |-> mid, hi |-> mid]
      BY <1>3, <2>2, <2>5
    <3>3. Narrow(r, id).lo = mid /\ Narrow(r, id).hi = mid /\ Narrow(r, id) \in Spans
      BY <1>2, <3>2, NarrowType
    <3> QED
      BY <1>1, <1>2, <1>5, <2>1, <3>1, <3>3 DEF Around
  <2> QED
    BY <2>3, <2>4, <2>5
<1> QED
  BY <1>2, <1>4, <1>5

\* The search ends at the entry in whose range the id is.
LEMMA SearchFinds ==
  ASSUME entries \in Seq(Entry), Ascending, NEW e \in DOMAIN entries, e # Len(entries),
         NEW id \in Nat, BaseOf(e) <= id, id < BaseOf(e + 1)
  PROVE  SearchEntry(id, 1, Len(entries) - 1) = e
<1> DEFINE N == Len(entries)
           start == [lo |-> 1, hi |-> Len(entries) - 1]
           IsRun(f) == f = [n \in 0 .. N |-> IF n = 0 THEN start ELSE Narrow(f[n - 1], id)]
           run == CHOOSE f : IsRun(f)
<1>1. N \in Nat /\ DOMAIN entries = 1 .. N /\ Ranks = 0 .. N /\ e \in 1 .. N
  BY DEF Ranks
<1>2. SearchEntry(id, 1, Len(entries) - 1) = run[N].lo
  BY DEF SearchEntry, Ranks
<1>3. start \in Spans /\ Around(0, start, e)
  BY <1>1 DEF Spans, Around
<1> HIDE DEF start, N
<1>4. \E f : IsRun(f)
  <2> DEFINE step == [n \in 1 .. N |-> [r \in Spans |-> Narrow(r, id)]]
  <2>1. \A r \in Spans : Narrow(r, id) \in Spans
    BY NarrowType
  <2>2. step \in [1 .. N -> [Spans -> Spans]]
    BY <2>1
  <2>3. \A n \in 1 .. N, r \in Spans : step[n][r] = Narrow(r, id)
    OBVIOUS
  <2> HIDE DEF step
  <2>4. PICK g : Iterates(g, Spans, start, N, step)
    BY <1>1, <1>3, <2>2, IterateExists
  <2>5. g \in [0 .. N -> Spans] /\ g[0] = start
    BY <2>4 DEF Iterates
  <2>6. \A n \in 1 .. N : g[n] = Narrow(g[n - 1], id)
    BY <1>1, <2>3, <2>4, <2>5 DEF Iterates
  <2>7. IsRun(g)
    BY <1>1, <2>5, <2>6
  <2> QED
    BY <2>7
<1>5. IsRun(run)
  BY <1>4
<1> HIDE DEF run
<1> DEFINE S == {n \in 0 .. N : Around(n, run[n], e)}
<1>6. 0 \in S
  BY <1>1, <1>3, <1>5
<1>7. ASSUME NEW n \in 1 .. N, n - 1 \in S PROVE n \in S
  <2>1. run[n] = Narrow(run[n - 1], id)
    BY <1>1, <1>5
  <2>2. n - 1 \in Nat /\ (n - 1) + 1 = n /\ Around(n - 1, run[n - 1], e)
    BY <1>1, <1>7
  <2>3. Around((n - 1) + 1, run[n], e)
    BY <2>1, <2>2, NarrowKeeps
  <2> QED
    BY <2>2, <2>3
<1>8. N \in S
  <2>1. S \in SUBSET Nat
    BY <1>1
  <2> HIDE DEF S
  <2>2. 0 .. N \subseteq S
    BY <1>1, <1>6, <1>7, <2>1, Increasing
  <2> QED
    BY <1>1, <2>2
<1>9. Around(N, run[N], e)
  BY <1>8
<1>10. run[N].lo = e
  BY <1>1, <1>9 DEF Around, Spans, N
<1> QED
  BY <1>2, <1>10

-----------------------------------------------------------------------------
(* Source ids lead back to their files. *)

\* The first source id behind those of an entry.
EndOf(e) == IF e = Len(entries) THEN nextBase ELSE BaseOf(e + 1)

\* The counter of source ids has not come round to zero.
Unwrapped == nextBase # NoSource

\* Ids are given out in order; those of a file are enough for its characters
\* and its end.
IdsKept ==
  /\ Ascending
  /\ \A e \in DOMAIN entries : BaseOf(e) < nextBase
  /\ \A e \in DOMAIN entries : BaseOf(e) + Len(entries[e].text) < EndOf(e)
  /\ reading # NotReading => BaseOf(Len(entries)) + reading < nextBase

IdsInv == ReaderInv /\ Unwrapped /\ IdsKept

\* Consecutive entries are apart.
LEMMA IdAttributed ==
  ASSUME IdsInv, NEW e \in DOMAIN entries, NEW id \in BaseOf(e) .. EndOf(e) - 1
  PROVE  BaseOf(e) < EndOf(e) /\ id # NoSource /\ EntryOf(id) = e
<1> DEFINE N == Len(entries)
<1>1. entries \in Seq(Entry) /\ Ascending /\ N \in Nat /\ DOMAIN entries = 1 .. N /\ nextBase \in Nat
  BY DEF IdsInv, IdsKept, ReaderInv, ReaderTypes
<1>2. e \in 1 .. N /\ e + 1 \in Nat /\ BaseOf(e) \in Nat \ {0} /\ BaseOf(N) \in Nat
  BY <1>1 DEF Ascending
<1>3. e # N => e + 1 \in 1 .. N /\ BaseOf(e + 1) \in Nat /\ BaseOf(e) < BaseOf(e + 1)
                 /\ BaseOf(e + 1) <= BaseOf(N)
  BY <1>1, <1>2 DEF Ascending
<1>4. EndOf(e) \in Nat /\ BaseOf(e) < EndOf(e)
  BY <1>1, <1>2, <1>3 DEF EndOf, IdsInv, IdsKept
<1>5. id \in Nat /\ BaseOf(e) <= id /\ id < EndOf(e)
  BY <1>2, <1>4
<1>6. id # NoSource
  BY <1>2, <1>5 DEF NoSource
<1>7. CASE e = N
  BY <1>4, <1>5, <1>6, <1>7 DEF EntryOf
<1>8. CASE e # N
  <2>1. id < BaseOf(e + 1) /\ ~(BaseOf(N) <= id)
    BY <1>2, <1>3, <1>5, <1>8 DEF EndOf
  <2>2. SearchEntry(id, 1, N - 1) = e
    BY <1>1, <1>5, <1>8, <2>1, SearchFinds
  <2>3. EntryOf(id) = SearchEntry(id, 1, N - 1)
    BY <2>1 DEF EntryOf
  <2> QED
    BY <1>4, <1>6, <2>2, <2>3
<1> QED
  BY <1>7, <1>8

LEMMA IdsAttributed ==
  ASSUME IdsInv
  PROVE  Attributed
<1>1. ASSUME NEW e \in DOMAIN entries
      PROVE  BaseOf(e) < EndOf(e) /\ \A id \in BaseOf(e) .. EndOf(e) - 1 : id # NoSource /\ EntryOf(id) = e
  <2>1. \A id \in BaseOf(e) .. EndOf(e) - 1 : id # NoSource /\ EntryOf(id) = e
    BY IdAttributed
  <2>2. BaseOf(e) < EndOf(e)
    <3>1. BaseOf(e) \in Nat /\ Len(entries[e].text) \in Nat /\ BaseOf(e) + Len(entries[e].text) < EndOf(e)
      <4>1. entries \in Seq(Entry)
        BY DEF IdsInv, ReaderInv, ReaderTypes
      <4>2. entries[e] \in Entry
        BY <4>1
      <4>3. Len(entries[e].text) \in Nat
        BY <4>2 DEF Entry
      <4> QED
        BY <4>3 DEF IdsInv, IdsKept, Ascending
    <3>2. EndOf(e) \in Nat
      BY DEF IdsInv, IdsKept, Ascending, ReaderInv, ReaderTypes, EndOf
    <3> QED
      BY <3>1, <3>2
  <2> QED
    BY <2>1, <2>2
<1> QED
  BY <1>1 DEF Attributed, EndOf

LEMMA InitIds ==
  ASSUME Init
  PROVE  IdsInv
<1>1. entries = <<>> /\ nextBase = 1 /\ reading = NotReading
  BY DEF Init
<1> QED
  BY <1>1, InitReader DEF IdsInv, Unwrapped, IdsKept, Ascending, NoSource

LEMMA OthersKeepIds ==
  ASSUME IdsInv, ReaderInv', UNCHANGED <<entries, nextBase, reading>>
  PROVE  IdsInv'
BY DEF IdsInv, Unwrapped, IdsKept, Ascending, EndOf, BaseOf

\* A new file gets the ids from the counter on, one for its end among them.
LEMMA OpenKeepsIds ==
  ASSUME IdsInv, NEW path \in Paths, OpenFile(path), ReaderInv', Unwrapped'
  PROVE  IdsInv'
<1> DEFINE size == Len(disk[FileOf[path]])
           new == [file |-> FileOf[path], path |-> path, base |-> nextBase, text |-> <<>>,
                   type |-> NoType, error |-> FALSE]
<1>1. CASE size + nextBase > MaxSource
  BY <1>1, OthersKeepIds DEF OpenFile
<1>2. CASE ~(size + nextBase > MaxSource)
  <2>1. PICK s \in Nat, b \in Nat, N \in Nat : s = size /\ b = nextBase /\ N = Len(entries)
    <3>1. disk[FileOf[path]] \in Seq(STRING)
      BY SourcesAssumption DEF IdsInv, ReaderInv, ReaderTypes, Paths
    <3>2. size \in Nat /\ nextBase \in Nat /\ Len(entries) \in Nat
      BY <3>1 DEF IdsInv, ReaderInv, ReaderTypes
    <3> QED
      BY <3>2
  <2>1a. PICK r : r = new
    OBVIOUS
  <2>2. /\ entries' = Append(entries, r)
        /\ nextBase' = (b + s + 1) % (MaxSource + 1)
        /\ reading' = s
    BY <1>2, <2>1, <2>1a DEF OpenFile
  <2>3. /\ MaxSource \in Nat /\ entries \in Seq(Entry) /\ DOMAIN entries = 1 .. N
        /\ r.base = b /\ Len(r.text) = 0
    BY <2>1, <2>1a, SourcesAssumption DEF IdsInv, ReaderInv, ReaderTypes
  <2>4. nextBase' = b + s + 1
    <3>1. b + s + 1 \in 0 .. MaxSource + 1 /\ MaxSource + 1 \in Nat \ {0}
      BY <1>2, <2>1, <2>3
    <3>2. (b + s + 1) % (MaxSource + 1)
            = IF b + s + 1 < MaxSource + 1 THEN b + s + 1 ELSE (b + s + 1) - (MaxSource + 1)
      <4> DEFINE x == b + s + 1
                 c == MaxSource + 1
      <4>1. c \in Nat \ {0} /\ x \in 0 .. (2 * c) - 1
        BY <2>3, <3>1
      <4> HIDE DEF x, c
      <4>2. x % c = IF x < c THEN x ELSE x - c
        BY <4>1, RingBelow
      <4> QED
        BY <4>2 DEF x, c
    <3>3. nextBase' # 0
      BY DEF Unwrapped, NoSource
    <3> QED
      BY <2>2, <3>1, <3>2, <3>3
  <2>5. /\ DOMAIN entries' = 1 .. N + 1 /\ Len(entries') = N + 1
        /\ \A e \in 1 .. N : entries'[e] = entries[e]
        /\ entries'[N + 1] = r
    BY <2>1, <2>2, <2>3
  <2>6. \A e \in 1 .. N : entries[e].base \in Nat \ {0} /\ entries[e].base < b
    BY <2>1, <2>3 DEF BaseOf, IdsInv, IdsKept, Ascending
  <2>7. \A d, e \in 1 .. N : d < e => entries[d].base < entries[e].base
    BY <2>3 DEF BaseOf, IdsInv, IdsKept, Ascending
  <2>8. /\ \A e \in 1 .. N : entries'[e].base = entries[e].base
        /\ entries'[N + 1].base = b /\ b # 0
    BY <2>1, <2>3, <2>5 DEF IdsInv, Unwrapped, NoSource
  <2> HIDE DEF size, new
  <2>9. \A e \in 1 .. N + 1 : entries'[e].base \in Nat \ {0} /\ entries'[e].base < nextBase'
    <3>1. ASSUME NEW e \in 1 .. N PROVE entries'[e].base \in Nat \ {0} /\ entries'[e].base < nextBase'
      BY <2>1, <2>4, <2>6, <2>8
    <3> QED
      BY <2>1, <2>4, <2>8, <3>1
  <2>10. \A d, e \in 1 .. N + 1 : d < e => entries'[d].base < entries'[e].base
    <3>1. ASSUME NEW d \in 1 .. N + 1, NEW e \in 1 .. N + 1, d < e
          PROVE  entries'[d].base < entries'[e].base
      <4>1. d \in 1 .. N /\ (e \in 1 .. N \/ e = N + 1)
        BY <2>1, <3>1
      <4> QED
        BY <2>6, <2>7, <2>8, <3>1, <4>1
    <3> QED
      BY <3>1
  <2>11. Ascending'
    BY <2>5, <2>9, <2>10 DEF Ascending, BaseOf
  <2>12. ASSUME NEW e \in 1 .. N + 1 PROVE (BaseOf(e) + Len(entries[e].text) < EndOf(e))'
    <3>1. CASE e \in 1 .. N
      <4>1. entries[e].base + Len(entries[e].text) < IF e = N THEN b ELSE entries[e + 1].base
        BY <2>1, <2>3, <3>1 DEF IdsInv, IdsKept, EndOf, BaseOf
      <4>2. entries'[e + 1].base = IF e = N THEN b ELSE entries[e + 1].base
        BY <2>1, <2>8, <3>1
      <4>3. e # N + 1
        BY <2>1, <3>1
      <4> QED
        BY <2>5, <2>8, <3>1, <4>1, <4>2, <4>3 DEF EndOf, BaseOf
    <3>2. CASE e = N + 1
      <4>1. b + 0 < b + s + 1
        BY <2>1
      <4> QED
        BY <2>3, <2>4, <2>5, <2>8, <3>2, <4>1 DEF EndOf, BaseOf
    <3> QED
      BY <2>1, <3>1, <3>2
  <2>13. (BaseOf(Len(entries)) + reading < nextBase)'
    BY <2>1, <2>2, <2>4, <2>5, <2>8 DEF BaseOf
  <2>14. IdsKept'
    BY <2>5, <2>9, <2>11, <2>12, <2>13 DEF IdsKept, BaseOf
  <2> QED
    BY <2>14 DEF IdsInv
<1> QED
  BY <1>1, <1>2

\* The characters a file is read with are those its ids were given out for.
LEMMA ReadKeepsIds ==
  ASSUME IdsInv, NEW offsets, ReadFile(offsets), ReaderInv'
  PROVE  IdsInv'
<1>1. PICK e \in DOMAIN entries, N \in Nat : e = Len(entries) /\ N = Len(entries)
  <2>1. reading # NotReading
    BY DEF ReadFile
  <2>2. entries # <<>> /\ entries \in Seq(Entry)
    BY <2>1 DEF IdsInv, ReaderInv, ReaderTypes, ReadingLast
  <2>3. Len(entries) \in DOMAIN entries /\ Len(entries) \in Nat
    BY <2>2
  <2> QED
    BY <2>3
<1> DEFINE file == entries[e].file
           content == SubSeq(disk[file], 1, reading)
<1>2. /\ entries \in Seq(Entry) /\ DOMAIN entries = 1 .. N /\ entries[e] \in Entry /\ reading \in Nat
      /\ disk[file] \in Seq(STRING)
  <2>1. entries \in Seq(Entry) /\ DOMAIN entries = 1 .. N /\ reading \in Nat
    BY <1>1 DEF IdsInv, ReaderInv, ReaderTypes
  <2>2. entries[e] \in Entry
    BY <2>1
  <2>3. file \in Files
    BY <2>2 DEF Entry
  <2>4. disk[file] \in Seq(STRING)
    BY <2>3 DEF IdsInv, ReaderInv, ReaderTypes
  <2> QED
    BY <2>1, <2>2, <2>4
<1>3. reading' = NotReading /\ UNCHANGED nextBase
  BY DEF ReadFile
<1>4. CASE Len(disk[file]) < reading
  <2>1. UNCHANGED entries
    BY <1>1, <1>4 DEF ReadFile
  <2> QED
    BY <1>3, <2>1 DEF IdsInv, Unwrapped, IdsKept, Ascending, BaseOf, EndOf
<1>5. CASE ~(Len(disk[file]) < reading)
  <2>1. entries' = [entries EXCEPT ![e].text = content, ![e].error = offsets # <<>>,
                                   ![e].type = IF offsets = <<>> THEN e ELSE NoType]
    BY <1>1, <1>5 DEF ReadFile
  <2>2. Len(content) = reading
    <3>1. 0 <= reading /\ reading <= Len(disk[file])
      BY <1>2, <1>5
    <3> QED
      BY <1>2, <3>1, SubSeqProperties
  <2> HIDE DEF content
  <2>3. /\ DOMAIN entries' = 1 .. N /\ Len(entries') = N
        /\ \A d \in 1 .. N : entries'[d].base = entries[d].base
        /\ \A d \in 1 .. N : d # e => entries'[d].text = entries[d].text
        /\ entries'[e].text = content
    <3>1. \A d \in 1 .. N : entries'[d].base = entries[d].base
      BY <1>1, <1>2, <2>1 DEF Entry
    <3>2. \A d \in 1 .. N : d # e => entries'[d].text = entries[d].text
      BY <1>1, <1>2, <2>1
    <3>3. entries'[e].text = content
      BY <1>1, <1>2, <2>1 DEF Entry
    <3>4. DOMAIN entries' = 1 .. N
      BY <1>2, <2>1
    <3>5. Len(entries') = N
      BY <1>1, <3>4 DEF IdsInv, ReaderInv, ReaderTypes
    <3> QED
      BY <3>1, <3>2, <3>3, <3>4, <3>5
  <2>4. Ascending' /\ \A d \in 1 .. N : (BaseOf(d) < nextBase)'
    BY <1>2, <1>3, <2>3 DEF IdsInv, IdsKept, Ascending, BaseOf
  <2>5. ASSUME NEW d \in 1 .. N PROVE (BaseOf(d) + Len(entries[d].text) < EndOf(d))'
    <3>1. entries[d].base + Len(entries[d].text) < IF d = N THEN nextBase ELSE entries[d + 1].base
      BY <1>1, <1>2 DEF IdsInv, IdsKept, EndOf, BaseOf
    <3>2. d # N => d + 1 \in 1 .. N
      OBVIOUS
    <3>3. entries[N].base + reading < nextBase
      BY <1>1 DEF ReadFile, IdsInv, IdsKept, BaseOf
    <3>4. entries'[d].base + Len(entries'[d].text) < IF d = N THEN nextBase' ELSE entries'[d + 1].base
      BY <1>1, <1>3, <2>2, <2>3, <3>1, <3>2, <3>3
    <3> QED
      BY <2>3, <3>4 DEF EndOf, BaseOf
  <2> QED
    BY <1>3, <2>3, <2>4, <2>5 DEF IdsInv, IdsKept, Unwrapped
<1> QED
  BY <1>4, <1>5

LEMMA ImportKeepsIds ==
  ASSUME IdsInv, NEW path \in Paths, ImportPath(path), ReaderInv', Unwrapped'
  PROVE  IdsInv'
<1>1. CASE ImportKnownPath(path)
  BY <1>1, OthersKeepIds DEF ImportKnownPath
<1>2. CASE ImportKnownFile(path)
  BY <1>2, OthersKeepIds DEF ImportKnownFile
<1>3. CASE OpenFile(path)
  BY <1>3, OpenKeepsIds
<1> QED
  BY <1>1, <1>2, <1>3 DEF ImportPath

LEMMA NextIds ==
  ASSUME IdsInv, [Next]_vars, Unwrapped'
  PROVE  IdsInv'
<1>1. ReaderInv'
  BY NextReader DEF IdsInv
<1>2. CASE ImportFirst
  <2>1. ImportPath(PreludePath) \/ ImportPath(MainPath)
    BY <1>2 DEF ImportFirst
  <2> QED
    BY <1>1, <2>1, ImportKeepsIds, SourcesAssumption
<1>3. CASE \E e \in DOMAIN entries, name \in Names : ImportFrom(e, name)
  <2>1. PICK e \in DOMAIN entries, name \in Names : ImportFrom(e, name)
    BY <1>3
  <2>2. Resolve[<<entries[e].path, name>>] \in Paths
    BY <2>1, SourcesAssumption DEF ImportFrom
  <2>3. ImportPath(Resolve[<<entries[e].path, name>>])
    BY <2>1 DEF ImportFrom
  <2>4. PICK path \in Paths : path = Resolve[<<entries[e].path, name>>]
    BY <2>2
  <2> QED
    BY <1>1, <2>3, <2>4, ImportKeepsIds
<1>4. CASE reading # NotReading /\ \E offsets \in Findings(reading) : ReadFile(offsets)
  BY <1>1, <1>4, ReadKeepsIds
<1>5. CASE \E e \in DOMAIN entries : \E offset \in 0 .. Len(entries[e].text) : EvaluationFails(e, offset)
  BY <1>1, <1>5, OthersKeepIds DEF EvaluationFails
<1>6. CASE EntryPointMissing
  BY <1>1, <1>6, OthersKeepIds DEF EntryPointMissing
<1>7. CASE EvaluationEnds
  BY <1>1, <1>7, OthersKeepIds DEF EvaluationEnds
<1>8. CASE PrintNext
  BY <1>1, <1>8, OthersKeepIds DEF PrintNext
<1>9. CASE \E file \in Files : \E text \in Edited[file] : Edit(file, text)
  BY <1>1, <1>9, OthersKeepIds DEF Edit
<1>10. CASE UNCHANGED vars
  BY <1>1, <1>10, OthersKeepIds DEF vars
<1> QED
  BY <1>2, <1>3, <1>4, <1>5, <1>6, <1>7, <1>8, <1>9, <1>10 DEF Next

\* As long as the counter of source ids has not come round to zero, each id
\* that was given out leads back to the file it was given out for.
THEOREM SpecAttributed == Spec /\ []Unwrapped => []Attributed
<1>1. Init => IdsInv
  BY InitIds
<1>2. IdsInv /\ [Next]_vars /\ Unwrapped' => IdsInv'
  BY NextIds
<1>3. IdsInv => Attributed
  BY IdsAttributed
<1> QED
  BY <1>1, <1>2, <1>3, PTL DEF Spec

-----------------------------------------------------------------------------
(* Where a location leads. *)

LEMMA GreatestIs ==
  ASSUME NEW S \in SUBSET Nat, NEW m \in S, \A n \in S : n <= m
  PROVE  Max(S) = m
<1>1. \A n \in S : m >= n
  OBVIOUS
<1>2. Max(S) \in S /\ \A n \in S : Max(S) >= n
  BY <1>1, Zenon DEF Max
<1>3. PICK g \in S : g = Max(S) /\ \A n \in S : g >= n
  BY <1>2
<1>4. g \in Nat /\ m \in Nat /\ g >= m /\ g <= m
  BY <1>3
<1> QED
  BY <1>3, <1>4

LEMMA GreatestExists ==
  ASSUME NEW S \in SUBSET Nat, S # {}, NEW most \in Nat, \A n \in S : n <= most
  PROVE  Max(S) \in S /\ \A n \in S : n <= Max(S)
<1> DEFINE T == {most - n : n \in S}
<1>1. T \in SUBSET Nat /\ T # {}
  <2>1. \A n \in S : most - n \in Nat
    OBVIOUS
  <2> QED
    BY <2>1
<1>2. PICK t \in T : \A x \in T : t <= x
  BY <1>1, LeastNumber
<1>3. PICK m \in S : t = most - m
  BY <1>2
<1>4. \A n \in S : n <= m
  BY <1>2, <1>3
<1> QED
  BY <1>4, GreatestIs

LEMMA LeastExists ==
  ASSUME NEW S \in SUBSET Nat, S # {}
  PROVE  Min(S) \in S /\ \A n \in S : Min(S) <= n
<1>1. \E m \in S : \A n \in S : m <= n
  BY LeastNumber
<1> QED
  BY <1>1, Zenon DEF Min

\* The place of an error, and a path of the file it is in.
Under(path, file) == IF file = PreludeName THEN path = PreludeName ELSE FileOf[path] = file

\* build_source_location: where it says an offset is, and what it shows there.
LEMMA LocationShows ==
  ASSUME NEW text \in Seq(STRING), NEW offset \in 0 .. Len(text), NEW path, NEW file, Under(path, file)
  PROVE  Shows(LocationIn(path, text, offset), [file |-> file, text |-> text, offset |-> offset])
<1> DEFINE newlines == {i \in 1 .. offset : text[i] = "newline"}
           begin    == IF newlines = {} THEN 0 ELSE Max(newlines)
           stops    == {i \in begin + 1 .. Len(text) : text[i] \in {"newline", "return"}}
           end      == IF stops = {} THEN Len(text) ELSE Min(stops) - 1
           column   == offset - begin
           first    == begin + (IF column < ContextBefore THEN 0 ELSE column - ContextBefore)
           shown    == IF end >= first /\ end - first < ContextSize THEN end - first ELSE ContextSize
           before   == {s \in LineStarts(text) : s < offset + 1}
           cutOff   == \E i \in begin + 1 .. offset : text[i] = "return"
<1>1. LocationIn(path, text, offset)
        = [path |-> path, line |-> Cardinality(newlines) + 1, column |-> column + 1,
           context |-> first + 1 .. first + shown]
  BY DEF LocationIn
<1>2. PICK L \in Nat : L = Len(text) /\ DOMAIN text = 1 .. L
  OBVIOUS
<1>3. offset \in Nat /\ offset <= L
  BY <1>2
<1>4. before = {0} \cup newlines
  BY <1>2, <1>3 DEF LineStarts
<1>5. newlines \in SUBSET Nat /\ 0 \notin newlines /\ \A n \in newlines : n <= offset
  BY <1>3
<1> HIDE DEF before
<1>6. begin \in before /\ \A s \in before : s <= begin
  <2>1. CASE newlines = {}
    BY <1>4, <2>1
  <2>2. CASE newlines # {}
    <3> HIDE DEF newlines
    <3>1. Max(newlines) \in newlines /\ \A n \in newlines : n <= Max(newlines)
      BY <1>3, <1>5, <2>2, GreatestExists
    <3>2. begin = Max(newlines)
      BY <2>2
    <3>3. PICK m \in newlines : m = begin /\ \A n \in newlines : n <= m
      BY <3>1, <3>2
    <3>4. m \in Nat /\ 0 <= m
      BY <1>5
    <3> HIDE DEF begin
    <3> QED
      BY <1>4, <3>3, <3>4
  <2> QED
    BY <2>1, <2>2
<1>7. begin \in Nat /\ begin <= offset /\ before \in SUBSET Nat
  BY <1>3, <1>4, <1>5, <1>6
<1>8. \A i \in begin + 1 .. offset : text[i] # "newline"
  BY <1>2, <1>3, <1>4, <1>6, <1>7
<1> HIDE DEF begin
<1>9. Max(before) = begin
  BY <1>6, <1>7, GreatestIs
<1>10. Cardinality({s \in LineStarts(text) : s <= begin}) = Cardinality(newlines) + 1
  <2>1. {s \in LineStarts(text) : s <= begin} = newlines \cup {0}
    <3>1. ASSUME NEW s \in LineStarts(text), s <= begin PROVE s \in newlines \cup {0}
      BY <1>2, <1>3, <1>7, <3>1 DEF LineStarts
    <3>2. \A s \in newlines \cup {0} : s \in before
      BY <1>4
    <3>3. \A s \in before : s \in LineStarts(text) /\ s <= begin
      BY <1>6 DEF before
    <3> HIDE DEF newlines
    <3> QED
      BY <3>1, <3>2, <3>3
  <2> HIDE DEF newlines
  <2>2. IsFiniteSet(newlines)
    BY <1>3, <1>5, FS_BoundedSetOfNaturals
  <2> QED
    BY <1>5, <2>1, <2>2, FS_AddElement
<1>11. column \in Nat /\ first \in Nat /\ begin <= first /\ first <= offset
       /\ offset - first <= ContextBefore
  BY <1>3, <1>7, SourcesAssumption
<1> HIDE DEF newlines, column, first
<1>12. ASSUME ~cutOff
       PROVE  /\ end \in Nat /\ first <= end /\ offset <= end /\ end <= L
              /\ \A i \in begin + 1 .. end : text[i] \notin {"newline", "return"}
              /\ offset + 1 \in DOMAIN text /\ text[offset + 1] \notin {"newline", "return"} => offset + 1 <= end
  <2>1. stops \in SUBSET Nat /\ \A i \in stops : offset < i /\ i <= L
    BY <1>2, <1>3, <1>7, <1>8, <1>12
  <2>2. \A i \in begin + 1 .. L : i \notin stops => text[i] \notin {"newline", "return"}
    BY <1>2
  <2>3. offset + 1 \in stops => text[offset + 1] \in {"newline", "return"}
    OBVIOUS
  <2> HIDE DEF stops
  <2>4. CASE stops = {}
    BY <1>2, <1>3, <1>11, <2>2, <2>4
  <2>5. CASE stops # {}
    <3>1. PICK m \in Nat : m = Min(stops) /\ m \in stops /\ \A i \in stops : m <= i
      BY <2>1, <2>5, LeastExists
    <3>2. end = m - 1 /\ offset < m /\ m <= L
      BY <2>1, <2>5, <3>1
    <3>3. end \in Nat /\ first <= end /\ offset <= end /\ end <= L
      BY <1>3, <1>11, <3>1, <3>2
    <3>4. ASSUME NEW i \in begin + 1 .. end PROVE text[i] \notin {"newline", "return"}
      <4>1. i \in begin + 1 .. L /\ i < m
        BY <1>2, <1>7, <3>1, <3>2
      <4>2. i \notin stops
        BY <1>7, <3>1, <4>1
      <4> QED
        BY <2>2, <4>1, <4>2
    <3>5. offset + 1 \in DOMAIN text /\ text[offset + 1] \notin {"newline", "return"} => offset + 1 <= end
      BY <1>3, <2>3, <3>1, <3>2
    <3> QED
      BY <3>3, <3>4, <3>5
  <2> QED
    BY <2>4, <2>5
<1> HIDE DEF end
<1>13. ASSUME ~cutOff
       PROVE  /\ \A i \in first + 1 .. first + shown : i > begin /\ text[i] \notin {"newline", "return"}
              /\ offset + 1 \in DOMAIN text /\ text[offset + 1] \notin {"newline", "return"}
                   => offset + 1 \in first + 1 .. first + shown
  <2>1. shown \in Nat /\ first + shown <= end /\ (first + shown = end \/ shown = ContextSize)
    BY <1>11, <1>12, <1>13, SourcesAssumption
  <2> HIDE DEF shown
  <2>2. \A i \in first + 1 .. first + shown : i > begin /\ i \in begin + 1 .. end
    BY <1>7, <1>11, <1>12, <1>13, <2>1
  <2>3. offset + 1 <= end => offset + 1 \in first + 1 .. first + shown
    BY <1>3, <1>11, <1>12, <1>13, <2>1, SourcesAssumption
  <2> QED
    BY <1>12, <1>13, <2>2, <2>3
<1> HIDE DEF shown
<1>14. /\ (offset + 1) - begin = column + 1
       /\ Max({s \in LineStarts(text) : s < offset + 1}) = begin
  BY <1>3, <1>7, <1>9 DEF column, before
<1> DEFINE place == [file |-> file, text |-> text, offset |-> offset]
           location == LocationIn(path, text, offset)
<1>15. place.file = file /\ place.text = text /\ place.offset = offset
  OBVIOUS
<1>16. /\ location.path = path /\ location.line = Cardinality(newlines) + 1
       /\ location.column = column + 1 /\ location.context = first + 1 .. first + shown
  BY <1>1
<1> HIDE DEF place, location
<1>17. Shows(location, place)
  BY <1>10, <1>13, <1>14, <1>15, <1>16 DEF Shows, Under
<1> QED
  BY <1>17 DEF place, location

-----------------------------------------------------------------------------
(* Errors are shown where they were found. *)

\* How many of so many errors are recorded.
Limit(n) == IF n < MaxErrors THEN n ELSE MaxErrors

Placed == [file : Files \cup {PreludeName}, text : Seq(STRING), offset : Nat]

Nowhere == [file |-> PreludeName, text |-> <<>>, offset |-> 0]

\* The id is the one that was given out for the place, or for none.
Leads(id, place) ==
  \/ id = NoSource /\ place = Nowhere
  \/ \E e \in DOMAIN entries :
       /\ id = BaseOf(e) + place.offset /\ id < EndOf(e)
       /\ place.file = entries[e].file /\ place.offset <= Len(place.text)

\* The records are the first errors that were found, in that order.
ErrorsRecorded ==
  /\ errors \in Seq(Nat) /\ found \in Seq(Placed) /\ Len(errors) = Limit(Len(found))
  /\ \A i \in DOMAIN errors : Leads(errors[i], found[i])

PathsOwn == \A e \in DOMAIN entries : FileOf[entries[e].path] = entries[e].file

SomePrinted == (\E L : printed \in Seq(L)) /\ Len(printed) <= Len(errors)

ErrorsInv == IdsInv /\ PathsOwn /\ ErrorsRecorded /\ SomePrinted

\* A step leaves every entry its file and its ids.
EntriesStay ==
  \A e \in DOMAIN entries :
    /\ e \in DOMAIN entries'
    /\ entries'[e].base = entries[e].base /\ entries'[e].file = entries[e].file
    /\ (IF e = Len(entries') THEN nextBase' ELSE entries'[e + 1].base)
         = (IF e = Len(entries) THEN nextBase ELSE entries[e + 1].base)

LEMMA StayLeads ==
  ASSUME EntriesStay, NEW id, NEW place, Leads(id, place)
  PROVE  Leads(id, place)'
<1>1. CASE id = NoSource /\ place = Nowhere
  BY <1>1 DEF Leads
<1>2. CASE ~(id = NoSource /\ place = Nowhere)
  <2>1. PICK e \in DOMAIN entries : /\ id = entries[e].base + place.offset
                                    /\ id < IF e = Len(entries) THEN nextBase ELSE entries[e + 1].base
                                    /\ place.file = entries[e].file /\ place.offset <= Len(place.text)
    BY <1>2 DEF Leads, BaseOf, EndOf
  <2>2. /\ e \in DOMAIN entries' /\ id = entries'[e].base + place.offset
        /\ id < IF e = Len(entries') THEN nextBase' ELSE entries'[e + 1].base
        /\ place.file = entries'[e].file
    BY <2>1 DEF EntriesStay
  <2> QED
    BY <2>1, <2>2 DEF Leads, BaseOf, EndOf
<1> QED
  BY <1>1, <1>2

LEMMA OpenStays ==
  ASSUME IdsInv, PathsOwn, NEW path \in Paths, OpenFile(path), ReaderInv'
  PROVE  EntriesStay /\ PathsOwn'
<1> DEFINE new == [file |-> FileOf[path], path |-> path, base |-> nextBase, text |-> <<>>,
                   type |-> NoType, error |-> FALSE]
<1>1. CASE UNCHANGED <<entries, nextBase>>
  BY <1>1 DEF EntriesStay, PathsOwn
<1>2. CASE ~UNCHANGED <<entries, nextBase>>
  <2>1. entries' = Append(entries, new)
    BY <1>2 DEF OpenFile
  <2>2. PICK N \in Nat : N = Len(entries)
    BY DEF IdsInv, ReaderInv, ReaderTypes
  <2>3. new.base = nextBase /\ new.file = FileOf[path] /\ new.path = path
    OBVIOUS
  <2> HIDE DEF new
  <2>4. /\ entries \in Seq(Entry) /\ DOMAIN entries = 1 .. N
        /\ DOMAIN entries' = 1 .. N + 1 /\ Len(entries') = N + 1
        /\ \A e \in 1 .. N : entries'[e] = entries[e]
        /\ entries'[N + 1] = new
    BY <2>1, <2>2 DEF IdsInv, ReaderInv, ReaderTypes
  <2>5. ASSUME NEW e \in 1 .. N
        PROVE  /\ e \in 1 .. N + 1 /\ e # N + 1
               /\ entries'[e + 1].base = IF e = N THEN nextBase ELSE entries[e + 1].base
    <3>1. e = N \/ e + 1 \in 1 .. N
      BY <2>2
    <3> QED
      BY <2>2, <2>3, <2>4, <3>1
  <2>6. EntriesStay
    BY <2>2, <2>4, <2>5 DEF EntriesStay
  <2>7. ASSUME NEW e \in 1 .. N + 1 PROVE FileOf[entries'[e].path] = entries'[e].file
    <3>1. e \in 1 .. N \/ e = N + 1
      BY <2>2
    <3> QED
      BY <2>3, <2>4, <3>1 DEF PathsOwn
  <2> QED
    BY <2>4, <2>6, <2>7 DEF PathsOwn
<1> QED
  BY <1>1, <1>2

LEMMA ReadStays ==
  ASSUME IdsInv, PathsOwn, NEW offsets, ReadFile(offsets), ReaderInv'
  PROVE  EntriesStay /\ PathsOwn'
<1>1. PICK e \in DOMAIN entries, N \in Nat : e = Len(entries) /\ N = Len(entries)
  <2>1. reading # NotReading
    BY DEF ReadFile
  <2>2. entries # <<>> /\ entries \in Seq(Entry)
    BY <2>1 DEF IdsInv, ReaderInv, ReaderTypes, ReadingLast
  <2>3. Len(entries) \in DOMAIN entries /\ Len(entries) \in Nat
    BY <2>2
  <2> QED
    BY <2>3
<1>2. entries \in Seq(Entry) /\ DOMAIN entries = 1 .. N /\ nextBase' = nextBase
  BY <1>1 DEF ReadFile, IdsInv, ReaderInv, ReaderTypes
<1>3. CASE UNCHANGED entries
  BY <1>2, <1>3 DEF EntriesStay, PathsOwn
<1>4. CASE ~UNCHANGED entries
  <2> DEFINE content == SubSeq(disk[entries[e].file], 1, reading)
  <2>1. entries' = [entries EXCEPT ![e].text = content, ![e].error = offsets # <<>>,
                                   ![e].type = IF offsets = <<>> THEN e ELSE NoType]
    BY <1>1, <1>4 DEF ReadFile
  <2> HIDE DEF content
  <2>2. DOMAIN entries' = 1 .. N
    BY <1>2, <2>1
  <2>3. Len(entries') = N
    BY <1>1, <2>2 DEF ReaderInv, ReaderTypes
  <2>4. \A d \in 1 .. N : /\ entries'[d].base = entries[d].base /\ entries'[d].file = entries[d].file
                          /\ entries'[d].path = entries[d].path
    BY <1>1, <1>2, <2>1 DEF Entry
  <2>5. \A d \in 1 .. N : d = N \/ d + 1 \in 1 .. N
    BY <1>1
  <2>6. EntriesStay
    BY <1>1, <1>2, <2>2, <2>3, <2>4, <2>5 DEF EntriesStay
  <2> QED
    BY <1>2, <2>2, <2>4, <2>6 DEF PathsOwn
<1> QED
  BY <1>3, <1>4

LEMMA NextStays ==
  ASSUME IdsInv, PathsOwn, [Next]_vars, ReaderInv'
  PROVE  EntriesStay /\ PathsOwn'
<1>1. ASSUME UNCHANGED <<entries, nextBase>>
      PROVE  EntriesStay /\ PathsOwn'
  BY <1>1 DEF EntriesStay, PathsOwn
<1>2. ASSUME NEW path \in Paths, ImportPath(path)
      PROVE  EntriesStay /\ PathsOwn'
  BY <1>1, <1>2, OpenStays DEF ImportPath, ImportKnownPath, ImportKnownFile
<1>3. CASE ImportFirst
  BY <1>2, <1>3, SourcesAssumption DEF ImportFirst
<1>4. CASE \E e \in DOMAIN entries, name \in Names : ImportFrom(e, name)
  <2>1. PICK e \in DOMAIN entries, name \in Names : ImportFrom(e, name)
    BY <1>4
  <2>2. Resolve[<<entries[e].path, name>>] \in Paths
    BY <2>1, SourcesAssumption DEF ImportFrom
  <2>3. PICK path \in Paths : path = Resolve[<<entries[e].path, name>>]
    BY <2>2
  <2> QED
    BY <1>2, <2>1, <2>3 DEF ImportFrom
<1>5. CASE reading # NotReading /\ \E offsets \in Findings(reading) : ReadFile(offsets)
  BY <1>5, ReadStays
<1>6. CASE \E e \in DOMAIN entries : \E offset \in 0 .. Len(entries[e].text) : EvaluationFails(e, offset)
  BY <1>1, <1>6 DEF EvaluationFails
<1>7. CASE EntryPointMissing
  BY <1>1, <1>7 DEF EntryPointMissing
<1>8. CASE EvaluationEnds
  BY <1>1, <1>8 DEF EvaluationEnds
<1>9. CASE PrintNext
  BY <1>1, <1>9 DEF PrintNext
<1>10. CASE \E file \in Files : \E text \in Edited[file] : Edit(file, text)
  BY <1>1, <1>10 DEF Edit
<1>11. CASE UNCHANGED vars
  BY <1>1, <1>11 DEF vars
<1> QED
  BY <1>3, <1>4, <1>5, <1>6, <1>7, <1>8, <1>9, <1>10, <1>11 DEF Next

\* record_error: what is recorded stays the beginning of what was found.
LEMMA RecordLeads ==
  ASSUME ErrorsRecorded, EntriesStay,
         NEW ids \in Seq(Nat), NEW places \in Seq(Placed), Len(ids) = Len(places),
         \A j \in DOMAIN ids : Leads(ids[j], places[j])',
         errors' = Record(ids), found' = found \o places
  PROVE  ErrorsRecorded' /\ Len(errors) <= Len(errors')
<1>1. PICK N \in Nat, F \in Nat, K \in Nat :
        N = Len(errors) /\ F = Len(found) /\ K = Len(ids) /\ K = Len(places)
  BY DEF ErrorsRecorded
<1>2. errors \in Seq(Nat) /\ found \in Seq(Placed) /\ N = Limit(F) /\ MaxErrors \in Nat
  BY <1>1, SourcesAssumption DEF ErrorsRecorded
<1>3. PICK M \in Nat : M = Limit(N + K)
  BY <1>1, <1>2 DEF Limit
<1>4. M = Limit(F + K) /\ N <= M /\ M <= N + K /\ N <= F /\ (N < M => N = F)
  BY <1>1, <1>2, <1>3 DEF Limit
<1>5. PICK all \in Seq(Nat) : /\ all = errors \o ids /\ Len(all) = N + K
                              /\ \A i \in 1 .. N + K : all[i] = IF i <= N THEN errors[i] ELSE ids[i - N]
  <2>1. /\ errors \o ids \in Seq(Nat) /\ Len(errors \o ids) = N + K
        /\ \A i \in 1 .. N + K : (errors \o ids)[i] = IF i <= N THEN errors[i] ELSE ids[i - N]
    <3>1. PICK es \in Seq(Nat) : es = errors /\ Len(es) = N
      BY <1>1, <1>2
    <3>2. /\ es \o ids \in Seq(Nat) /\ Len(es \o ids) = Len(es) + Len(ids)
          /\ \A i \in 1 .. Len(es) + Len(ids) :
               (es \o ids)[i] = IF i <= Len(es) THEN es[i] ELSE ids[i - Len(es)]
      BY ConcatProperties
    <3> QED
      BY <1>1, <3>1, <3>2
  <2> QED
    BY <2>1
<1>6. errors' = SubSeq(all, 1, M)
  BY <1>3, <1>5 DEF Record, Limit
<1>7. errors' \in Seq(Nat) /\ Len(errors') = M /\ \A i \in 1 .. M : errors'[i] = all[i]
  <2>1. 1 \in Int /\ M \in Int /\ \A i \in 1 .. M : i \in 1 .. N + K
    BY <1>1, <1>3, <1>4
  <2>2. ASSUME NEW i \in 1 .. M PROVE all[i] \in Nat
    <3>1. i \in 1 .. Len(all)
      BY <1>5, <2>1
    <3> QED
      BY <3>1
  <2>3. /\ SubSeq(all, 1, M) \in Seq(Nat) /\ Len(SubSeq(all, 1, M)) = IF 1 <= M THEN M - 1 + 1 ELSE 0
        /\ \A i \in 1 .. M - 1 + 1 : SubSeq(all, 1, M)[i] = all[1 + i - 1]
    BY <2>1, <2>2, SubSeqProperties
  <2>4. (IF 1 <= M THEN M - 1 + 1 ELSE 0) = M /\ M - 1 + 1 = M
    BY <1>3
  <2>5. \A i \in 1 .. M : 1 + i - 1 = i
    OBVIOUS
  <2> QED
    BY <1>6, <2>3, <2>4, <2>5
<1>8. /\ found' \in Seq(Placed) /\ Len(found') = F + K
      /\ \A i \in 1 .. F + K : found'[i] = IF i <= F THEN found[i] ELSE places[i - F]
  BY <1>1, <1>2, ConcatProperties
<1>9. ASSUME NEW i \in 1 .. M PROVE Leads(errors[i], found[i])'
  <2>1. i \in 1 .. N + K /\ i \in 1 .. F + K
    BY <1>1, <1>3, <1>4
  <2>2. CASE i <= N
    <3>1. PICK id, place : id = errors[i] /\ place = found[i]
      OBVIOUS
    <3>2. i \in 1 .. N /\ i <= F
      BY <1>1, <1>4, <2>2
    <3>3. Leads(id, place)
      BY <1>1, <1>2, <3>1, <3>2 DEF ErrorsRecorded
    <3>4. Leads(id, place)'
      BY <3>3, StayLeads
    <3>5. errors'[i] = id /\ found'[i] = place
      BY <1>5, <1>7, <1>8, <2>1, <2>2, <3>1, <3>2
    <3> QED
      BY <3>4, <3>5 DEF Leads, BaseOf, EndOf
  <2>3. CASE ~(i <= N)
    <3>1. N = F /\ i - N \in 1 .. K /\ ~(i <= F)
      BY <1>1, <1>3, <1>4, <2>1, <2>3
    <3>2. PICK id, place : id = ids[i - N] /\ place = places[i - N]
      OBVIOUS
    <3>3. Leads(id, place)'
      <4>1. i - N \in DOMAIN ids
        BY <1>1, <3>1
      <4> QED
        BY <3>2, <4>1
    <3>4. errors'[i] = id /\ found'[i] = place
      BY <1>5, <1>7, <1>8, <2>1, <2>3, <3>1, <3>2
    <3> QED
      BY <3>3, <3>4 DEF Leads, BaseOf, EndOf
  <2> QED
    BY <2>2, <2>3
<1>10. DOMAIN errors' = 1 .. M
  BY <1>7
<1> QED
  BY <1>1, <1>4, <1>7, <1>8, <1>9, <1>10 DEF ErrorsRecorded

LEMMA SameErrors ==
  ASSUME ErrorsRecorded, EntriesStay, UNCHANGED <<errors, found>>
  PROVE  ErrorsRecorded' /\ Len(errors) <= Len(errors')
<1>1. ASSUME NEW i \in DOMAIN errors PROVE Leads(errors[i], found[i])'
  <2>1. PICK id, place : id = errors[i] /\ place = found[i]
    OBVIOUS
  <2>2. Leads(id, place)
    BY <2>1 DEF ErrorsRecorded
  <2>3. Leads(id, place)'
    BY <2>2, StayLeads
  <2> QED
    BY <2>1, <2>3 DEF Leads, BaseOf, EndOf
<1>2. Len(errors) \in Nat
  BY DEF ErrorsRecorded
<1> QED
  BY <1>1, <1>2 DEF ErrorsRecorded

\* What reading a file finds is in the ids that were taken for it.
LEMMA ReadErrors ==
  ASSUME ErrorsInv, NEW offsets \in Findings(reading), ReadFile(offsets), EntriesStay, ReaderInv'
  PROVE  ErrorsRecorded' /\ Len(errors) <= Len(errors')
<1>1. PICK e \in DOMAIN entries : e = Len(entries) /\ e \in Nat
  <2>1. reading # NotReading
    BY DEF ReadFile
  <2>2. entries # <<>> /\ entries \in Seq(Entry)
    BY <2>1 DEF ErrorsInv, IdsInv, ReaderInv, ReaderTypes, ReadingLast
  <2>3. Len(entries) \in DOMAIN entries /\ Len(entries) \in Nat
    BY <2>2
  <2> QED
    BY <2>3
<1> DEFINE file == entries[e].file
           content == SubSeq(disk[file], 1, reading)
           ids == [i \in DOMAIN offsets |-> BaseOf(e) + offsets[i]]
           places == [i \in DOMAIN offsets |-> Place(e, content, offsets[i])]
<1>2. /\ ErrorsRecorded /\ entries \in Seq(Entry) /\ entries[e] \in Entry /\ file \in Files
      /\ reading \in Nat /\ disk[file] \in Seq(STRING) /\ BaseOf(e) \in Nat
      /\ BaseOf(e) + reading < nextBase /\ nextBase \in Nat /\ nextBase' = nextBase
  <2>1. entries \in Seq(Entry) /\ reading \in Nat /\ nextBase \in Nat /\ disk \in [Files -> Seq(STRING)]
    BY DEF ErrorsInv, IdsInv, ReaderInv, ReaderTypes
  <2>2. entries[e] \in Entry
    BY <2>1
  <2>3. file \in Files
    BY <2>2 DEF Entry
  <2>4. BaseOf(e) \in Nat /\ BaseOf(e) + reading < nextBase
    BY <1>1 DEF ErrorsInv, IdsInv, IdsKept, Ascending, ReadFile
  <2> QED
    BY <2>1, <2>2, <2>3, <2>4 DEF ErrorsInv, ReadFile
<1>3. CASE Len(disk[file]) < reading
  BY <1>1, <1>2, <1>3, SameErrors DEF ReadFile
<1>4. CASE ~(Len(disk[file]) < reading)
  <2>1. errors' = Record(ids) /\ found' = found \o places
    BY <1>1, <1>4 DEF ReadFile
  <2>2. content \in Seq(STRING) /\ Len(content) = reading
    <3>1. 0 <= reading /\ reading <= Len(disk[file])
      BY <1>2, <1>4
    <3> QED
      BY <1>2, <3>1, SubSeqProperties
  <2>3. PICK n \in Nat : offsets \in [1 .. n -> 0 .. reading]
    BY SourcesAssumption DEF Findings
  <2> HIDE DEF content
  <2>4. ids \in [1 .. n -> Nat] /\ places \in [1 .. n -> Placed]
    <3>1. DOMAIN offsets = 1 .. n
      BY <2>3
    <3>2. ASSUME NEW i \in 1 .. n
          PROVE  BaseOf(e) + offsets[i] \in Nat /\ Place(e, content, offsets[i]) \in Placed
      <4>1. offsets[i] \in Nat
        BY <1>2, <2>3
      <4>2. BaseOf(e) + offsets[i] \in Nat
        BY <1>2, <4>1
      <4> QED
        BY <1>2, <2>2, <4>1, <4>2 DEF Place, Placed
    <3> QED
      BY <3>1, <3>2
  <2>5. \A j \in 1 .. n : ids[j] = BaseOf(e) + offsets[j] /\ places[j] = Place(e, content, offsets[j])
    BY <2>3
  <2>6. PICK is, ps : is = ids /\ ps = places
    OBVIOUS
  <2> HIDE DEF ids, places
  <2>7. /\ is \in Seq(Nat) /\ ps \in Seq(Placed) /\ Len(is) = n /\ Len(ps) = n
        /\ DOMAIN is = 1 .. n
    <3>1. is \in Seq(Nat) /\ ps \in Seq(Placed)
      BY <2>4, <2>6, SeqDef
    <3>2. DOMAIN is = 1 .. n /\ DOMAIN ps = 1 .. n
      BY <2>4, <2>6
    <3> QED
      BY <3>1, <3>2
  <2>8. ASSUME NEW j \in 1 .. n PROVE Leads(is[j], ps[j])'
    <3>1. PICK o \in 0 .. reading : o = offsets[j]
      BY <2>3
    <3>2. is[j] = BaseOf(e) + o /\ ps[j] = [file |-> file, text |-> content, offset |-> o]
      BY <2>5, <2>6, <3>1 DEF Place
    <3>3. ps[j].file = file /\ ps[j].offset = o /\ Len(ps[j].text) = reading
      BY <2>2, <3>2
    <3>4. BaseOf(e) + o < nextBase /\ o <= reading
      BY <1>2, <3>1
    <3>5. /\ e \in DOMAIN entries' /\ entries'[e].base = BaseOf(e) /\ entries'[e].file = file
          /\ (IF e = Len(entries') THEN nextBase' ELSE entries'[e + 1].base) = nextBase
      BY <1>1 DEF EntriesStay, BaseOf
    <3> HIDE DEF file
    <3>6. \E d \in DOMAIN entries' :
            /\ is[j] = entries'[d].base + ps[j].offset
            /\ is[j] < (IF d = Len(entries') THEN nextBase' ELSE entries'[d + 1].base)
            /\ ps[j].file = entries'[d].file /\ ps[j].offset <= Len(ps[j].text)
      BY <3>2, <3>3, <3>4, <3>5
    <3> QED
      BY <3>6 DEF Leads, BaseOf, EndOf
  <2> QED
    BY <1>2, <2>1, <2>6, <2>7, <2>8, RecordLeads
<1> QED
  BY <1>3, <1>4

LEMMA FailsErrors ==
  ASSUME ErrorsInv, NEW e \in DOMAIN entries, NEW offset \in 0 .. Len(entries[e].text),
         EvaluationFails(e, offset), EntriesStay
  PROVE  ErrorsRecorded' /\ Len(errors) <= Len(errors')
<1>1. /\ ErrorsRecorded /\ entries \in Seq(Entry) /\ BaseOf(e) \in Nat
      /\ BaseOf(e) + Len(entries[e].text) < EndOf(e) /\ nextBase \in Nat
  BY DEF ErrorsInv, IdsInv, IdsKept, Ascending, ReaderInv, ReaderTypes
<1>2. entries[e].file \in Files /\ entries[e].text \in Seq(STRING)
  <2>1. entries[e] \in Entry
    BY <1>1
  <2> QED
    BY <2>1 DEF Entry
<1>3. PICK o \in Nat, b \in Nat, l \in Nat :
        o = offset /\ b = BaseOf(e) /\ l = Len(entries[e].text) /\ o <= l
  <2>1. Len(entries[e].text) \in Nat
    BY <1>2
  <2>2. PICK l \in Nat : l = Len(entries[e].text)
    BY <2>1
  <2>3. offset \in Nat /\ offset <= l
    BY <2>2
  <2> QED
    BY <1>1, <2>2, <2>3
<1>4. PICK id, place : id = b + o /\ place = Place(e, entries[e].text, offset)
  OBVIOUS
<1>5. /\ id \in Nat /\ place \in Placed
      /\ place.file = entries[e].file /\ place.offset = o /\ Len(place.text) = l
  BY <1>2, <1>3, <1>4 DEF Place, Placed
<1>6. Leads(id, place)'
  <2>1. id < (IF e = Len(entries) THEN nextBase ELSE entries[e + 1].base)
    <3>1. PICK end : end = EndOf(e)
      OBVIOUS
    <3>2. end \in Nat
      <4>1. e # Len(entries) => e + 1 \in DOMAIN entries
        BY <1>1
      <4> QED
        BY <1>1, <3>1, <4>1 DEF EndOf, ErrorsInv, IdsInv, IdsKept, Ascending
    <3>3. b + o < end
      BY <1>1, <1>3, <3>1, <3>2
    <3> QED
      BY <1>4, <3>1, <3>3 DEF EndOf, BaseOf
  <2>2. /\ e \in DOMAIN entries' /\ entries'[e].base = b /\ entries'[e].file = entries[e].file
        /\ (IF e = Len(entries') THEN nextBase' ELSE entries'[e + 1].base)
             = (IF e = Len(entries) THEN nextBase ELSE entries[e + 1].base)
    BY <1>3 DEF EntriesStay, BaseOf
  <2>3. \E d \in DOMAIN entries' :
          /\ id = entries'[d].base + place.offset
          /\ id < (IF d = Len(entries') THEN nextBase' ELSE entries'[d + 1].base)
          /\ place.file = entries'[d].file /\ place.offset <= Len(place.text)
    BY <1>3, <1>4, <1>5, <2>1, <2>2
  <2> QED
    BY <2>3 DEF Leads, BaseOf, EndOf
<1>7. PICK ids, places : ids = <<id>> /\ places = <<place>>
  OBVIOUS
<1>8. /\ ids \in Seq(Nat) /\ places \in Seq(Placed) /\ Len(ids) = 1 /\ Len(places) = 1
      /\ DOMAIN ids = {1} /\ ids[1] = id /\ places[1] = place
  BY <1>5, <1>7
<1>9. \A j \in DOMAIN ids : Leads(ids[j], places[j])'
  BY <1>6, <1>8 DEF Leads, BaseOf, EndOf
<1>10. errors' = Record(ids)
  BY <1>3, <1>4, <1>7 DEF EvaluationFails
<1>11. found' = found \o places
  <2>1. found' = Append(found, place) /\ found \in Seq(Placed)
    BY <1>1, <1>4 DEF EvaluationFails, ErrorsRecorded
  <2> QED
    BY <1>5, <1>7, <2>1, AppendIsConcat
<1> QED
  BY <1>1, <1>8, <1>9, <1>10, <1>11, RecordLeads

LEMMA MissingErrors ==
  ASSUME ErrorsInv, EntryPointMissing, EntriesStay
  PROVE  ErrorsRecorded' /\ Len(errors) <= Len(errors')
<1>1. ErrorsRecorded
  BY DEF ErrorsInv
<1>2. PICK id, place : id = NoSource /\ place = Nowhere
  OBVIOUS
<1>3. id \in Nat /\ place \in Placed
  BY <1>2 DEF NoSource, Nowhere, Placed
<1>4. Leads(id, place)'
  BY <1>2 DEF Leads
<1>5. PICK ids, places : ids = <<id>> /\ places = <<place>>
  OBVIOUS
<1>6. /\ ids \in Seq(Nat) /\ places \in Seq(Placed) /\ Len(ids) = 1 /\ Len(places) = 1
      /\ DOMAIN ids = {1} /\ ids[1] = id /\ places[1] = place
  BY <1>3, <1>5
<1>7. \A j \in DOMAIN ids : Leads(ids[j], places[j])'
  BY <1>4, <1>6 DEF Leads, BaseOf, EndOf
<1>8. errors' = Record(ids)
  BY <1>2, <1>5 DEF EntryPointMissing
<1>9. found' = found \o places
  <2>1. found' = Append(found, place) /\ found \in Seq(Placed)
    BY <1>1, <1>2 DEF EntryPointMissing, Nowhere, ErrorsRecorded
  <2> QED
    BY <1>3, <1>5, <2>1, AppendIsConcat
<1> QED
  BY <1>1, <1>6, <1>7, <1>8, <1>9, RecordLeads

LEMMA PrintKeeps ==
  ASSUME SomePrinted, PrintNext
  PROVE  SomePrinted' /\ \/ UNCHANGED printed
                         \/ /\ printed' = Append(printed, LocationOf(errors[Len(printed) + 1]))
                            /\ DOMAIN printed' \ DOMAIN printed = {Len(printed) + 1}
                            /\ printed'[Len(printed) + 1] = LocationOf(errors[Len(printed) + 1])
<1>1. PICK L : printed \in Seq(L)
  BY DEF SomePrinted
<1>2. PICK N \in Nat : N = Len(printed) /\ DOMAIN printed = 1 .. N
  BY <1>1
<1>3. errors' = errors /\ Len(printed) < Len(errors)
  BY DEF PrintNext
<1>4. CASE UNCHANGED printed
  BY <1>3, <1>4 DEF SomePrinted
<1>5. CASE ~UNCHANGED printed
  <2>1. PICK x : x = LocationOf(errors[Len(printed) + 1])
    OBVIOUS
  <2>2. printed' = Append(printed, x)
    BY <1>5, <2>1 DEF PrintNext
  <2>3. PICK M : M = L \cup {x}
    OBVIOUS
  <2>4. printed \in Seq(M) /\ x \in M
    BY <1>1, <2>3, SeqMonotonic
  <2>5. printed' \in Seq(M) /\ Len(printed') = N + 1 /\ printed'[N + 1] = x /\ DOMAIN printed' = 1 .. N + 1
    BY <1>2, <2>2, <2>4
  <2>6. SomePrinted'
    <3>1. Len(errors) \in Nat => N + 1 <= Len(errors)
      BY <1>2, <1>3
    <3> QED
      BY <1>2, <1>3, <2>5, <3>1 DEF SomePrinted
  <2> QED
    BY <1>2, <2>1, <2>2, <2>5, <2>6
<1> QED
  BY <1>4, <1>5

LEMMA InitErrors ==
  ASSUME Init
  PROVE  ErrorsInv
<1>1. entries = <<>> /\ errors = <<>> /\ found = <<>> /\ printed = <<>>
  BY DEF Init
<1>2. PathsOwn
  BY <1>1 DEF PathsOwn
<1>3. ErrorsRecorded
  BY <1>1, SourcesAssumption DEF ErrorsRecorded, Limit
<1>4. SomePrinted
  <2>1. printed \in Seq(Nat) /\ Len(printed) = 0 /\ Len(errors) = 0
    BY <1>1
  <2> QED
    BY <2>1 DEF SomePrinted
<1> QED
  BY <1>2, <1>3, <1>4, InitIds DEF ErrorsInv

LEMMA MorePrinted ==
  ASSUME SomePrinted, UNCHANGED printed, Len(errors) \in Nat, Len(errors') \in Nat,
         Len(errors) <= Len(errors')
  PROVE  SomePrinted'
<1>1. PICK L : printed \in Seq(L)
  BY DEF SomePrinted
<1>2. Len(printed) \in Nat /\ Len(printed) <= Len(errors)
  BY <1>1 DEF SomePrinted
<1>3. printed' \in Seq(L) /\ Len(printed') <= Len(errors')
  BY <1>1, <1>2
<1> QED
  BY <1>3 DEF SomePrinted

LEMMA NextErrors ==
  ASSUME ErrorsInv, [Next]_vars, Unwrapped'
  PROVE  ErrorsInv'
<1>1. IdsInv /\ PathsOwn /\ ErrorsRecorded /\ SomePrinted
  BY DEF ErrorsInv
<1>2. IdsInv'
  BY <1>1, NextIds
<1>3. ReaderInv'
  BY <1>2 DEF IdsInv
<1>4. EntriesStay /\ PathsOwn'
  BY <1>1, <1>3, NextStays
<1>5. ASSUME ErrorsRecorded', Len(errors) <= Len(errors'), UNCHANGED printed
      PROVE  ErrorsInv'
  <2>1. Len(errors) \in Nat
    BY <1>1 DEF ErrorsRecorded
  <2>2. Len(errors') \in Nat
    BY <1>5 DEF ErrorsRecorded
  <2>3. SomePrinted'
    BY <1>1, <1>5, <2>1, <2>2, MorePrinted
  <2> QED
    BY <1>2, <1>4, <1>5, <2>3 DEF ErrorsInv
<1>6. ASSUME UNCHANGED <<errors, found, printed>>
      PROVE  ErrorsInv'
  BY <1>1, <1>4, <1>5, <1>6, SameErrors
<1>7. ASSUME NEW path, ImportPath(path)
      PROVE  ErrorsInv'
  BY <1>6, <1>7 DEF ImportPath, ImportKnownPath, ImportKnownFile, OpenFile
<1>8. CASE ImportFirst
  BY <1>7, <1>8 DEF ImportFirst
<1>9. CASE \E e \in DOMAIN entries, name \in Names : ImportFrom(e, name)
  <2>1. PICK e \in DOMAIN entries, name \in Names : ImportFrom(e, name)
    BY <1>9
  <2>2. PICK path : path = Resolve[<<entries[e].path, name>>]
    OBVIOUS
  <2> QED
    BY <1>7, <2>1, <2>2 DEF ImportFrom
<1>10. CASE reading # NotReading /\ \E offsets \in Findings(reading) : ReadFile(offsets)
  <2>1. PICK offsets \in Findings(reading) : ReadFile(offsets)
    BY <1>10
  <2>2. UNCHANGED printed
    BY <2>1 DEF ReadFile
  <2> QED
    BY <1>3, <1>4, <1>5, <2>1, <2>2, ReadErrors
<1>11. CASE \E e \in DOMAIN entries : \E offset \in 0 .. Len(entries[e].text) : EvaluationFails(e, offset)
  <2>1. PICK e \in DOMAIN entries : \E offset \in 0 .. Len(entries[e].text) : EvaluationFails(e, offset)
    BY <1>11
  <2>2. PICK offset \in 0 .. Len(entries[e].text) : EvaluationFails(e, offset)
    BY <2>1
  <2>3. UNCHANGED printed
    BY <2>2 DEF EvaluationFails
  <2> QED
    BY <1>4, <1>5, <2>2, <2>3, FailsErrors
<1>12. CASE EntryPointMissing
  <2>1. UNCHANGED printed
    BY <1>12 DEF EntryPointMissing
  <2> QED
    BY <1>4, <1>5, <1>12, <2>1, MissingErrors
<1>13. CASE EvaluationEnds
  BY <1>6, <1>13 DEF EvaluationEnds
<1>14. CASE PrintNext
  <2>1. UNCHANGED <<errors, found>>
    BY <1>14 DEF PrintNext
  <2>2. ErrorsRecorded'
    BY <1>1, <1>4, <2>1, SameErrors
  <2>3. SomePrinted'
    BY <1>1, <1>14, PrintKeeps
  <2> QED
    BY <1>2, <1>4, <2>2, <2>3 DEF ErrorsInv
<1>15. CASE \E file \in Files : \E text \in Edited[file] : Edit(file, text)
  BY <1>6, <1>15 DEF Edit
<1>16. CASE UNCHANGED vars
  BY <1>6, <1>16 DEF vars
<1> QED
  BY <1>8, <1>9, <1>10, <1>11, <1>12, <1>13, <1>14, <1>15, <1>16 DEF Next

\* The next error is shown where it was found.
LEMMA PrintShows ==
  ASSUME ErrorsInv, PrintNext, NEW i \in DOMAIN printed' \ DOMAIN printed,
         found[i].file = PreludeName \/ disk[found[i].file] = found[i].text
  PROVE  Shows(printed'[i], found[i])
<1>1. ~UNCHANGED printed
  OBVIOUS
<1>2. i = Len(printed) + 1 /\ printed'[i] = LocationOf(errors[i])
  BY <1>1, PrintKeeps DEF ErrorsInv
<1>3. errors \in Seq(Nat) /\ found \in Seq(Placed) /\ Len(errors) = Limit(Len(found))
  BY DEF ErrorsInv, ErrorsRecorded
<1>4. i \in DOMAIN errors /\ i \in DOMAIN found
  <2>1. PICK N \in Nat : N = Len(printed)
    BY DEF ErrorsInv, SomePrinted
  <2>2. PICK E \in Nat, F \in Nat : E = Len(errors) /\ F = Len(found)
    BY <1>3
  <2>3. N < E /\ E <= F /\ i = N + 1
    BY <1>2, <1>3, <2>1, <2>2, SourcesAssumption DEF PrintNext, Limit
  <2>4. i \in 1 .. E /\ i \in 1 .. F
    BY <2>1, <2>2, <2>3
  <2> QED
    BY <1>3, <2>2, <2>4
<1>5. PICK id \in Nat, place \in Placed : id = errors[i] /\ place = found[i]
  BY <1>3, <1>4
<1>6. Leads(id, place)
  BY <1>4, <1>5 DEF ErrorsInv, ErrorsRecorded
<1>7. PICK file, text, offset : file = place.file /\ text = place.text /\ offset = place.offset
  OBVIOUS
<1>8. /\ text \in Seq(STRING) /\ offset \in Nat
      /\ place = [file |-> file, text |-> text, offset |-> offset]
  BY <1>7 DEF Placed
<1>9. CASE id = NoSource /\ place = Nowhere
  <2>1. file = PreludeName /\ text = <<>> /\ offset = 0
    BY <1>7, <1>9 DEF Nowhere
  <2>2. printed'[i] = LocationIn(PreludeName, text, offset)
    BY <1>2, <1>5, <1>9, <2>1 DEF LocationOf
  <2>3. offset \in 0 .. Len(text) /\ Under(PreludeName, file)
    BY <2>1 DEF Under
  <2>4. Shows(LocationIn(PreludeName, text, offset), place)
    BY <1>8, <2>3, LocationShows
  <2> QED
    BY <1>5, <2>2, <2>4
<1>10. CASE ~(id = NoSource /\ place = Nowhere)
  <2>1. PICK e \in DOMAIN entries : /\ id = BaseOf(e) + offset /\ id < EndOf(e)
                                    /\ file = entries[e].file /\ offset <= Len(text)
    BY <1>6, <1>7, <1>10 DEF Leads
  <2>2. BaseOf(e) \in Nat /\ EndOf(e) \in Nat /\ file \in Files /\ FileOf[entries[e].path] = file
    <3>1. entries \in Seq(Entry) /\ nextBase \in Nat
      BY DEF ErrorsInv, IdsInv, ReaderInv, ReaderTypes
    <3>2. entries[e] \in Entry /\ (e # Len(entries) => e + 1 \in DOMAIN entries)
      BY <3>1
    <3>3. file \in Files
      BY <2>1, <3>2 DEF Entry
    <3> QED
      BY <2>1, <3>1, <3>2, <3>3 DEF ErrorsInv, PathsOwn, IdsInv, IdsKept, Ascending, EndOf
  <2>3. id \in BaseOf(e) .. EndOf(e) - 1 /\ id - BaseOf(e) = offset
    BY <1>8, <2>1, <2>2
  <2>4. id # NoSource /\ EntryOf(id) = e
    BY <2>3, IdAttributed DEF ErrorsInv
  <2>5. disk[file] = text /\ Under(entries[e].path, file)
    BY <1>5, <1>7, <2>2, PreludeAssumption DEF Under
  <2>6. printed'[i] = LocationIn(entries[e].path, text, offset)
    BY <1>2, <1>5, <2>1, <2>3, <2>4, <2>5 DEF LocationOf
  <2>7. offset \in 0 .. Len(text)
    BY <1>8, <2>1
  <2>8. PICK path : path = entries[e].path
    OBVIOUS
  <2>9. Shows(LocationIn(path, text, offset), place)
    BY <1>8, <2>5, <2>7, <2>8, LocationShows
  <2> QED
    BY <1>5, <2>6, <2>8, <2>9
<1> QED
  BY <1>9, <1>10

\* No other step shows anything.
LEMMA NextShows ==
  ASSUME ErrorsInv, [Next]_vars
  PROVE  [\A i \in DOMAIN printed' \ DOMAIN printed :
            (found[i].file = PreludeName \/ disk[found[i].file] = found[i].text) => Shows(printed'[i], found[i])]_vars
<1>1. CASE PrintNext
  BY <1>1, PrintShows
<1>2. CASE ~PrintNext
  <2>1. UNCHANGED printed
    BY <1>2 DEF Next, vars, ImportFirst, ImportFrom, ImportPath, ImportKnownPath, ImportKnownFile,
                OpenFile, ReadFile, EvaluationFails, EntryPointMissing, EvaluationEnds, Edit
  <2> QED
    BY <2>1
<1> QED
  BY <1>1, <1>2

\* As long as the counter of source ids has not come round to zero, an error
\* is shown under a path of its file, at its line and column, if the file is
\* the same by then (record_error, print_errors and build_source_location).
THEOREM SpecShownWhereFound == Spec /\ []Unwrapped => ShownWhereFound
<1>1. Init => ErrorsInv
  BY InitErrors
<1>2. ErrorsInv /\ [Next]_vars /\ Unwrapped' => ErrorsInv'
  BY NextErrors
<1>3. ErrorsInv /\ [Next]_vars
        => [\A i \in DOMAIN printed' \ DOMAIN printed :
              (found[i].file = PreludeName \/ disk[found[i].file] = found[i].text)
                => Shows(printed'[i], found[i])]_vars
  BY NextShows
<1> QED
  BY <1>1, <1>2, <1>3, PTL DEF Spec, ShownWhereFound

-----------------------------------------------------------------------------
(* Room for every source id. *)

\* The files are so few and, whatever they are changed to, so short that there
\* are source ids for all their characters and ends.
Roomy ==
  /\ IsFiniteSet(Files)
  /\ \E longest \in Nat :
       /\ \A f \in Files : Len(TextOf[f]) <= longest /\ \A text \in Edited[f] : Len(text) <= longest
       /\ Cardinality(Files) * (longest + 1) < MaxSource

\* So much of the counter each file has used at most.
Used(most) ==
  /\ ReaderInv
  /\ \A f \in Files : Len(disk[f]) + 1 <= most
  /\ nextBase # NoSource /\ nextBase <= 1 + Len(entries) * most

\* Each entry has a file of its own.
LEMMA FewEntries ==
  ASSUME NEW s \in Seq(Entry), IsFiniteSet(Files),
         \A d, e \in DOMAIN s : s[d].file = s[e].file => d = e
  PROVE  Len(s) \in Nat /\ Cardinality(Files) \in Nat /\ Len(s) <= Cardinality(Files)
<1>1. PICK N \in Nat : N = Len(s) /\ DOMAIN s = 1 .. N
  OBVIOUS
<1> DEFINE f == [e \in 1 .. N |-> s[e].file]
<1>2. ASSUME NEW e \in 1 .. N PROVE s[e].file \in Files
  <2>1. s[e] \in Entry
    BY <1>1
  <2> QED
    BY <2>1 DEF Entry
<1>3. f \in Injection(1 .. N, Files)
  BY <1>1, <1>2 DEF Injection, IsInjective
<1> HIDE DEF f
<1>4. Cardinality(1 .. N) <= Cardinality(Files)
  BY <1>3, FS_Injection
<1>5. Cardinality(1 .. N) = N
  <2>1. 1 \in Int /\ N \in Int
    BY <1>1
  <2>2. Cardinality(1 .. N) = IF 1 > N THEN 0 ELSE N - 1 + 1
    BY <2>1, FS_Interval
  <2> QED
    BY <1>1, <2>2
<1> QED
  BY <1>1, <1>4, <1>5, FS_CardinalityType

LEMMA OpenUses ==
  ASSUME NEW most \in Nat, Used(most), ReaderInv', IsFiniteSet(Files),
         Cardinality(Files) * most < MaxSource, NEW path \in Paths, OpenFile(path)
  PROVE  Used(most)'
<1>1. CASE Len(disk[FileOf[path]]) + nextBase > MaxSource
  BY <1>1 DEF OpenFile, Used
<1>2. CASE ~(Len(disk[FileOf[path]]) + nextBase > MaxSource)
  <2>1. FileOf[path] \in Files /\ disk[FileOf[path]] \in Seq(STRING)
    BY SourcesAssumption DEF Used, ReaderInv, ReaderTypes, Paths
  <2>2. PICK s \in Nat, b \in Nat, N \in Nat :
          s = Len(disk[FileOf[path]]) /\ b = nextBase /\ N = Len(entries)
    <3>1. Len(disk[FileOf[path]]) \in Nat /\ nextBase \in Nat /\ Len(entries) \in Nat
      BY <2>1 DEF Used, ReaderInv, ReaderTypes
    <3> QED
      BY <3>1
  <2>3. /\ Len(entries') = N + 1
        /\ nextBase' = (b + s + 1) % (MaxSource + 1)
        /\ disk' = disk
    BY <1>2, <2>2 DEF OpenFile, Used, ReaderInv, ReaderTypes
  <2>4. s + 1 <= most /\ b # 0 /\ b <= 1 + N * most
    BY <2>1, <2>2 DEF Used, NoSource
  <2>5. PICK C \in Nat : C = Cardinality(Files) /\ N + 1 <= C
    <3>1. PICK t \in Seq(Entry) : t = entries'
      BY DEF ReaderInv, ReaderTypes
    <3>2. \A d, e \in DOMAIN t : t[d].file = t[e].file => d = e
      BY <3>1 DEF ReaderInv, OneEntry
    <3>3. Len(t) <= Cardinality(Files) /\ Cardinality(Files) \in Nat
      BY <3>2, FewEntries
    <3> QED
      BY <2>2, <2>3, <3>1, <3>3
  <2>6. N * most + most <= C * most /\ N * most \in Nat /\ C * most \in Nat
    <3>1. N < C
      BY <2>2, <2>5
    <3> QED
      BY <2>2, <2>5, <3>1, ProductStep
  <2>7. (N + 1) * most = N * most + most
    BY <2>2
  <2>8. b + s + 1 <= 1 + N * most + most /\ b + s + 1 < MaxSource + 1 /\ MaxSource \in Nat
    <3> DEFINE n == N * most
               c == C * most
    <3>1. n \in Nat /\ c \in Nat /\ n + most <= c /\ c < MaxSource /\ b <= 1 + n /\ MaxSource \in Nat
      BY <2>4, <2>5, <2>6, SourcesAssumption
    <3> HIDE DEF n, c
    <3>2. b + s + 1 <= 1 + n + most /\ b + s + 1 < MaxSource + 1
      BY <2>2, <2>4, <3>1
    <3> QED
      BY <3>1, <3>2 DEF n
  <2>9. nextBase' = b + s + 1
    <3> DEFINE x == b + s + 1
               c == MaxSource + 1
    <3>1. c \in Nat \ {0} /\ x \in 0 .. (2 * c) - 1 /\ x < c
      BY <2>2, <2>8
    <3> HIDE DEF x, c
    <3>2. x % c = x
      BY <3>1, RingBelow
    <3> QED
      BY <2>3, <3>2 DEF x, c
  <2>10. nextBase' # NoSource /\ nextBase' <= 1 + Len(entries') * most
    <3>1. b + s + 1 # 0 /\ 1 + N * most + most = 1 + (N + 1) * most
      BY <2>2, <2>6, <2>7
    <3>2. 1 + Len(entries') * most = 1 + (N + 1) * most
      BY <2>3
    <3>3. nextBase' <= 1 + (N + 1) * most
      BY <2>8, <2>9, <3>1
    <3> QED
      BY <2>9, <3>1, <3>2, <3>3 DEF NoSource
  <2> QED
    BY <2>3, <2>10 DEF Used
<1> QED
  BY <1>1, <1>2

\* The other steps enter no file.
LEMMA NextUses ==
  ASSUME NEW most \in Nat, Used(most), [Next]_vars, IsFiniteSet(Files),
         Cardinality(Files) * most < MaxSource,
         \A f \in Files : \A text \in Edited[f] : Len(text) + 1 <= most
  PROVE  Used(most)'
<1>1. ReaderInv'
  BY NextReader DEF Used
<1>2. ASSUME UNCHANGED <<disk, nextBase>>, Len(entries') = Len(entries)
      PROVE  Used(most)'
  BY <1>1, <1>2 DEF Used
<1>3. ASSUME NEW path \in Paths, ImportPath(path)
      PROVE  Used(most)'
  BY <1>1, <1>2, <1>3, OpenUses DEF ImportPath, ImportKnownPath, ImportKnownFile
<1>4. CASE ImportFirst
  BY <1>3, <1>4, SourcesAssumption DEF ImportFirst
<1>5. CASE \E e \in DOMAIN entries, name \in Names : ImportFrom(e, name)
  <2>1. PICK e \in DOMAIN entries, name \in Names : ImportFrom(e, name)
    BY <1>5
  <2>2. Resolve[<<entries[e].path, name>>] \in Paths
    BY <2>1, SourcesAssumption DEF ImportFrom
  <2> QED
    BY <1>3, <2>1, <2>2 DEF ImportFrom
<1>6. CASE reading # NotReading /\ \E offsets \in Findings(reading) : ReadFile(offsets)
  <2>1. PICK offsets : ReadFile(offsets)
    BY <1>6
  <2>2. Len(entries') = Len(entries)
    <3>1. DOMAIN entries' = DOMAIN entries
      BY <2>1 DEF ReadFile, Used, ReaderInv, ReaderTypes
    <3> QED
      BY <1>1, <3>1 DEF Used, ReaderInv, ReaderTypes
  <2>3. UNCHANGED <<disk, nextBase>>
    BY <2>1 DEF ReadFile
  <2> QED
    BY <1>2, <2>2, <2>3
<1>7. CASE \E e \in DOMAIN entries : \E offset \in 0 .. Len(entries[e].text) : EvaluationFails(e, offset)
  BY <1>2, <1>7 DEF EvaluationFails
<1>8. CASE EntryPointMissing
  BY <1>2, <1>8 DEF EntryPointMissing
<1>9. CASE EvaluationEnds
  BY <1>2, <1>9 DEF EvaluationEnds
<1>10. CASE PrintNext
  BY <1>2, <1>10 DEF PrintNext
<1>11. CASE \E file \in Files : \E text \in Edited[file] : Edit(file, text)
  <2>1. PICK file \in Files : \E text \in Edited[file] : Edit(file, text)
    BY <1>11
  <2>2. PICK text \in Edited[file] : Edit(file, text)
    BY <2>1
  <2>3. UNCHANGED <<entries, nextBase>> /\ \A f \in Files : disk'[f] = IF f = file THEN text ELSE disk[f]
    BY <2>2 DEF Edit, Used, ReaderInv, ReaderTypes
  <2> QED
    BY <1>1, <2>2, <2>3 DEF Used
<1>12. CASE UNCHANGED vars
  BY <1>2, <1>12 DEF vars
<1> QED
  BY <1>4, <1>5, <1>6, <1>7, <1>8, <1>9, <1>10, <1>11, <1>12 DEF Next

\* Where there are source ids for all that is read, the counter does not come
\* round: each id leads back to its file and each error is shown where it is.
THEOREM SpecRoomy ==
  ASSUME Roomy
  PROVE  Spec => []Attributed /\ ShownWhereFound
<1>1. PICK longest \in Nat :
        /\ \A f \in Files : Len(TextOf[f]) <= longest /\ \A text \in Edited[f] : Len(text) <= longest
        /\ Cardinality(Files) * (longest + 1) < MaxSource
  BY DEF Roomy
<1>2. PICK most \in Nat : most = longest + 1
  OBVIOUS
<1>3. /\ IsFiniteSet(Files) /\ Cardinality(Files) * most < MaxSource
      /\ \A f \in Files : TextOf[f] \in Seq(STRING) /\ Len(TextOf[f]) + 1 <= most
      /\ \A f \in Files : \A text \in Edited[f] : Len(text) + 1 <= most
  <2>1. ASSUME NEW text \in Seq(STRING), Len(text) <= longest
        PROVE  Len(text) + 1 <= most
    BY <1>2, <2>1
  <2>2. \A f \in Files : TextOf[f] \in Seq(STRING) /\ Edited[f] \subseteq Seq(STRING)
    BY SourcesAssumption
  <2> QED
    BY <1>1, <1>2, <2>1, <2>2 DEF Roomy
<1>4. Init => Used(most)
  <2>1. SUFFICES ASSUME Init PROVE Used(most)
    OBVIOUS
  <2>2. ReaderInv
    BY <2>1, InitReader
  <2>3. disk = TextOf /\ nextBase = 1 /\ entries = <<>>
    BY <2>1 DEF Init
  <2>4. 1 <= 1 + Len(entries) * most
    BY <2>3
  <2> QED
    BY <1>3, <2>2, <2>3, <2>4 DEF Used, NoSource
<1>5. Used(most) /\ [Next]_vars => Used(most)'
  BY <1>3, NextUses
<1>6. Used(most) => Unwrapped
  BY DEF Used, Unwrapped
<1> QED
  BY <1>4, <1>5, <1>6, SpecAttributed, SpecShownWhereFound, PTL DEF Spec
=============================================================================
