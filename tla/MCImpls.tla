-------------------------------- MODULE MCImpls --------------------------------
(***************************************************************************)
(* Files of a few definitions around traits and impls, in the order written *)
(* and in the opposite one.                                                 *)
(***************************************************************************)
EXTENDS Impls

CONSTANTS Tr, Im, Other, Make, Result, G, p, q, a, pt, pv, x, y

num == Type("num")
NumT == Lit(num)
TypeT == Lit(Type("type"))
FuncT == Lit(Type("func"))

Let(n, value) == Define(n, FALSE, Absent, value)
Typed(n, type, value) == Define(n, FALSE, type, value)
Required(n, type) == Typed(n, type, Absent)

TraitOf(params, members) == Let(Tr, Trait("tr", params, members))
ImplOf(n, base, args, members) == Let(n, Impl(n, base, Name(Tr), args, members))

Of(args, n) == Get(Call(Name(Tr), args), n)
OwnMember(n) == Of(<<SelfRef>>, n)

\* Which members a trait has, in either order, and of which an impl gives one.
MembersX == {Required(x, NumT), Typed(x, NumT, Lit(Num(1))), Typed(x, TypeT, NumT)}
MembersY == {Required(y, NumT), Typed(y, NumT, Lit(Num(2))), Required(y, TypeT), Typed(y, TypeT, TypeT)}
GivenX == {<<Let(x, e)>> : e \in {Lit(Num(3)), TypeT, SelfRef}}
GivenY == {<<Let(y, e)>> : e \in {Name(G), OwnMember(x), SelfRef}}

Matched ==
  {<<TraitOf(<<p>>, trait), ImplOf(Im, NumT, <<SelfRef>>, given), Let(G, Lit(Num(4))),
     Let(Result, Of(<<Name(Im)>>, y))>>
   : trait \in UNION {{<<mx, my>>, <<my, mx>>} : mx \in MembersX, my \in MembersY},
     given \in {<<>>} \cup GivenX \cup GivenY}

\* An impl gives two members.
MCGivenBoth ==
  {<<TraitOf(<<p>>, <<Required(x, NumT), Typed(y, NumT, Lit(Num(2)))>>), ImplOf(Im, NumT, <<SelfRef>>, given)>>
   : given \in {<<Let(x, Lit(Num(3)))>>, <<Let(x, Lit(Num(3))), Let(y, Lit(Num(4)))>>,
                <<Let(y, Lit(Num(4))), Let(x, Lit(Num(3)))>>}}

\* Mutability, types that an impl states too, and members that no trait has.
Stated ==
  {<<TraitOf(<<p>>, <<Define(x, mut, NumT, Absent)>>),
     ImplOf(Im, NumT, <<SelfRef>>, <<Define(n, TRUE, type, Lit(Num(1)))>>),
     Let(Result, Of(<<Name(Im)>>, x))>>
   : mut \in BOOLEAN, type \in {Absent, NumT, TypeT, Lit(Num(2)), Name(Tr)}, n \in {x, y}}

\* Traits of two types, with an impl for either place and two to choose from.
Parameters ==
  {<<TraitOf(<<p, q>>, <<Required(x, type), Typed(y, TypeT, Name(q))>>),
     ImplOf(Im, NumT, args, <<Let(x, value)>>),
     ImplOf(Other, Name(Im), <<SelfRef, TypeT>>, <<Let(x, TypeT)>>),
     Let(Result, Of(asked, n))>>
   : type \in {NumT, Name(q), Name(p)}, args \in {<<SelfRef, NumT>>, <<NumT, SelfRef>>},
     value \in {Lit(Num(1)), TypeT},
     asked \in {<<Name(Im), NumT>>, <<NumT, Name(Im)>>, <<Name(Other), TypeT>>,
                <<Name(Other), Name(Im)>>},
     n \in {x, y}}

\* Impls that a function makes, whose members capture its parameters.
Makes(value) ==
  Let(Make, Func(<<pt, pv>>, Impl("made", Name(pt), Name(Tr), <<SelfRef>>, <<Let(y, value)>>)))
Made(n) == Call(Name(Make), <<NumT, Lit(Num(n))>>)
Inner(base) == Impl("inner", base, Name(Tr), <<SelfRef>>, <<Let(y, Name(pt))>>)
Plainly == {<<TypeT, SelfRef>>, <<TypeT, Name(pt)>>, <<NumT, Name(pv)>>, <<NumT, OwnMember(x)>>,
            <<NumT, Name(pt)>>, <<TypeT, Inner(SelfRef)>>, <<TypeT, Call(Name(Tr), <<Inner(Name(pt))>>)>>}
Callably == {<<FuncT, Func(<<a>>, body)>> :
               body \in {Name(pv), Name(a), OwnMember(x), SelfRef,
                         Call(Func(<<q>>, Name(pv)), <<Name(a)>>), Func(<<>>, OwnMember(x))}}
TraitWithDefault(type) == TraitOf(<<p>>, <<Required(y, type), Typed(x, NumT, Lit(Num(5)))>>)
Produced ==
  {<<TraitWithDefault(member[1]), Makes(member[2]), Let(Im, Made(1)), Let(Other, Made(n)), result>>
   : member \in Plainly, n \in {1, 2},
     result \in {Let(Result, Of(<<Name(Other)>>, y)), Typed(Result, NumT, Of(<<Name(Other)>>, x))}}
  \cup
  {<<TraitWithDefault(member[1]), Makes(member[2]), Let(Im, Made(1)), Typed(Other, TypeT, Made(n)), result>>
   : member \in Callably, n \in {1, 2},
     result \in {Let(Result, Call(Of(<<Name(Im)>>, y), <<Of(<<Name(Other)>>, x)>>)),
                 Typed(Result, TypeT, Call(Of(<<Made(2)>>, y), <<Lit(Num(2))>>)),
                 Let(Result, Call(Call(Of(<<Name(Other)>>, y), <<Name(Im)>>), <<>>))}}

\* Impls that use each other, and themselves through a definition.
Chained ==
  {<<TraitOf(<<p>>, <<Required(x, NumT)>>),
     ImplOf(Im, NumT, <<SelfRef>>, <<Let(x, one)>>), ImplOf(Other, base, <<SelfRef>>, <<Let(x, two)>>),
     Let(G, Of(<<Name(Im)>>, x)), Let(Result, Of(<<Name(Other)>>, x))>>
   : one \in {Lit(Num(1)), Name(Result), Name(G)}, two \in {Lit(Num(2)), Name(G)},
     base \in {Name(Im), NumT, Lit(Num(1))}}

\* Wrong callees, defaults that are functions, and functions kept with their self.
Remaining ==
  {<<TraitOf(<<p>>, <<Typed(x, FuncT, Func(<<a>>, Name(a)))>>),
     Let(Im, Impl(Im, NumT, trait, args, <<>>)),
     Typed(Result, NumT, Call(Of(<<Name(Im)>>, x), <<Lit(Num(7))>>))>>
   : trait \in {Name(Tr), NumT}, args \in {<<SelfRef>>, <<NumT>>, <<SelfRef, NumT>>, <<Lit(Num(1))>>}}

Written == Matched \cup Stated \cup Parameters \cup Produced \cup Chained \cup Remaining
MCPrograms == Written \cup {Reverse(f) : f \in Written}
=============================================================================
