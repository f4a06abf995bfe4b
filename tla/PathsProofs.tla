----------------------------- MODULE PathsProofs -----------------------------
(***************************************************************************)
(* What ResolvePath lets through, for any names, links and limit on links.  *)
(* Join and EvalSymlinks recurse over what they are given; the library's    *)
(* induction theorems take a predicate, which the provers cannot be given,  *)
(* so induction is first restated for a set, from the well-foundedness of   *)
(* inclusion among finite sets.                                             *)
(***************************************************************************)
EXTENDS Paths, FiniteSetTheorems, TLAPS

\* A set of numbers that is not empty has a least one.
LEMMA Least ==
    ASSUME NEW B, B \subseteq Nat, B # {}
    PROVE  \E m \in B : \A k \in B : m <= k
<1> DEFINE T == {0..n : n \in B}
<1>1. T \subseteq FiniteSubsetsOf(Nat) /\ T # {}
  <2>1. ASSUME NEW n \in B PROVE 0..n \in FiniteSubsetsOf(Nat)
    BY FS_Interval DEF FiniteSubsetsOf
  <2> QED
    BY <2>1
<1>2. PICK x \in T : \A y \in T : <<y, x>> \notin StrictSubsetOrdering(Nat)
  <2> HIDE DEF T
  <2> QED
    BY <1>1, FS_StrictSubsetOrderingWellFounded, WFMin
<1>3. PICK m \in B : x = 0..m
  OBVIOUS
<1>4. ASSUME NEW k \in B, k < m PROVE FALSE
  <2>1. 0..k \subseteq 0..m /\ 0..k # 0..m
    <3>1. m \in 0..m /\ m \notin 0..k
      BY <1>4
    <3> QED
      BY <3>1, <1>4
  <2>2. <<0..k, 0..m>> \in StrictSubsetOrdering(Nat)
    BY <2>1 DEF StrictSubsetOrdering
  <2> QED
    BY <2>2, <1>2, <1>3
<1> QED
  BY <1>4

\* Induction up to m: what holds is the set B.
LEMMA Induction ==
    ASSUME NEW m \in Nat, NEW B, 0 \in B, \A n \in 1..m : n - 1 \in B => n \in B
    PROVE  0..m \subseteq B
<1> SUFFICES ASSUME 0..m \ B # {} PROVE FALSE
  OBVIOUS
<1>1. PICK k \in 0..m \ B : \A n \in 0..m \ B : k <= n
  <2> DEFINE C == 0..m \ B
  <2>1. C \subseteq Nat /\ C # {}
    OBVIOUS
  <2> HIDE DEF C
  <2>2. \E k \in C : \A n \in C : k <= n
    BY <2>1, Least
  <2> QED
    BY <2>2 DEF C
<1>2. k # 0 /\ k \in 1..m /\ k - 1 \in 0..m
  OBVIOUS
<1> QED
  BY <1>1, <1>2

\* g starts with x and goes on with each of the functions of f.
Follows(g, T, x, m, f) ==
    g \in [0..m -> T] /\ g[0] = x /\ \A n \in 1..m : g[n] = f[n][g[n - 1]]

\* A function on 0..m may be defined by recursion.
LEMMA Recursion ==
    ASSUME NEW T, NEW x \in T, NEW m \in Nat, NEW f \in [1..m -> [T -> T]]
    PROVE  \E g : Follows(g, T, x, m, f)
<1> DEFINE Good(k, g) == g[0] = x /\ \A n \in 1..k : g[n] = f[n][g[n - 1]]
           B == {k \in 0..m : \E g \in [0..k -> T] : Good(k, g)}
<1>1. 0 \in B
  <2> DEFINE h == [i \in 0..0 |-> x]
  <2>1. h \in [0..0 -> T] /\ Good(0, h)
    OBVIOUS
  <2> HIDE DEF h, Good
  <2> QED
    BY <2>1
<1>2. ASSUME NEW k \in 1..m, k - 1 \in B PROVE k \in B
  <2>1. PICK g \in [0..k - 1 -> T] : Good(k - 1, g)
    BY <1>2
  <2> DEFINE h == [i \in 0..k |-> IF i = k THEN f[k][g[k - 1]] ELSE g[i]]
  <2>2. f[k][g[k - 1]] \in T
    OBVIOUS
  <2>3. h \in [0..k -> T]
    BY <2>2
  <2>4. h[0] = x
    BY <2>1
  <2>5. ASSUME NEW n \in 1..k PROVE h[n] = f[n][h[n - 1]]
    <3>1. CASE n = k
      <4>1. h[n] = f[n][g[n - 1]] /\ h[n - 1] = g[n - 1]
        BY <3>1
      <4> QED
        BY <4>1
    <3>2. CASE n # k
      <4>1. h[n] = g[n] /\ h[n - 1] = g[n - 1]
        BY <3>2
      <4>2. g[n] = f[n][g[n - 1]]
        BY <3>2, <2>1
      <4> QED
        BY <4>1, <4>2
    <3> QED
      BY <3>1, <3>2
  <2>6. Good(k, h)
    <3> HIDE DEF h
    <3> QED
      BY <2>4, <2>5
  <2> HIDE DEF h, Good
  <2> QED
    BY <2>3, <2>6
<1>3. m \in B
  <2> HIDE DEF B
  <2>1. 0..m \subseteq B
    BY <1>1, <1>2, Induction
  <2> QED
    BY <2>1
<1> QED
  BY <1>3 DEF Follows
-----------------------------------------------------------------------------
LEMMA StepType ==
    ASSUME NEW path \in Seq(Names), NEW name \in Names \cup {Up}
    PROVE  Step(path, name) \in Seq(Names)
<1>1. CASE name # Up
  BY <1>1 DEF Step
<1>2. CASE name = Up /\ path = <<>>
  BY <1>2 DEF Step
<1>3. CASE name = Up /\ path # <<>>
  BY <1>3 DEF Step, Front
<1> QED
  BY <1>1, <1>2, <1>3

\* However many ".." there are, what is joined is a clean path from the root.
LEMMA JoinType ==
    ASSUME NEW path \in Seq(Names), NEW names \in Seq(Names \cup {Up})
    PROVE  Join(path, names) \in Seq(Names)
<1> DEFINE m == Len(names)
           f == [n \in 1..m |-> [p \in Seq(Names) |-> Step(p, names[n])]]
           Def(at) == at = [n \in 0..m |-> IF n = 0 THEN path ELSE Step(at[n - 1], names[n])]
           at == CHOOSE g : Def(g)
           B == {n \in 0..m : at[n] \in Seq(Names)}
<1>1. m \in Nat /\ \A n \in 1..m : names[n] \in Names \cup {Up}
  OBVIOUS
<1>2. f \in [1..m -> [Seq(Names) -> Seq(Names)]]
  BY <1>1, StepType
<1>3. PICK g : Follows(g, Seq(Names), path, m, f)
  <2> HIDE DEF f, m
  <2> QED
    BY <1>1, <1>2, Recursion
<1>4. ASSUME NEW n \in 1..m PROVE f[n][g[n - 1]] = Step(g[n - 1], names[n])
  <2> HIDE DEF m
  <2>1. n - 1 \in 0..m
    BY <1>1
  <2>2. g[n - 1] \in Seq(Names)
    BY <1>3, <2>1 DEF Follows
  <2> QED
    BY <2>2
<1>5. Def(g)
  <2> HIDE DEF m, f
  <2>1. ASSUME NEW n \in 0..m PROVE g[n] = IF n = 0 THEN path ELSE Step(g[n - 1], names[n])
    BY <1>1, <1>3, <1>4 DEF Follows
  <2> QED
    BY <1>3, <2>1 DEF Follows
<1>6. Def(at)
  <2> HIDE DEF Def
  <2> QED
    BY <1>5
<1>7. \A n \in 0..m : at[n] = IF n = 0 THEN path ELSE Step(at[n - 1], names[n])
  <2> HIDE DEF at, m
  <2> QED
    BY <1>6
<1>8. 0 \in B
  <2> HIDE DEF at, m
  <2> QED
    BY <1>1, <1>7
<1>9. ASSUME NEW n \in 1..m, n - 1 \in B PROVE n \in B
  <2> HIDE DEF at, m
  <2>1. at[n] = Step(at[n - 1], names[n])
    BY <1>1, <1>7
  <2> QED
    BY <1>1, <1>9, <2>1, StepType
<1>10. 0..m \subseteq B
  <2> HIDE DEF B, m
  <2> QED
    BY <1>1, <1>8, <1>9, Induction
<1>11. Join(path, names) = at[m]
  BY DEF Join
<1> QED
  BY <1>1, <1>10, <1>11
-----------------------------------------------------------------------------
\* Following one link of a path leads to a path; one without links stays what it is.
LEMMA FollowType ==
    ASSUME fs \in FileSystems, NEW path \in Seq(Names)
    PROVE  Follow(path) \in Seq(Names) /\ (Turns(path) = {} => Follow(path) = path)
<1>1. CASE Turns(path) = {}
  BY <1>1 DEF Follow
<1>2. CASE Turns(path) # {}
  <2> DEFINE i == Min(Turns(path))
             target == Is(SubSeq(path, 1, i))
  <2>1. Turns(path) \subseteq 1..Len(path) /\ Turns(path) \subseteq Nat
    BY DEF Turns
  <2>2. \E m \in Turns(path) : \A k \in Turns(path) : m <= k
    BY <1>2, <2>1, Least
  <2>3. i \in Turns(path)
    BY <2>2 DEF Min
  <2>4. i \in 1..Len(path) /\ target # Plain
    BY <2>1, <2>3 DEF Turns
  <2>5. target \in Seq(Names) \cup {Missing}
    BY <2>4, PathsAssumption DEF Is
  <2>6. SubSeq(path, i + 1, Len(path)) \in Seq(Names)
    <3> HIDE DEF i
    <3> QED
      BY <2>4
  <2>7. CASE target = Missing
    BY <2>7 DEF Follow
  <2>8. CASE target # Missing
    <3>1. Follow(path) = target \o SubSeq(path, i + 1, Len(path))
      BY <1>2, <2>8 DEF Follow
    <3> HIDE DEF i, target
    <3> QED
      BY <1>2, <2>5, <2>6, <2>8, <3>1
  <2> QED
    BY <1>2, <2>7, <2>8
<1> QED
  BY <1>1, <1>2

\* The walk of EvalSymlinks, one link after the other.
LEMMA Hops ==
    ASSUME fs \in FileSystems, NEW path \in Seq(Names)
    PROVE  \E hop \in [0..MaxLinks -> Seq(Names)] :
              /\ hop[0] = path
              /\ \A n \in 1..MaxLinks : hop[n] = Follow(hop[n - 1])
              /\ EvalSymlinks(path) =
                    IF Turns(hop[MaxLinks]) = {} THEN hop[MaxLinks] ELSE Fails
<1> DEFINE f == [n \in 1..MaxLinks |-> [p \in Seq(Names) |-> Follow(p)]]
           Def(hop) == hop = [n \in 0..MaxLinks |-> IF n = 0 THEN path ELSE Follow(hop[n - 1])]
           hop == CHOOSE g : Def(g)
           B == {n \in 0..MaxLinks : hop[n] \in Seq(Names)}
<1>1. MaxLinks \in Nat
  BY PathsAssumption
<1>2. f \in [1..MaxLinks -> [Seq(Names) -> Seq(Names)]]
  BY FollowType
<1>3. PICK g : Follows(g, Seq(Names), path, MaxLinks, f)
  <2> HIDE DEF f
  <2> QED
    BY <1>1, <1>2, Recursion
<1>4. ASSUME NEW n \in 1..MaxLinks PROVE f[n][g[n - 1]] = Follow(g[n - 1])
  <2>1. n - 1 \in 0..MaxLinks
    BY <1>1
  <2>2. g[n - 1] \in Seq(Names)
    BY <1>3, <2>1 DEF Follows
  <2> QED
    BY <2>2
<1>5. Def(g)
  <2> HIDE DEF f
  <2>1. ASSUME NEW n \in 0..MaxLinks PROVE g[n] = IF n = 0 THEN path ELSE Follow(g[n - 1])
    BY <1>1, <1>3, <1>4 DEF Follows
  <2> QED
    BY <1>3, <2>1 DEF Follows
<1>6. Def(hop)
  <2> HIDE DEF Def
  <2> QED
    BY <1>5
<1> HIDE DEF hop, f
<1>7. \A n \in 0..MaxLinks : hop[n] = IF n = 0 THEN path ELSE Follow(hop[n - 1])
  BY <1>6
<1>8. 0 \in B
  BY <1>1, <1>7
<1>9. ASSUME NEW n \in 1..MaxLinks, n - 1 \in B PROVE n \in B
  <2>1. hop[n] = Follow(hop[n - 1])
    BY <1>1, <1>7
  <2> QED
    BY <1>1, <1>9, <2>1, FollowType
<1>10. 0..MaxLinks \subseteq B
  <2> HIDE DEF B
  <2> QED
    BY <1>1, <1>8, <1>9, Induction
<1>11. hop \in [0..MaxLinks -> Seq(Names)]
  BY <1>6, <1>10
<1>12. EvalSymlinks(path) = IF Turns(hop[MaxLinks]) = {} THEN hop[MaxLinks] ELSE Fails
  BY DEF EvalSymlinks, hop
<1>13. hop[0] = path /\ \A n \in 1..MaxLinks : hop[n] = Follow(hop[n - 1])
  BY <1>1, <1>7
<1> QED
  BY <1>11, <1>12, <1>13

\* What EvalSymlinks answers is a path, none of whose parts is a link or missing
\* (paths.go 28-48).
LEMMA Resolved ==
    ASSUME fs \in FileSystems, NEW path \in Seq(Names), EvalSymlinks(path) # Fails
    PROVE  EvalSymlinks(path) \in Seq(Names) /\ Turns(EvalSymlinks(path)) = {}
<1>1. PICK hop \in [0..MaxLinks -> Seq(Names)] :
         EvalSymlinks(path) = IF Turns(hop[MaxLinks]) = {} THEN hop[MaxLinks] ELSE Fails
  BY Hops
<1>2. hop[MaxLinks] \in Seq(Names)
  BY PathsAssumption
<1> QED
  BY <1>1, <1>2

\* A path without links is what EvalSymlinks makes of it, so that resolving what was
\* resolved changes nothing: descendant compares like with like.
LEMMA Stays ==
    ASSUME fs \in FileSystems, NEW path \in Seq(Names), Turns(path) = {}
    PROVE  EvalSymlinks(path) = path
<1>1. PICK hop \in [0..MaxLinks -> Seq(Names)] :
         /\ hop[0] = path
         /\ \A n \in 1..MaxLinks : hop[n] = Follow(hop[n - 1])
         /\ EvalSymlinks(path) = IF Turns(hop[MaxLinks]) = {} THEN hop[MaxLinks] ELSE Fails
  BY Hops
<1> DEFINE B == {n \in 0..MaxLinks : hop[n] = path}
<1>2. MaxLinks \in Nat /\ 0 \in B
  BY <1>1, PathsAssumption
<1>3. ASSUME NEW n \in 1..MaxLinks, n - 1 \in B PROVE n \in B
  BY <1>1, <1>2, <1>3, FollowType
<1>4. 0..MaxLinks \subseteq B
  <2> HIDE DEF B
  <2> QED
    BY <1>2, <1>3, Induction
<1> QED
  BY <1>1, <1>2, <1>4

LEMMA RealType ==
    ASSUME fs \in FileSystems, NEW path \in Seq(Names)
    PROVE  Real(path) \in Seq(Names)
BY Resolved DEF Real

LEMMA JoinedType ==
    ASSUME fs \in FileSystems, cwd \in Cwds, raw \in Raws
    PROVE  Joined \in Seq(Names)
<1>1. <<>> \in Seq(Names) /\ cwd \in Seq(Names) /\ raw.names \in Seq(Names \cup {Up})
  BY PathsAssumption
<1>2. Real(cwd) \in Seq(Names)
  BY <1>1, RealType
<1> QED
  BY <1>1, <1>2, JoinType DEF Joined

\* The path that is compared and the one it is compared with are both resolved for good:
\* to resolve again what was resolved changes nothing (paths.go 28-48).
THEOREM RealIsReal ==
    ASSUME fs \in FileSystems, NEW path \in Seq(Names)
    PROVE  Real(Real(path)) = Real(path)
<1>1. CASE EvalSymlinks(path) = Fails
  BY <1>1 DEF Real
<1>2. CASE EvalSymlinks(path) # Fails
  <2>1. Real(path) = EvalSymlinks(path)
    BY <1>2 DEF Real
  <2>2. EvalSymlinks(Real(path)) = Real(path)
    BY <1>2, <2>1, Resolved, Stays
  <2> QED
    BY <1>2, <2>1, <2>2 DEF Real
<1> QED
  BY <1>1, <1>2
-----------------------------------------------------------------------------
\* What is found depends on the files alone.
LEMMA SameFiles ==
    ASSUME fs' = fs, NEW path
    PROVE  EvalSymlinks(path)' = EvalSymlinks(path)
BY SMT DEF EvalSymlinks, Follow, Turns, Is, Min

LEMMA SameAnswer ==
    ASSUME UNCHANGED <<fs, cwd, raw>>
    PROVE  UNCHANGED <<Real(cwd), Joined, Real(Joined), EvalSymlinks(Joined), ResolvePath>>
<1>1. UNCHANGED Real(cwd)
  BY SameFiles DEF Real
<1>2. UNCHANGED Joined
  BY <1>1 DEF Joined, Join, Step, Front
<1>3. UNCHANGED EvalSymlinks(Joined)
  BY <1>2, SameFiles
<1>4. UNCHANGED Real(Joined)
  BY <1>2, <1>3 DEF Real
<1>5. UNCHANGED ResolvePath
  BY <1>1, <1>2, <1>4 DEF ResolvePath, descendant, IsPrefix
<1> QED
  BY <1>1, <1>2, <1>3, <1>4, <1>5

\* What is answered is ResolvePath's answer for what was asked.
IInv ==
    /\ TypeOK
    /\ answer # Pending => answer = ResolvePath

LEMMA ResolvePathType ==
    ASSUME fs \in FileSystems, cwd \in Cwds, raw \in Raws
    PROVE  ResolvePath \in Seq(Names) \cup {Rejected}
BY JoinedType DEF ResolvePath

LEMMA InitIInv == Init => IInv
BY DEF Init, IInv, TypeOK

LEMMA NextIInv == IInv /\ [Next]_vars => IInv'
<1> SUFFICES ASSUME IInv, [Next]_vars PROVE IInv'
  OBVIOUS
<1>1. CASE Next
  <2>1. answer' = ResolvePath /\ ResolvePath' = ResolvePath
    BY <1>1, SameAnswer DEF Next
  <2>2. TypeOK'
    BY <1>1, <2>1, ResolvePathType DEF IInv, TypeOK, Next
  <2> QED
    BY <2>1, <2>2 DEF IInv
<1>2. CASE UNCHANGED vars
  <2>1. ResolvePath' = ResolvePath /\ answer' = answer
    BY <1>2, SameAnswer DEF vars
  <2>2. TypeOK'
    BY <1>2 DEF IInv, TypeOK, vars
  <2> QED
    BY <2>1, <2>2 DEF IInv
<1> QED
  BY <1>1, <1>2

LEMMA Invariant == Spec => []IInv
BY InitIInv, NextIInv, PTL DEF Spec

\* ResolvePath hands on paths that are clean, whatever the caller wrote.
THEOREM TypeCorrect == Spec => []TypeOK
<1>1. IInv => TypeOK
  BY DEF IInv
<1> QED
  BY <1>1, Invariant, PTL

\* What is accepted lies below cwd once all links are followed, for any links and names.
THEOREM LeadsInside == Spec => []AcceptedLeadsInside
<1>1. IInv => AcceptedLeadsInside
  <2> SUFFICES ASSUME IInv, Accepted, Exists(answer)
               PROVE  IsPrefix(Real(cwd), EvalSymlinks(answer))
    BY DEF AcceptedLeadsInside
  <2>1. answer = Joined /\ descendant(Real(cwd), Real(Joined))
    BY DEF IInv, Accepted, ResolvePath
  <2>2. Real(Joined) = EvalSymlinks(answer)
    BY <2>1 DEF Exists, Real
  <2> QED
    BY <2>1, <2>2 DEF descendant
<1> QED
  BY <1>1, Invariant, PTL

\* One path below another is longer, unless they are the same.
LEMMA LongerBelow ==
    ASSUME NEW p \in Seq(Names), NEW q \in Seq(Names), IsPrefix(p, q), p # q
    PROVE  Len(q) > Len(p)
<1>1. Len(p) <= Len(q) /\ SubSeq(p, 1, Len(p)) = SubSeq(q, 1, Len(p))
  BY DEF IsPrefix
<1>2. SubSeq(p, 1, Len(p)) = p /\ SubSeq(q, 1, Len(q)) = q
  OBVIOUS
<1> QED
  BY <1>1, <1>2

\* No file below cwd is refused, unless two dots begin its name there.
THEOREM InsideAccepted == Spec => []InsideIsAccepted
<1>1. IInv => InsideIsAccepted
  <2> SUFFICES ASSUME IInv, answer = Rejected, raw.names # <<>>, Exists(Joined),
                      IsPrefix(Real(cwd), EvalSymlinks(Joined))
               PROVE  /\ Len(EvalSymlinks(Joined)) > Len(Real(cwd))
                      /\ EvalSymlinks(Joined)[Len(Real(cwd)) + 1] \in Dotted
    BY DEF InsideIsAccepted
  <2>1. Joined \in Seq(Names) /\ Joined # Rejected /\ answer # Pending
    BY JoinedType, PathsAssumption DEF IInv, TypeOK
  <2>2. Real(Joined) = EvalSymlinks(Joined)
    BY DEF Exists, Real
  <2>3. ~descendant(Real(cwd), Real(Joined))
    BY <2>1 DEF IInv, ResolvePath
  <2>4. Real(cwd) \in Seq(Names) /\ Real(Joined) \in Seq(Names)
    BY <2>1, RealType, PathsAssumption DEF IInv, TypeOK
  <2> QED
    BY <2>2, <2>3, <2>4, LongerBelow DEF descendant
<1> QED
  BY <1>1, Invariant, PTL

\* A path's directory has its names but for the last.
LEMMA FrontType ==
    ASSUME NEW q \in Seq(Names), q # <<>>
    PROVE  /\ Front(q) \in Seq(Names) /\ Len(q) \in Nat \ {0} /\ Len(Front(q)) = Len(q) - 1
           /\ \A i \in 1..(Len(q) - 1) : Front(q)[i] = q[i]
<1>1. Len(q) \in Nat \ {0}
  OBVIOUS
<1>2. Front(q) = SubSeq(q, 1, Len(q) - 1)
  BY DEF Front
<1> DEFINE n == Len(q) - 1
<1>3. n \in Nat /\ \A i \in 1..n : q[i] \in Names
  BY <1>1
<1> HIDE DEF n
<1>4. SubSeq(q, 1, n) \in Seq(Names)
  BY <1>3
<1>5. Len(SubSeq(q, 1, n)) = n
  BY <1>3
<1>6. \A i \in 1..n : SubSeq(q, 1, n)[i] = q[i]
  BY <1>3
<1> QED
  BY <1>1, <1>2, <1>4, <1>5, <1>6 DEF n

\* What is below a path's directory is a prefix of the path, and shorter.
LEMMA BelowFront ==
    ASSUME NEW p \in Seq(Names), NEW q \in Seq(Names), q # <<>>, IsPrefix(p, Front(q))
    PROVE  IsPrefix(p, q) /\ p # q
<1>1. /\ Front(q) \in Seq(Names) /\ Len(Front(q)) = Len(q) - 1
      /\ \A i \in 1..(Len(q) - 1) : Front(q)[i] = q[i]
  BY FrontType
<1>2. Len(p) <= Len(Front(q)) /\ SubSeq(p, 1, Len(p)) = SubSeq(Front(q), 1, Len(p))
  BY DEF IsPrefix
<1>3. SubSeq(Front(q), 1, Len(p)) = SubSeq(q, 1, Len(p))
  BY <1>1, <1>2
<1> QED
  BY <1>1, <1>2, <1>3 DEF IsPrefix

\* Where the directory is there and its name leads through no link, a missing file ends the
\* walk of EvalSymlinks at its first step.
LEMMA MissingFails ==
    ASSUME fs \in FileSystems, NEW path \in Seq(Names), path # <<>>, Is(path) = Missing,
           EvalSymlinks(Front(path)) = Front(path)
    PROVE  EvalSymlinks(path) = Fails
<1>1. /\ Front(path) \in Seq(Names) /\ Len(path) \in Nat \ {0} /\ Len(Front(path)) = Len(path) - 1
      /\ \A i \in 1..(Len(path) - 1) : Front(path)[i] = path[i]
  BY FrontType
<1>2. SubSeq(path, 1, Len(path)) = path /\ Missing # Plain
  BY PathsAssumption
<1>3. Turns(Front(path)) = {}
  <2>1. Fails \notin Seq(Names)
    BY PathsAssumption
  <2> QED
    BY <1>1, <2>1, Resolved
<1>4. Len(path) \in Turns(path)
  <2>1. Len(path) \in 1..Len(path)
    BY <1>1
  <2> QED
    BY <1>2, <2>1 DEF Turns
<1>5. ASSUME NEW i \in Turns(path) PROVE i = Len(path)
  <2>1. i \in 1..Len(path) /\ Is(SubSeq(path, 1, i)) # Plain
    BY DEF Turns
  <2>2. SUFFICES ASSUME i # Len(path) PROVE FALSE
    OBVIOUS
  <2>3. i \in 1..Len(Front(path))
    BY <1>1, <2>1, <2>2
  <2>4. SubSeq(Front(path), 1, i) = SubSeq(path, 1, i)
    BY <1>1, <2>3
  <2> QED
    BY <1>3, <2>1, <2>3, <2>4 DEF Turns
<1>6. Min(Turns(path)) = Len(path)
  BY <1>1, <1>4, <1>5 DEF Min
<1>7. Follow(path) = path
  BY <1>2, <1>6 DEF Follow
<1>8. PICK hop \in [0..MaxLinks -> Seq(Names)] :
         /\ hop[0] = path
         /\ \A n \in 1..MaxLinks : hop[n] = Follow(hop[n - 1])
         /\ EvalSymlinks(path) = IF Turns(hop[MaxLinks]) = {} THEN hop[MaxLinks] ELSE Fails
  BY Hops
<1> DEFINE B == {n \in 0..MaxLinks : hop[n] = path}
<1>9. MaxLinks \in Nat /\ 0 \in B
  BY <1>8, PathsAssumption
<1>10. ASSUME NEW n \in 1..MaxLinks, n - 1 \in B PROVE n \in B
  BY <1>7, <1>8, <1>9, <1>10
<1>11. 0..MaxLinks \subseteq B
  <2> HIDE DEF B
  <2> QED
    BY <1>9, <1>10, Induction
<1> QED
  BY <1>4, <1>8, <1>9, <1>11

\* A file to be made where no link leads is refused for its dots only.
THEOREM NewFilesAccepted == Spec => []NewFilesAreAccepted
<1>1. IInv => NewFilesAreAccepted
  <2> SUFFICES ASSUME IInv, answer = Rejected, Joined # <<>>, Is(Joined) = Missing,
                      raw.names # <<>>, EvalSymlinks(Front(Joined)) = Front(Joined),
                      IsPrefix(Real(cwd), Front(Joined))
               PROVE  Joined[Len(Real(cwd)) + 1] \in Dotted
    BY DEF NewFilesAreAccepted
  <2>1. Joined \in Seq(Names) /\ Joined # Rejected /\ answer # Pending
    BY JoinedType, PathsAssumption DEF IInv, TypeOK
  <2>2. Real(Joined) = Joined
    BY <2>1, MissingFails DEF IInv, TypeOK, Real
  <2>3. ~descendant(Real(cwd), Real(Joined))
    BY <2>1 DEF IInv, ResolvePath
  <2>4. Real(cwd) \in Seq(Names)
    BY RealType, PathsAssumption DEF IInv, TypeOK
  <2> QED
    BY <2>1, <2>2, <2>3, <2>4, BelowFront DEF descendant
<1> QED
  BY <1>1, Invariant, PTL
=============================================================================
