-------------------------- MODULE UpgradeChainProofs --------------------------
(***************************************************************************)
(* Proofs about UpgradeChain: types, and that edge, stream and target      *)
(* together are one pipe each way, for any number of items and links of    *)
(* any capacity.                                                           *)
(***************************************************************************)
EXTENDS UpgradeChain, TLAPS

\* The chain, written out: which stage reads which link and writes which.
LEMMA ChainFacts ==
  /\ \A d \in Directions : {<<d, 1>>, <<d, 2>>, <<d, 3>>} \subseteq Links
  /\ \A d \in Directions : /\ <<d, 1>> \in Stages /\ Out(<<d, 1>>) = <<d, 2>>
                           /\ <<d, 2>> \in Stages /\ Out(<<d, 2>>) = <<d, 3>>
  /\ \A st \in Stages : /\ st \in Links /\ Out(st) \in Links /\ Out(st) # st
                        /\ \A d \in Directions : Out(st) # <<d, 1>>
                        /\ \A o \in Stages : Out(o) = Out(st) => o = st
  /\ \A st \in Stages : \E d \in Directions, n \in {1, 2} : st = <<d, n>>
  /\ \A d, e \in Directions : \A n, m \in 1 .. 3 : <<d, n>> = <<e, m>> => d = e /\ n = m
BY DEF Links, Stages, Out
------------------------------------------------------------------------------
(* Types. *)

Items == 1 .. MaxSent

LEMMA TypesInit == Init => TypeOK
<1> SUFFICES ASSUME Init PROVE TypeOK
  OBVIOUS
<1>1. node \in [Nodes -> {"joining", "copying", "over"}]
  BY DEF Init
<1>2. link \in [Links -> Seq(Items)] /\ \A l \in Links : Len(link[l]) <= Capacity
  BY BoundsAssumption DEF Init
<1>3. sent \in [Directions -> 0 .. MaxSent] /\ got \in [Directions -> Seq(Items)]
  BY BoundsAssumption DEF Init
<1>4. QED BY <1>1, <1>2, <1>3 DEF Init, TypeOK, Items

LEMMA DropType ==
  ASSUME TypeOK, NEW k \in Nodes, Drop(k), broken' \in BOOLEAN
  PROVE  TypeOK'
<1>1. node' \in [Nodes -> {"joining", "copying", "over"}]
  BY DEF Drop, TypeOK
<1>2. reader' \in [Links -> BOOLEAN]
  BY DEF Drop, TypeOK
<1>3. writer' \in [Links -> {"open", "fin", "reset"}]
  BY DEF Drop, TypeOK
<1>4. copying' \subseteq Stages
  BY DEF Drop, TypeOK
<1>5. QED BY <1>1, <1>2, <1>3, <1>4 DEF Drop, TypeOK

LEMMA EndStageType ==
  ASSUME TypeOK, NEW st \in Stages, EndStage(st)
  PROVE  TypeOK'
BY DEF EndStage, TypeOK

LEMMA ItemsType ==
  ASSUME TypeOK, NEW l \in Links, NEW q \in Seq(Items), Len(q) <= Capacity,
         link' = [link EXCEPT ![l] = q]
  PROVE  /\ link' \in [Links -> Seq(Items)]
         /\ \A o \in Links : Len(link'[o]) <= Capacity
BY DEF TypeOK, Items

LEMMA CopyType ==
  ASSUME TypeOK, NEW st \in Stages, Copy(st)
  PROVE  TypeOK'
<1>1. /\ st \in Links /\ Out(st) \in Links /\ Out(st) # st
      /\ link[st] \in Seq(Items) /\ link[Out(st)] \in Seq(Items)
      /\ Len(link[st]) <= Capacity /\ Len(link[Out(st)]) < Capacity /\ link[st] # <<>>
  BY ChainFacts DEF Copy, MayCopy, MayWrite, TypeOK, Items
<1>2. /\ Tail(link[st]) \in Seq(Items) /\ Len(Tail(link[st])) <= Capacity
      /\ Append(link[Out(st)], Head(link[st])) \in Seq(Items)
      /\ Len(Append(link[Out(st)], Head(link[st]))) <= Capacity
  BY <1>1, BoundsAssumption
<1>3. link' = [link EXCEPT ![st] = Tail(link[st]),
                           ![Out(st)] = Append(link[Out(st)], Head(link[st]))]
  BY <1>1 DEF Copy, MayCopy, TypeOK
<1>4. /\ link' \in [Links -> Seq(Items)]
      /\ \A o \in Links : Len(link'[o]) <= Capacity
  BY <1>1, <1>2, <1>3 DEF TypeOK, Items
<1>5. QED BY <1>4 DEF Copy, MayCopy, pipeVars, TypeOK, Items

LEMMA TypesStep == TypeOK /\ [Next]_vars => TypeOK'
<1> SUFFICES ASSUME TypeOK, [Next]_vars PROVE TypeOK'
  OBVIOUS
<1>1. CASE UNCHANGED vars
  BY <1>1 DEF vars, pipeVars, TypeOK
<1>2. CASE Join
  BY <1>2 DEF Join, AtJoin, pipeVars, TypeOK
<1>3. CASE JoinFails
  BY <1>3, DropType DEF JoinFails, Nodes
<1>4. CASE LoseConnection
  BY <1>4 DEF LoseConnection, TypeOK
<1>5. ASSUME NEW st \in Stages, Eof(st) \/ Fails(st) PROVE TypeOK'
  BY <1>5, EndStageType, DropType DEF Eof, Fails, Nodes, TypeOK
<1>6. ASSUME NEW k \in Nodes, Done(k) PROVE TypeOK'
  BY <1>6, DropType DEF Done, TypeOK
<1>7. ASSUME NEW d \in Directions, Send(d) PROVE TypeOK'
  <2>1. sent[d] + 1 \in Items /\ sent[d] + 1 \in 0 .. MaxSent
    BY <1>7, BoundsAssumption DEF Send, TypeOK, Items
  <2>0. <<d, 1>> \in Links
    BY ChainFacts
  <2> DEFINE l == <<d, 1>>
  <2> HIDE DEF l
  <2>2. /\ link[l] \in Seq(Items) /\ Len(link[l]) < Capacity
    BY <1>7, <2>0 DEF Send, TypeOK, Items, l
  <2>6. /\ Append(link[l], sent[d] + 1) \in Seq(Items)
        /\ Len(Append(link[l], sent[d] + 1)) <= Capacity
    BY <2>1, <2>2, BoundsAssumption
  <2>3. link' = [link EXCEPT ![l] = Append(link[l], sent[d] + 1)]
    BY <1>7, <2>0 DEF Send, TypeOK, l
  <2>4. /\ link' \in [Links -> Seq(Items)]
        /\ \A o \in Links : Len(link'[o]) <= Capacity
    BY <2>0, <2>6, <2>3, ItemsType DEF l
  <2>5. QED BY <1>7, <2>1, <2>4 DEF Send, TypeOK, Items
<1>8. ASSUME NEW d \in Directions, Receive(d) PROVE TypeOK'
  <2>0. <<d, 3>> \in Links
    BY ChainFacts
  <2> DEFINE l == <<d, 3>>
  <2> HIDE DEF l
  <2>1. link[l] \in Seq(Items) /\ Len(link[l]) <= Capacity /\ link[l] # <<>>
    BY <1>8, <2>0 DEF Receive, TypeOK, Items, l
  <2>2. Tail(link[l]) \in Seq(Items) /\ Len(Tail(link[l])) <= Capacity /\ Head(link[l]) \in Items
    BY <2>1, BoundsAssumption
  <2>3. link' = [link EXCEPT ![l] = Tail(link[l])]
    BY <1>8, <2>0 DEF Receive, TypeOK, l
  <2>4. /\ link' \in [Links -> Seq(Items)]
        /\ \A o \in Links : Len(link'[o]) <= Capacity
    BY <2>0, <2>2, <2>3, ItemsType DEF l
  <2>5. got' \in [Directions -> Seq(Items)]
    <3>1. got' = [got EXCEPT ![d] = Append(got[d], Head(link[l]))]
      BY <1>8 DEF Receive, TypeOK, l
    <3>2. Append(got[d], Head(link[l])) \in Seq(Items)
      BY <2>2 DEF TypeOK, Items
    <3>3. QED BY <3>1, <3>2 DEF TypeOK, Items
  <2>6. QED BY <1>8, <2>4, <2>5 DEF Receive, TypeOK, Items
<1>9. ASSUME NEW d \in Directions, Finish(d) \/ MeetEnd(d) PROVE TypeOK'
  BY <1>9 DEF Finish, MeetEnd, pipeVars, TypeOK
<1>10. ASSUME NEW d \in Directions, Leave(d) PROVE TypeOK'
  <2>1. PICK in \in Directions \ {d}, how \in {"fin", "reset"} :
          /\ broken' = (broken \/ ~told[in])
          /\ reader' = [reader EXCEPT ![<<in, 3>>] = FALSE]
          /\ writer' = [writer EXCEPT ![<<d, 1>>] = IF broken' /\ @ = "open" THEN how
                                                    ELSE IF @ = "open" THEN "fin" ELSE @]
    BY <1>10 DEF Leave
  <2>2. reader' \in [Links -> BOOLEAN] /\ broken' \in BOOLEAN
    BY <2>1 DEF TypeOK
  <2>3. writer' \in [Links -> {"open", "fin", "reset"}]
    BY <2>1 DEF TypeOK
  <2>4. left' \subseteq Ends
    BY <1>10 DEF Leave, Source, Ends, TypeOK
  <2>5. QED BY <1>10, <2>2, <2>3, <2>4 DEF Leave, TypeOK
<1>11. QED
  BY <1>1, <1>2, <1>3, <1>4, <1>5, <1>6, <1>7, <1>8, <1>9, <1>10, CopyType DEF Next, Stage

\* Types: no link ever holds more than it can, for any number of items and
\* any capacity.
THEOREM UpgradeTypes == Spec => []TypeOK
BY TypesInit, TypesStep, PTL DEF Spec
------------------------------------------------------------------------------
(***************************************************************************)
(* The inductive invariant.  What a direction's sink has received and what *)
(* its links hold is what its source has sent, in order and without gaps;  *)
(* and as long as nothing has broken, a direction closes link by link: a   *)
(* stage ends only when its own link has ended and is empty.               *)
(***************************************************************************)

\* s is a run of consecutive numbers that follows b.
Run(s, b) == \A i \in 1 .. Len(s) : s[i] = b + i

\* g has been received, q3, q2 and q1 are under way and n has been sent.
Line(g, q3, q2, q1, n) ==
  /\ Run(g, 0)
  /\ Run(q3, Len(g))
  /\ Run(q2, Len(g) + Len(q3))
  /\ Run(q1, Len(g) + Len(q3) + Len(q2))
  /\ n = Len(g) + Len(q3) + Len(q2) + Len(q1)

DataInv(d) == Line(got[d], link[<<d, 3>>], link[<<d, 2>>], link[<<d, 1>>], sent[d])

EndedInv == \A st \in Stages : st \notin copying => writer[Out(st)] # "open"

Orderly ==
  /\ \A l \in Links : writer[l] # "reset"
  /\ \A st \in Stages : st \notin copying => writer[st] = "fin" /\ link[st] = <<>>
  /\ \A st \in Stages : writer[Out(st)] # "open" => st \notin copying
  /\ \A st \in Stages : ~reader[Out(st)] => st \notin copying
  /\ \A d \in Directions : told[d] => writer[<<d, 3>>] = "fin"

OrderlyInv == ~broken => Orderly

\* Nobody closes what it has not read to its end: an end that is gone had been
\* told, one that was told has read everything, a node that is gone has copied
\* everything.
Settled ==
  /\ \A d \in Directions : (told[d] => link[<<d, 3>>] = <<>>) /\ (~reader[<<d, 3>>] => told[d])
  /\ \A st \in Stages : ~reader[st] \/ node[NodeOf(st)] = "over" => st \notin copying

SettledInv == ~broken => Settled

\* Only the edge has a join to wait for.
SplicingInv == node["target"] # "joining"

IInv ==
  /\ TypeOK /\ SplicingInv /\ EndedInv /\ OrderlyInv /\ SettledInv
  /\ \A d \in Directions : DataInv(d)

\* An item moved from the front of one run to the end of the one before it
\* leaves both without gaps.
LEMMA RunTail ==
  ASSUME NEW s \in Seq(Nat), s # <<>>, NEW b \in Nat, Run(s, b)
  PROVE  /\ Head(s) = b + 1 /\ Tail(s) \in Seq(Nat)
         /\ Len(Tail(s)) = Len(s) - 1 /\ Run(Tail(s), b + 1)
<1>1. Len(s) \in Nat /\ Len(s) > 0 /\ Head(s) = s[1] /\ Tail(s) \in Seq(Nat)
  OBVIOUS
<1>2. Len(Tail(s)) = Len(s) - 1 /\ \A i \in 1 .. Len(Tail(s)) : Tail(s)[i] = s[i + 1]
  OBVIOUS
<1>3. QED BY <1>1, <1>2 DEF Run

LEMMA RunAppend ==
  ASSUME NEW s \in Seq(Nat), NEW b \in Nat, Run(s, b)
  PROVE  /\ Append(s, b + Len(s) + 1) \in Seq(Nat)
         /\ Len(Append(s, b + Len(s) + 1)) = Len(s) + 1
         /\ Run(Append(s, b + Len(s) + 1), b)
<1> DEFINE e == b + Len(s) + 1
<1>1. e \in Nat /\ Len(s) \in Nat
  OBVIOUS
<1> HIDE DEF e
<1>2. /\ Append(s, e) \in Seq(Nat) /\ Len(Append(s, e)) = Len(s) + 1
      /\ \A i \in 1 .. Len(s) : Append(s, e)[i] = s[i]
      /\ Append(s, e)[Len(s) + 1] = e
  BY <1>1
<1>3. \A i \in 1 .. Len(s) + 1 : i \in 1 .. Len(s) \/ i = Len(s) + 1
  BY <1>1
<1>4. \A i \in 1 .. Len(s) + 1 : Append(s, e)[i] = b + i
  BY <1>1, <1>2, <1>3 DEF Run, e
<1>5. QED BY <1>2, <1>4 DEF Run, e

LEMMA LineMoves ==
  ASSUME NEW g \in Seq(Nat), NEW q3 \in Seq(Nat), NEW q2 \in Seq(Nat), NEW q1 \in Seq(Nat),
         NEW n \in Nat, Line(g, q3, q2, q1, n)
  PROVE  /\ Line(g, q3, q2, Append(q1, n + 1), n + 1)
         /\ q1 # <<>> => Line(g, q3, Append(q2, Head(q1)), Tail(q1), n)
         /\ q2 # <<>> => Line(g, Append(q3, Head(q2)), Tail(q2), q1, n)
         /\ q3 # <<>> => /\ Line(Append(g, Head(q3)), Tail(q3), q2, q1, n)
                         /\ Head(q3) = Len(g) + 1 /\ Len(g) < n
<1>1. Len(g) \in Nat /\ Len(q3) \in Nat /\ Len(q2) \in Nat /\ Len(q1) \in Nat
  OBVIOUS
<1>2. Line(g, q3, q2, Append(q1, n + 1), n + 1)
  BY <1>1, RunAppend DEF Line
\* The lengths before and after a move, as numbers.
<1> DEFINE lg == Len(g)
           l3 == Len(q3)
           l2 == Len(q2)
           l1 == Len(q1)
<1>3. /\ lg \in Nat /\ l3 \in Nat /\ l2 \in Nat /\ l1 \in Nat
      /\ n = lg + l3 + l2 + l1
      /\ Run(g, 0) /\ Run(q3, lg) /\ Run(q2, lg + l3) /\ Run(q1, lg + l3 + l2)
  BY <1>1 DEF Line
<1>4. ASSUME q1 # <<>> PROVE Line(g, q3, Append(q2, Head(q1)), Tail(q1), n)
  <2> DEFINE t == Tail(q1)
             a == Append(q2, Head(q1))
  <2>1. Head(q1) = lg + l3 + l2 + 1 /\ Len(t) = l1 - 1 /\ Run(t, lg + l3 + l2 + 1)
    BY <1>3, <1>4, RunTail
  <2>2. Run(a, lg + l3) /\ Len(a) = l2 + 1
    BY <1>3, <2>1, RunAppend
  <2> HIDE DEF t, a, lg, l3, l2, l1
  <2>3. lg + l3 + l2 + 1 = lg + l3 + Len(a) /\ n = lg + l3 + Len(a) + Len(t)
    BY <1>3, <2>1, <2>2
  <2>4. Run(t, lg + l3 + Len(a))
    BY <2>1, <2>3
  <2>5. QED BY <1>3, <2>2, <2>3, <2>4 DEF Line, t, a, lg, l3, l2, l1
<1>5. ASSUME q2 # <<>> PROVE Line(g, Append(q3, Head(q2)), Tail(q2), q1, n)
  <2> DEFINE t == Tail(q2)
             a == Append(q3, Head(q2))
  <2>1. Head(q2) = lg + l3 + 1 /\ Len(t) = l2 - 1 /\ Run(t, lg + l3 + 1)
    BY <1>3, <1>5, RunTail
  <2>2. Run(a, lg) /\ Len(a) = l3 + 1
    BY <1>3, <2>1, RunAppend
  <2> HIDE DEF t, a, lg, l3, l2, l1
  <2>3. /\ lg + l3 + 1 = lg + Len(a) /\ lg + l3 + l2 = lg + Len(a) + Len(t)
        /\ n = lg + Len(a) + Len(t) + l1
    BY <1>3, <2>1, <2>2
  <2>4. Run(t, lg + Len(a)) /\ Run(q1, lg + Len(a) + Len(t))
    BY <1>3, <2>1, <2>3
  <2>5. QED BY <1>3, <2>2, <2>3, <2>4 DEF Line, t, a, lg, l3, l2, l1
<1>6. ASSUME q3 # <<>>
      PROVE  /\ Line(Append(g, Head(q3)), Tail(q3), q2, q1, n)
             /\ Head(q3) = Len(g) + 1 /\ Len(g) < n
  <2> DEFINE t == Tail(q3)
             a == Append(g, Head(q3))
  <2>1. Head(q3) = lg + 1 /\ Len(t) = l3 - 1 /\ Run(t, lg + 1) /\ l3 > 0
    BY <1>3, <1>6, RunTail
  <2>2. Run(a, 0) /\ Len(a) = lg + 1
    BY <1>3, <2>1, RunAppend
  <2> HIDE DEF t, a, lg, l3, l2, l1
  <2>3. /\ lg + 1 = Len(a) /\ lg + l3 = Len(a) + Len(t)
        /\ lg + l3 + l2 = Len(a) + Len(t) + l2
        /\ n = Len(a) + Len(t) + l2 + l1 /\ lg < n
    BY <1>3, <2>1, <2>2
  <2>4. Run(t, Len(a)) /\ Run(q2, Len(a) + Len(t)) /\ Run(q1, Len(a) + Len(t) + l2)
    BY <1>3, <2>1, <2>3
  <2>5. QED BY <1>3, <2>1, <2>2, <2>3, <2>4 DEF Line, t, a, lg, l3, l2, l1
<1>7. QED BY <1>2, <1>4, <1>5, <1>6

LEMMA IInvInit == Init => IInv
<1> SUFFICES ASSUME Init PROVE IInv
  OBVIOUS
<1>1. ASSUME NEW d \in Directions PROVE DataInv(d)
  <2>1. /\ got[d] = <<>> /\ sent[d] = 0
        /\ link[<<d, 3>>] = <<>> /\ link[<<d, 2>>] = <<>> /\ link[<<d, 1>>] = <<>>
    BY ChainFacts DEF Init
  <2>2. QED BY <2>1 DEF DataInv, Line, Run
<1>2. EndedInv /\ OrderlyInv
  BY ChainFacts DEF Init, EndedInv, OrderlyInv, Orderly
<1>3. SettledInv
  <2>1. \A st \in Stages : st \in Links /\ NodeOf(st) \in Nodes
    BY ChainFacts DEF NodeOf, Nodes
  <2>2. /\ \A l \in Links : reader[l]
        /\ \A k \in Nodes : node[k] # "over"
        /\ \A d \in Directions : ~told[d]
    BY DEF Init
  <2>3. QED BY <2>1, <2>2, ChainFacts DEF SettledInv, Settled
<1>4. SplicingInv
  BY DEF Init, SplicingInv, Nodes
<1>5. QED BY <1>1, <1>2, <1>3, <1>4, TypesInit DEF IInv
------------------------------------------------------------------------------
(* Every step keeps the runs. *)

LEMMA ItemsAreNumbers ==
  ASSUME TypeOK, NEW d \in Directions
  PROVE  /\ got[d] \in Seq(Nat) /\ sent[d] \in Nat
         /\ \A l \in Links : link[l] \in Seq(Nat)
<1>1. \A q \in Seq(Items) : q \in Seq(Nat)
  BY BoundsAssumption DEF Items
<1>2. QED BY <1>1, BoundsAssumption DEF TypeOK, Items

LEMMA LineHolds ==
  ASSUME TypeOK, NEW d \in Directions, DataInv(d)
  PROVE  /\ got[d] \in Seq(Nat) /\ sent[d] \in Nat
         /\ link[<<d, 3>>] \in Seq(Nat) /\ link[<<d, 2>>] \in Seq(Nat)
         /\ link[<<d, 1>>] \in Seq(Nat)
         /\ Line(got[d], link[<<d, 3>>], link[<<d, 2>>], link[<<d, 1>>], sent[d])
BY ItemsAreNumbers, ChainFacts DEF DataInv

LEMMA DataSame ==
  ASSUME NEW d \in Directions, DataInv(d), got'[d] = got[d], sent'[d] = sent[d],
         \A n \in 1 .. 3 : link'[<<d, n>>] = link[<<d, n>>]
  PROVE  DataInv(d)'
BY DEF DataInv

LEMMA DataCopy ==
  ASSUME TypeOK, NEW d \in Directions, DataInv(d), NEW st \in Stages, Copy(st)
  PROVE  DataInv(d)'
<1>1. PICK e \in Directions, m \in {1, 2} : st = <<e, m>>
  BY ChainFacts
<1>2. Out(st) = <<e, m + 1>>
  BY <1>1 DEF Out
<1>3. /\ <<d, 1>> \in Links /\ <<d, 2>> \in Links /\ <<d, 3>> \in Links
      /\ st \in Links /\ Out(st) \in Links /\ st # Out(st)
  BY ChainFacts
<1>4. got' = got /\ sent' = sent /\ link[st] # <<>>
  BY DEF Copy, MayCopy, pipeVars
<1>5. /\ link' \in [Links -> Seq(Items)]
      /\ link'[st] = Tail(link[st])
      /\ link'[Out(st)] = Append(link[Out(st)], Head(link[st]))
      /\ \A l \in Links \ {st, Out(st)} : link'[l] = link[l]
  <2>1. link' = [link EXCEPT ![st] = Tail(link[st]),
                             ![Out(st)] = Append(link[Out(st)], Head(link[st]))]
    BY <1>3 DEF Copy, MayCopy, TypeOK
  <2>2. TypeOK'
    BY CopyType
  <2>3. QED BY <1>3, <2>1, <2>2 DEF TypeOK, Items
<1>6. CASE e # d
  <2>1. \A n \in 1 .. 3 : <<d, n>> \in Links \ {st, Out(st)}
    BY <1>1, <1>2, <1>6 DEF Links
  <2>2. QED BY <1>4, <1>5, <2>1, DataSame
<1>7. CASE e = d /\ m = 1
  <2>1. st = <<d, 1>> /\ Out(st) = <<d, 2>> /\ <<d, 3>> \in Links \ {st, Out(st)}
    BY <1>1, <1>2, <1>3, <1>7
  <2>2. Line(got[d], link[<<d, 3>>], Append(link[<<d, 2>>], Head(link[<<d, 1>>])),
             Tail(link[<<d, 1>>]), sent[d])
    <3>1. link[<<d, 1>>] # <<>>
      BY <1>4, <2>1
    <3>2. QED BY <3>1, LineHolds, LineMoves
  <2>3. /\ link'[<<d, 1>>] = Tail(link[<<d, 1>>]) /\ link'[<<d, 3>>] = link[<<d, 3>>]
        /\ link'[<<d, 2>>] = Append(link[<<d, 2>>], Head(link[<<d, 1>>]))
    BY <1>5, <2>1
  <2>4. QED BY <1>4, <2>2, <2>3 DEF DataInv
<1>8. CASE e = d /\ m = 2
  <2>1. st = <<d, 2>> /\ Out(st) = <<d, 3>> /\ <<d, 1>> \in Links \ {st, Out(st)}
    BY <1>1, <1>2, <1>3, <1>8
  <2>2. Line(got[d], Append(link[<<d, 3>>], Head(link[<<d, 2>>])), Tail(link[<<d, 2>>]),
             link[<<d, 1>>], sent[d])
    <3>1. link[<<d, 2>>] # <<>>
      BY <1>4, <2>1
    <3>2. QED BY <3>1, LineHolds, LineMoves
  <2>3. /\ link'[<<d, 2>>] = Tail(link[<<d, 2>>]) /\ link'[<<d, 1>>] = link[<<d, 1>>]
        /\ link'[<<d, 3>>] = Append(link[<<d, 3>>], Head(link[<<d, 2>>]))
    BY <1>5, <2>1
  <2>4. QED BY <1>4, <2>2, <2>3 DEF DataInv
<1>9. QED BY <1>6, <1>7, <1>8

LEMMA DataSend ==
  ASSUME TypeOK, NEW d \in Directions, DataInv(d), NEW e \in Directions, Send(e)
  PROVE  DataInv(d)'
<1>1. /\ <<d, 1>> \in Links /\ <<d, 2>> \in Links /\ <<d, 3>> \in Links /\ <<e, 1>> \in Links
  BY ChainFacts
<1>2. /\ got' = got /\ sent' = [sent EXCEPT ![e] = sent[e] + 1]
      /\ link' = [link EXCEPT ![<<e, 1>>] = Append(link[<<e, 1>>], sent[e] + 1)]
  BY <1>1 DEF Send, TypeOK
<1>3. CASE e # d
  BY <1>1, <1>2, <1>3, DataSame DEF TypeOK, Links
<1>4. CASE e = d
  <2>1. /\ link'[<<d, 1>>] = Append(link[<<d, 1>>], sent[d] + 1)
        /\ link'[<<d, 2>>] = link[<<d, 2>>] /\ link'[<<d, 3>>] = link[<<d, 3>>]
        /\ sent'[d] = sent[d] + 1
    BY <1>1, <1>2, <1>4 DEF TypeOK
  <2>2. Line(got[d], link[<<d, 3>>], link[<<d, 2>>], Append(link[<<d, 1>>], sent[d] + 1),
             sent[d] + 1)
    BY LineHolds, LineMoves
  <2>3. QED BY <1>2, <2>1, <2>2 DEF DataInv
<1>5. QED BY <1>3, <1>4

\* What a sink receives next is the item after the last it has received.
LEMMA FrontItem ==
  ASSUME TypeOK, NEW d \in Directions, DataInv(d), link[<<d, 3>>] # <<>>
  PROVE  /\ Line(Append(got[d], Head(link[<<d, 3>>])), Tail(link[<<d, 3>>]), link[<<d, 2>>],
                 link[<<d, 1>>], sent[d])
         /\ Head(link[<<d, 3>>]) = Len(got[d]) + 1 /\ Len(got[d]) < sent[d]
<1> DEFINE g  == got[d]
           q3 == link[<<d, 3>>]
           q2 == link[<<d, 2>>]
           q1 == link[<<d, 1>>]
           n  == sent[d]
<1>1. /\ g \in Seq(Nat) /\ q3 \in Seq(Nat) /\ q2 \in Seq(Nat) /\ q1 \in Seq(Nat)
      /\ n \in Nat /\ Line(g, q3, q2, q1, n) /\ q3 # <<>>
  BY LineHolds
<1> HIDE DEF g, q3, q2, q1, n
<1>2. /\ Line(Append(g, Head(q3)), Tail(q3), q2, q1, n)
      /\ Head(q3) = Len(g) + 1 /\ Len(g) < n
  BY <1>1, LineMoves
<1>3. QED BY <1>2 DEF g, q3, q2, q1, n

LEMMA DataReceive ==
  ASSUME TypeOK, NEW d \in Directions, DataInv(d), NEW e \in Directions, Receive(e)
  PROVE  DataInv(d)'
<1>1. /\ <<d, 1>> \in Links /\ <<d, 2>> \in Links /\ <<d, 3>> \in Links /\ <<e, 3>> \in Links
  BY ChainFacts
<1>2. /\ sent' = sent /\ got' = [got EXCEPT ![e] = Append(got[e], Head(link[<<e, 3>>]))]
      /\ link' = [link EXCEPT ![<<e, 3>>] = Tail(link[<<e, 3>>])]
      /\ link[<<e, 3>>] # <<>>
  BY <1>1 DEF Receive, TypeOK
<1>3. CASE e # d
  BY <1>1, <1>2, <1>3, DataSame DEF TypeOK, Links
<1>4. CASE e = d
  <2>1. /\ link'[<<d, 3>>] = Tail(link[<<d, 3>>])
        /\ link'[<<d, 2>>] = link[<<d, 2>>] /\ link'[<<d, 1>>] = link[<<d, 1>>]
        /\ got'[d] = Append(got[d], Head(link[<<d, 3>>]))
    BY <1>1, <1>2, <1>4 DEF TypeOK
  <2>2. Line(Append(got[d], Head(link[<<d, 3>>])), Tail(link[<<d, 3>>]), link[<<d, 2>>],
             link[<<d, 1>>], sent[d])
    BY <1>2, <1>4, FrontItem
  <2>3. QED BY <1>2, <2>1, <2>2 DEF DataInv
<1>5. QED BY <1>3, <1>4

LEMMA DataStep ==
  ASSUME TypeOK, NEW d \in Directions, DataInv(d), [Next]_vars
  PROVE  DataInv(d)'
<1>1. ASSUME got' = got, sent' = sent, link' = link PROVE DataInv(d)'
  BY <1>1, DataSame
<1>2. CASE UNCHANGED vars
  BY <1>1, <1>2 DEF vars, pipeVars
<1>3. CASE Join \/ JoinFails \/ LoseConnection
  BY <1>1, <1>3 DEF Join, AtJoin, JoinFails, Drop, LoseConnection, pipeVars
<1>4. ASSUME NEW st \in Stages, Stage(st) PROVE DataInv(d)'
  <2>1. CASE Copy(st)
    BY <2>1, DataCopy
  <2>2. CASE Eof(st) \/ Fails(st)
    BY <1>1, <2>2 DEF Eof, Fails, EndStage, Drop
  <2>3. QED BY <1>4, <2>1, <2>2 DEF Stage
<1>5. ASSUME NEW k \in Nodes, Done(k) PROVE DataInv(d)'
  BY <1>1, <1>5 DEF Done, Drop
<1>6. ASSUME NEW e \in Directions, Finish(e) \/ MeetEnd(e) \/ Leave(e) PROVE DataInv(d)'
  BY <1>1, <1>6 DEF Finish, MeetEnd, Leave, pipeVars
<1>7. QED BY <1>2, <1>3, <1>4, <1>5, <1>6, DataSend, DataReceive DEF Next
------------------------------------------------------------------------------
(* Every step keeps the order in which a direction closes. *)

\* Whoever closes a node's connections closes the links its stages write to.
LEMMA EndedDrop ==
  ASSUME TypeOK, EndedInv, NEW k \in Nodes, Drop(k)
  PROVE  EndedInv'
<1> SUFFICES ASSUME NEW st \in Stages, st \notin copying' PROVE writer'[Out(st)] # "open"
  BY DEF EndedInv
<1>1. PICK how \in {"fin", "reset"} :
        writer' = [l \in Links |-> IF l \notin Finished(k) \/ writer[l] # "open" THEN writer[l]
                                   ELSE IF l[2] = 3 THEN how ELSE "fin"]
  BY DEF Drop
<1>2. st \notin copying \/ Out(st) \in Finished(k)
  BY DEF Drop, Finished, Stopped
<1>3. Out(st) \in Links
  BY ChainFacts
<1>4. QED BY <1>1, <1>2, <1>3 DEF EndedInv

LEMMA EndedStep == TypeOK /\ EndedInv /\ [Next]_vars => EndedInv'
<1> SUFFICES ASSUME TypeOK, EndedInv, [Next]_vars PROVE EndedInv'
  OBVIOUS
<1>1. ASSUME copying' = copying, \A l \in Links : writer'[l] = "open" => writer[l] = "open"
      PROVE  EndedInv'
  BY <1>1, ChainFacts DEF EndedInv
<1>2. CASE UNCHANGED vars
  BY <1>1, <1>2 DEF vars
<1>3. CASE Join
  BY <1>1, <1>3 DEF Join
<1>4. CASE JoinFails
  BY <1>4, EndedDrop DEF JoinFails, Nodes
<1>5. CASE LoseConnection
  BY <1>1, <1>5 DEF LoseConnection, TypeOK
<1>6. ASSUME NEW st \in Stages, EndStage(st) PROVE EndedInv'
  BY <1>6, ChainFacts DEF EndStage, EndedInv, TypeOK
<1>7. ASSUME NEW st \in Stages, Stage(st) PROVE EndedInv'
  <2>1. CASE Copy(st)
    BY <1>1, <2>1 DEF Copy
  <2>2. CASE Eof(st) \/ Fails(st)
    BY <1>6, <2>2, EndedDrop DEF Eof, Fails, Nodes
  <2>3. QED BY <1>7, <2>1, <2>2 DEF Stage
<1>8. ASSUME NEW k \in Nodes, Done(k) PROVE EndedInv'
  BY <1>8, EndedDrop DEF Done
<1>9. ASSUME NEW d \in Directions, Send(d) \/ Receive(d) \/ MeetEnd(d) PROVE EndedInv'
  BY <1>1, <1>9 DEF Send, Receive, MeetEnd
<1>10. ASSUME NEW d \in Directions, Finish(d) \/ Leave(d) PROVE EndedInv'
  BY <1>1, <1>10 DEF Finish, Leave, TypeOK
<1>11. QED
  BY <1>2, <1>3, <1>4, <1>5, <1>7, <1>8, <1>9, <1>10 DEF Next

\* A node whose stages have both ended has nothing left to close or to reset.
LEMMA DoneIsQuiet ==
  ASSUME TypeOK, EndedInv, NEW k \in Nodes, Done(k)
  PROVE  writer' = writer /\ copying' = copying
<1>1. \A l \in Links : l \in Finished(k) => writer[l] # "open"
  BY DEF Done, Finished, Stopped, EndedInv
<1>2. PICK how \in {"fin", "reset"} :
        writer' = [l \in Links |-> IF l \notin Finished(k) \/ writer[l] # "open" THEN writer[l]
                                   ELSE IF l[2] = 3 THEN how ELSE "fin"]
  BY DEF Done, Drop
<1>3. writer' = writer
  BY <1>1, <1>2 DEF TypeOK
<1>4. copying' = copying
  BY DEF Done, Drop, TypeOK
<1>5. QED BY <1>3, <1>4

\* A stage that still copies feeds one that still copies, so a full pipe is
\* never fed past its end.
LEMMA OrderlyCopy ==
  ASSUME TypeOK, Orderly, NEW st \in Stages, Copy(st)
  PROVE  Orderly'
<1>1. writer' = writer /\ reader' = reader /\ copying' = copying /\ told' = told
  BY DEF Copy, pipeVars
<1>2. ASSUME NEW o \in Stages, o \notin copying
      PROVE  writer[o] = "fin" /\ link'[o] = <<>>
  <2>1. writer[o] = "fin" /\ link[o] = <<>>
    BY <1>2 DEF Orderly
  <2>2. o # st
    BY <1>2 DEF Copy, MayCopy, Runs
  <2>3. o # Out(st)
    BY <2>1 DEF Orderly, Copy, MayCopy, Runs
  <2>4. link'[o] = link[o]
    BY <2>2, <2>3, ChainFacts DEF Copy, MayCopy, TypeOK
  <2>5. QED BY <2>1, <2>4
<1>3. QED BY <1>1, <1>2 DEF Orderly

LEMMA OrderlySend ==
  ASSUME TypeOK, Orderly, NEW d \in Directions, Send(d) \/ Receive(d)
  PROVE  Orderly'
<1>1. writer' = writer /\ reader' = reader /\ copying' = copying /\ told' = told
  BY DEF Send, Receive
<1>2. ASSUME NEW o \in Stages, o \notin copying
      PROVE  writer[o] = "fin" /\ link'[o] = <<>>
  <2>1. writer[o] = "fin" /\ link[o] = <<>>
    BY <1>2 DEF Orderly
  <2>2. CASE Send(d)
    <3>1. o # <<d, 1>> /\ o \in Links
      BY <2>1, <2>2, ChainFacts DEF Send
    <3>2. link'[o] = link[o]
      BY <2>2, <3>1 DEF Send, TypeOK
    <3>3. QED BY <2>1, <3>2
  <2>3. CASE Receive(d)
    <3>1. o # <<d, 3>> /\ o \in Links
      BY DEF Stages, Links
    <3>2. link'[o] = link[o]
      BY <2>3, <3>1 DEF Receive, TypeOK
    <3>3. QED BY <2>1, <3>2
  <2>4. QED BY <2>2, <2>3
<1>3. QED BY <1>1, <1>2 DEF Orderly

LEMMA OrderlyEof ==
  ASSUME TypeOK, Orderly, NEW st \in Stages, Eof(st)
  PROVE  Orderly'
<1>1. /\ reader' = reader /\ link' = link /\ told' = told /\ copying' = copying \ {st}
      /\ writer' = [writer EXCEPT ![Out(st)] = IF @ = "open" THEN "fin" ELSE @]
      /\ writer[st] = "fin" /\ link[st] = <<>>
  BY DEF Eof, EndStage
<1>2. /\ \A l \in Links \ {Out(st)} : writer'[l] = writer[l]
      /\ writer'[Out(st)] = "fin"
  BY <1>1, ChainFacts DEF TypeOK, Orderly
<1>3. \A l \in Links : writer'[l] # "reset" /\ (writer[l] = "fin" => writer'[l] = "fin")
  BY <1>2, ChainFacts DEF Orderly
<1>4. \A o \in Stages : o \notin copying' => writer'[o] = "fin" /\ link'[o] = <<>>
  BY <1>1, <1>3, ChainFacts DEF Orderly
<1>5. \A o \in Stages : writer'[Out(o)] # "open" => o \notin copying'
  <2> SUFFICES ASSUME NEW o \in Stages, writer'[Out(o)] # "open", o # st
               PROVE  o \notin copying
    BY <1>1
  <2>1. Out(o) \in Links \ {Out(st)}
    BY ChainFacts
  <2>2. QED BY <1>2, <2>1 DEF Orderly
<1>6. \A d \in Directions : told'[d] => writer'[<<d, 3>>] = "fin"
  BY <1>1, <1>3, ChainFacts DEF Orderly
<1>7. QED BY <1>1, <1>3, <1>4, <1>5, <1>6 DEF Orderly

LEMMA OrderlyDone ==
  ASSUME TypeOK, EndedInv, Orderly, NEW k \in Nodes, Done(k)
  PROVE  Orderly'
<1>1. writer' = writer /\ copying' = copying /\ link' = link /\ told' = told
  BY DoneIsQuiet DEF Done, Drop
<1>2. ASSUME NEW o \in Stages, ~reader'[Out(o)] PROVE o \notin copying
  <2>1. CASE ~reader[Out(o)]
    BY <2>1 DEF Orderly
  <2>2. CASE reader[Out(o)]
    <3>1. Out(o) \in Stopped(k)
      BY <1>2, <2>2, ChainFacts DEF Done, Drop
    <3>2. Out(o) \in Stages /\ Out(o) \notin copying
      BY <3>1 DEF Stopped, Done
    <3>3. writer[Out(o)] = "fin"
      BY <3>2 DEF Orderly
    <3>4. QED BY <3>3 DEF Orderly
  <2>3. QED BY <2>1, <2>2, ChainFacts DEF TypeOK
<1>3. QED BY <1>1, <1>2 DEF Orderly

\* An end that leaves has met the other's end, or has broken the pipe.
LEMMA OrderlyLeave ==
  ASSUME TypeOK, Orderly, NEW d \in Directions, Leave(d), ~broken'
  PROVE  /\ Orderly'
         /\ writer' = [writer EXCEPT ![<<d, 1>>] = IF @ = "open" THEN "fin" ELSE @]
<1>1. PICK in \in Directions \ {d}, how \in {"fin", "reset"} :
        /\ broken' = (broken \/ ~told[in])
        /\ reader' = [reader EXCEPT ![<<in, 3>>] = FALSE]
        /\ writer' = [writer EXCEPT ![<<d, 1>>] = IF broken' /\ @ = "open" THEN how
                                                  ELSE IF @ = "open" THEN "fin" ELSE @]
  BY DEF Leave
<1>2. /\ writer' = [writer EXCEPT ![<<d, 1>>] = IF @ = "open" THEN "fin" ELSE @]
      /\ told[in] /\ link' = link /\ copying' = copying /\ told' = told
  BY <1>1 DEF Leave
<1>3. /\ \A l \in Links : writer'[l] # "reset" /\ (writer[l] = "fin" => writer'[l] = "fin")
      /\ \A l \in Links \ {<<d, 1>>} : writer'[l] = writer[l]
  <2>1. \A l \in Links \ {<<d, 1>>} : writer'[l] = writer[l]
    BY <1>2 DEF TypeOK
  <2>2. writer'[<<d, 1>>] = "fin"
    <3> <<d, 1>> \in Links
      BY ChainFacts
    <3>1. writer[<<d, 1>>] \in {"open", "fin"}
      BY writer[<<d, 1>>] # "reset" DEF Orderly, TypeOK
    <3>2. writer'[<<d, 1>>] = IF writer[<<d, 1>>] = "open" THEN "fin" ELSE writer[<<d, 1>>]
      BY <1>2, ChainFacts DEF TypeOK
    <3>3. QED BY <3>1, <3>2
  <2>3. QED BY <2>1, <2>2 DEF Orderly
<1>4. \A o \in Stages : o \notin copying' => writer'[o] = "fin" /\ link'[o] = <<>>
  BY <1>2, <1>3, ChainFacts DEF Orderly
<1>5. \A o \in Stages : writer'[Out(o)] # "open" => o \notin copying'
  <2> SUFFICES ASSUME NEW o \in Stages, writer'[Out(o)] # "open" PROVE o \notin copying
    BY <1>2
  <2>1. Out(o) \in Links \ {<<d, 1>>}
    BY ChainFacts
  <2>2. QED BY <1>3, <2>1 DEF Orderly
<1>6. \A o \in Stages : ~reader'[Out(o)] => o \notin copying'
  <2> SUFFICES ASSUME NEW o \in Stages, ~reader'[Out(o)] PROVE o \notin copying
    BY <1>2
  <2>1. CASE Out(o) = <<in, 3>>
    <3>1. writer[Out(o)] = "fin"
      BY <1>2, <2>1 DEF Orderly
    <3>2. QED BY <3>1 DEF Orderly
  <2>2. CASE Out(o) # <<in, 3>>
    <3>1. reader'[Out(o)] = reader[Out(o)]
      BY <1>1, <2>2, ChainFacts DEF TypeOK
    <3>2. QED BY <3>1 DEF Orderly
  <2>3. QED BY <2>1, <2>2
<1>7. \A e \in Directions : told'[e] => writer'[<<e, 3>>] = "fin"
  BY <1>2, <1>3, ChainFacts DEF Orderly
<1>8. QED BY <1>2, <1>3, <1>4, <1>5, <1>6, <1>7 DEF Orderly

LEMMA OrderlyFinish ==
  ASSUME TypeOK, Orderly, NEW d \in Directions, Finish(d)
  PROVE  Orderly'
<1>1. /\ writer' = [writer EXCEPT ![<<d, 1>>] = "fin"]
      /\ reader' = reader /\ link' = link /\ copying' = copying /\ told' = told
  BY DEF Finish, pipeVars
<1>2. /\ \A l \in Links : writer'[l] # "reset" /\ (writer[l] = "fin" => writer'[l] = "fin")
      /\ \A l \in Links \ {<<d, 1>>} : writer'[l] = writer[l]
  BY <1>1, ChainFacts DEF Orderly, TypeOK
<1>3. \A o \in Stages : o \notin copying' => writer'[o] = "fin" /\ link'[o] = <<>>
  BY <1>1, <1>2, ChainFacts DEF Orderly
<1>4. \A o \in Stages : writer'[Out(o)] # "open" => o \notin copying'
  <2> SUFFICES ASSUME NEW o \in Stages, writer'[Out(o)] # "open" PROVE o \notin copying
    BY <1>1
  <2>1. Out(o) \in Links \ {<<d, 1>>}
    BY ChainFacts
  <2>2. QED BY <1>2, <2>1 DEF Orderly
<1>5. \A e \in Directions : told'[e] => writer'[<<e, 3>>] = "fin"
  BY <1>1, <1>2, ChainFacts DEF Orderly
<1>6. QED BY <1>1, <1>2, <1>3, <1>4, <1>5 DEF Orderly

LEMMA OrderlyMeetEnd ==
  ASSUME TypeOK, Orderly, NEW d \in Directions, MeetEnd(d)
  PROVE  Orderly'
<1>1. /\ writer' = writer /\ reader' = reader /\ link' = link /\ copying' = copying
      /\ told' = [told EXCEPT ![d] = TRUE] /\ writer[<<d, 3>>] = "fin"
  BY ChainFacts DEF MeetEnd, Orderly
<1>2. \A e \in Directions : told'[e] => writer[<<e, 3>>] = "fin"
  BY <1>1 DEF Orderly, TypeOK
<1>3. QED BY <1>1, <1>2 DEF Orderly

LEMMA OrderlyStep == TypeOK /\ EndedInv /\ OrderlyInv /\ [Next]_vars => OrderlyInv'
<1> SUFFICES ASSUME TypeOK, EndedInv, OrderlyInv, [Next]_vars, ~broken' PROVE Orderly'
  BY DEF OrderlyInv, Orderly
<1>1. broken => broken'
  BY DEF Next, vars, pipeVars, Join, JoinFails, LoseConnection, Stage, Copy, Eof, Fails,
         EndStage, Drop, Done, Send, Finish, Receive, MeetEnd, Leave
<1>2. ~broken /\ Orderly
  BY <1>1 DEF OrderlyInv, Orderly
<1>3. CASE UNCHANGED vars
  BY <1>2, <1>3 DEF vars, pipeVars, Orderly
<1>4. CASE Join
  BY <1>2, <1>4 DEF Join, AtJoin, pipeVars, Orderly
<1>5. CASE JoinFails \/ LoseConnection
  BY <1>5 DEF JoinFails, LoseConnection
<1>6. ASSUME NEW st \in Stages, Stage(st) PROVE Orderly'
  <2>1. ~Fails(st)
    BY <1>2, ChainFacts DEF Fails, Runs, Orderly
  <2>2. QED BY <1>2, <1>6, <2>1, OrderlyCopy, OrderlyEof DEF Stage
<1>7. ASSUME NEW k \in Nodes, Done(k) PROVE Orderly'
  BY <1>2, <1>7, OrderlyDone
<1>8. ASSUME NEW d \in Directions,
             Send(d) \/ Finish(d) \/ Receive(d) \/ MeetEnd(d) \/ Leave(d)
      PROVE  Orderly'
  BY <1>2, <1>8, OrderlySend, OrderlyFinish, OrderlyMeetEnd, OrderlyLeave
<1>9. QED
  BY <1>3, <1>4, <1>5, <1>6, <1>7, <1>8 DEF Next

LEMMA SettledCopy ==
  ASSUME TypeOK, Orderly, Settled, NEW st \in Stages, Copy(st)
  PROVE  Settled'
<1>1. UNCHANGED <<reader, copying, told, node>>
  BY DEF Copy, pipeVars
<1>2. ASSUME NEW d \in Directions, told[d] PROVE link'[<<d, 3>>] = <<>>
  <2>1. link[<<d, 3>>] = <<>> /\ writer[<<d, 3>>] = "fin" /\ <<d, 3>> \in Links
    BY <1>2, ChainFacts DEF Settled, Orderly
  <2>2. <<d, 3>> # Out(st)
    BY <2>1 DEF Orderly, Copy, MayCopy, Runs
  <2>3. <<d, 3>> # st
    BY DEF Stages
  <2>4. link'[<<d, 3>>] = link[<<d, 3>>]
    BY <2>1, <2>2, <2>3 DEF Copy, MayCopy, TypeOK
  <2>5. QED BY <2>1, <2>4
<1>3. QED BY <1>1, <1>2 DEF Settled

LEMMA SettledEnds ==
  ASSUME TypeOK, Orderly, Settled, NEW d \in Directions,
         Send(d) \/ Receive(d) \/ MeetEnd(d)
  PROVE  Settled'
<1>1. UNCHANGED <<reader, copying, node>> /\ \A e \in Directions : told[e] => told'[e]
  BY DEF Send, Receive, MeetEnd, TypeOK
<1>2. ASSUME NEW e \in Directions, told'[e] PROVE link'[<<e, 3>>] = <<>>
  <2>1. <<e, 3>> \in Links /\ <<e, 3>> # <<d, 1>>
    BY DEF Links
  <2>2. CASE Send(d)
    <3>1. link'[<<e, 3>>] = link[<<e, 3>>]
      BY <2>1, <2>2 DEF Send, TypeOK
    <3>2. QED BY <1>2, <2>2, <3>1 DEF Send, Settled
  <2>3. CASE Receive(d)
    <3>1. told[e] /\ <<e, 3>> # <<d, 3>>
      BY <1>2, <2>3 DEF Receive
    <3>2. link'[<<e, 3>>] = link[<<e, 3>>]
      BY <2>1, <2>3, <3>1 DEF Receive, TypeOK
    <3>3. QED BY <3>1, <3>2 DEF Settled
  <2>4. CASE MeetEnd(d)
    <3>1. link' = link /\ (told[e] \/ e = d)
      BY <1>2, <2>4 DEF MeetEnd, TypeOK
    <3>2. link[<<d, 3>>] = <<>>
      BY <2>4, ChainFacts DEF MeetEnd, Orderly
    <3>3. QED BY <3>1, <3>2 DEF Settled
  <2>5. QED BY <2>2, <2>3, <2>4
<1>3. QED BY <1>1, <1>2 DEF Settled

LEMMA SettledDone ==
  ASSUME TypeOK, EndedInv, Settled, NEW k \in Nodes, Done(k)
  PROVE  Settled'
<1>1. UNCHANGED <<link, told, copying>> /\ node' = [node EXCEPT ![k] = "over"]
  BY DoneIsQuiet DEF Done, Drop
<1>2. reader' = [l \in Links |-> reader[l] /\ l \notin Stopped(k)]
  BY DEF Done, Drop
<1>3. \A d \in Directions : <<d, 3>> \in Links /\ <<d, 3>> \notin Stopped(k)
  BY DEF Links, Stopped, Stages
<1>4. \A d \in Directions : reader'[<<d, 3>>] = reader[<<d, 3>>]
  BY <1>2, <1>3 DEF TypeOK
<1>5. ASSUME NEW st \in Stages, ~reader'[st] \/ node'[NodeOf(st)] = "over"
      PROVE  st \notin copying
  <2>1. CASE NodeOf(st) = k
    BY <2>1 DEF Done
  <2>2. CASE NodeOf(st) # k
    <3>1. reader'[st] = reader[st]
      BY <1>2, <2>2, ChainFacts DEF Stopped, TypeOK
    <3>2. node'[NodeOf(st)] = node[NodeOf(st)]
      BY <1>1, <2>2, ChainFacts DEF TypeOK
    <3>3. QED BY <1>5, <3>1, <3>2 DEF Settled
  <2>3. QED BY <2>1, <2>2
<1>6. QED BY <1>1, <1>4, <1>5 DEF Settled

LEMMA SettledLeave ==
  ASSUME TypeOK, Settled, NEW d \in Directions, Leave(d), ~broken'
  PROVE  Settled'
<1>1. PICK in \in Directions \ {d}, how \in {"fin", "reset"} :
        broken' = (broken \/ ~told[in]) /\ reader' = [reader EXCEPT ![<<in, 3>>] = FALSE]
  BY DEF Leave
<1>2. UNCHANGED <<link, copying, told, node>> /\ told[in]
  BY <1>1 DEF Leave
<1>3. \A st \in Stages : reader'[st] = reader[st]
  <2>1. \A st \in Stages : st \in Links /\ st # <<in, 3>>
    BY DEF Stages, Links
  <2>2. QED BY <1>1, <2>1 DEF TypeOK
<1>4. \A e \in Directions : ~reader'[<<e, 3>>] => told[e]
  <2>1. \A e \in Directions : e # in => reader'[<<e, 3>>] = reader[<<e, 3>>]
    BY <1>1, ChainFacts DEF TypeOK
  <2>2. QED BY <1>2, <2>1 DEF Settled
<1>5. QED BY <1>2, <1>3, <1>4 DEF Settled

LEMMA SettledStep ==
  TypeOK /\ EndedInv /\ OrderlyInv /\ SettledInv /\ [Next]_vars => SettledInv'
<1> SUFFICES ASSUME TypeOK, EndedInv, OrderlyInv, SettledInv, [Next]_vars, ~broken'
             PROVE  Settled'
  BY DEF SettledInv, Settled
<1>1. ~broken /\ Orderly /\ Settled
  <2>1. broken => broken'
    BY DEF Next, vars, pipeVars, Join, JoinFails, LoseConnection, Stage, Copy, Eof, Fails,
           EndStage, Drop, Done, Send, Finish, Receive, MeetEnd, Leave
  <2>2. QED BY <2>1 DEF OrderlyInv, Orderly, SettledInv, Settled
<1>2. CASE UNCHANGED vars
  BY <1>1, <1>2 DEF vars, pipeVars, Settled
<1>3. CASE Join
  <2>1. UNCHANGED <<link, reader, copying, told>>
    BY <1>3 DEF Join, AtJoin, pipeVars
  <2>2. \A k \in Nodes : node'[k] = "over" => node[k] = "over"
    BY <1>3 DEF Join, TypeOK
  <2>3. \A st \in Stages : NodeOf(st) \in Nodes
    BY DEF NodeOf, Nodes
  <2>4. QED BY <1>1, <2>1, <2>2, <2>3 DEF Settled
<1>4. CASE JoinFails \/ LoseConnection
  BY <1>4 DEF JoinFails, LoseConnection
<1>5. ASSUME NEW st \in Stages, Stage(st) PROVE Settled'
  <2>1. ~Fails(st)
    BY <1>1, ChainFacts DEF Fails, Runs, Orderly
  <2>2. CASE Eof(st)
    BY <1>1, <2>2 DEF Eof, EndStage, Settled
  <2>3. QED BY <1>1, <1>5, <2>1, <2>2, SettledCopy DEF Stage
<1>6. ASSUME NEW k \in Nodes, Done(k) PROVE Settled'
  BY <1>1, <1>6, SettledDone
<1>7. ASSUME NEW d \in Directions,
             Send(d) \/ Finish(d) \/ Receive(d) \/ MeetEnd(d) \/ Leave(d)
      PROVE  Settled'
  <2>1. CASE Finish(d)
    BY <1>1, <2>1 DEF Finish, pipeVars, Settled
  <2>2. QED BY <1>1, <1>7, <2>1, SettledEnds, SettledLeave
<1>8. QED
  BY <1>2, <1>3, <1>4, <1>5, <1>6, <1>7 DEF Next

LEMMA SplicingStep == TypeOK /\ SplicingInv /\ [Next]_vars => SplicingInv'
<1> SUFFICES ASSUME TypeOK, SplicingInv, [Next]_vars PROVE SplicingInv'
  OBVIOUS
<1>1. ASSUME NEW k \in Nodes, Drop(k) PROVE SplicingInv'
  BY <1>1 DEF Drop, SplicingInv, TypeOK, Nodes
<1>2. CASE Join
  BY <1>2 DEF Join, SplicingInv, TypeOK
<1>3. CASE JoinFails \/ \E k \in Nodes : Done(k)
  BY <1>1, <1>3 DEF JoinFails, Done, Nodes
<1>4. ASSUME NEW st \in Stages, Stage(st) PROVE SplicingInv'
  BY <1>1, <1>4 DEF Stage, Copy, Eof, Fails, EndStage, SplicingInv, Nodes
<1>5. CASE UNCHANGED node
  BY <1>5 DEF SplicingInv
<1>6. QED
  BY <1>2, <1>3, <1>4, <1>5
  DEF Next, vars, LoseConnection, Send, Finish, Receive, MeetEnd, Leave

LEMMA Invariance == Spec => []IInv
<1>1. IInv /\ [Next]_vars => IInv'
  BY TypesStep, SplicingStep, DataStep, EndedStep, OrderlyStep, SettledStep DEF IInv
<1>2. QED BY <1>1, IInvInit, PTL DEF Spec

\* Until something breaks, no item is ever left where nobody reads it any more.
THEOREM NothingIsStranded == Spec => []NothingStranded
<1>1. IInv => NothingStranded
  <2> SUFFICES ASSUME IInv, ~broken, NEW l \in Links, link[l] # <<>>
               PROVE  /\ reader[l] /\ writer[l] # "reset"
                      /\ l \in Stages => l \in copying /\ node[NodeOf(l)] # "over"
                      /\ l \notin Stages => ~told[l[1]]
    BY DEF NothingStranded
  <2>1. Orderly /\ Settled
    BY DEF IInv, OrderlyInv, Orderly, SettledInv, Settled
  <2>2. CASE l \in Stages
    BY <2>1, <2>2 DEF Orderly, Settled
  <2>3. CASE l \notin Stages
    <3>1. l[1] \in Directions /\ l = <<l[1], 3>>
      BY <2>3 DEF Links, Stages
    <3>2. QED BY <2>1, <2>3, <3>1 DEF Orderly, Settled
  <2>4. QED BY <2>2, <2>3
<1>2. QED BY <1>1, Invariance, PTL

\* Until something breaks, a direction that has something under way can move
\* unless its own sink's link is full, whatever the other direction does.
THEOREM OnlyTheSink == Spec => []OnlyTheSinkHoldsUp
<1>1. ASSUME IInv, ~broken, node["edge"] # "joining", NEW d \in Directions, NEW n \in 1 .. 2,
             link[<<d, n>>] # <<>>, ~MayCopy(<<d, n>>)
      PROVE  Len(link[<<d, n + 1>>]) = Capacity
  <2> DEFINE st == <<d, n>>
  <2>1. /\ st \in Stages /\ st \in Links /\ Out(st) = <<d, n + 1>> /\ Out(st) \in Links
        /\ NodeOf(st) \in Nodes
    BY ChainFacts DEF Stages, Out, NodeOf, Nodes
  <2>2. Orderly /\ Settled
    BY <1>1 DEF IInv, OrderlyInv, Orderly, SettledInv, Settled
  <2>3. st \in copying /\ writer[st] # "reset" /\ reader[Out(st)]
    BY <1>1, <2>1, <2>2 DEF Orderly
  <2>4. node[NodeOf(st)] = "copying"
    <3>1. node[NodeOf(st)] # "over"
      BY <2>1, <2>2, <2>3 DEF Settled
    <3>2. node[NodeOf(st)] # "joining"
      BY <1>1, <2>1 DEF IInv, SplicingInv, Nodes
    <3>3. QED BY <1>1, <2>1, <3>1, <3>2 DEF IInv, TypeOK
  <2>5. ~(Len(link[Out(st)]) < Capacity)
    BY <1>1, <2>3, <2>4 DEF MayCopy, MayWrite, Runs
  <2>6. Len(link[Out(st)]) \in Nat /\ Len(link[Out(st)]) <= Capacity
    BY <1>1, <2>1 DEF IInv, TypeOK
  <2>7. QED BY <2>1, <2>5, <2>6, BoundsAssumption
<1>2. IInv => OnlyTheSinkHoldsUp
  <2> SUFFICES ASSUME IInv, NEW d \in Directions, ~broken, node["edge"] # "joining",
                      \E n \in 1 .. 2 : link[<<d, n>>] # <<>>,
                      \A n \in 1 .. 2 : ~MayCopy(<<d, n>>)
               PROVE  Len(link[<<d, 3>>]) = Capacity
    BY DEF OnlyTheSinkHoldsUp
  <2>1. \A n \in 1 .. 2 : link[<<d, n>>] # <<>> => Len(link[<<d, n + 1>>]) = Capacity
    BY <1>1
  <2>2. 1 \in 1 .. 2 /\ 2 \in 1 .. 2 /\ 1 + 1 = 2 /\ 2 + 1 = 3
    OBVIOUS
  <2>3. link[<<d, 2>>] # <<>>
    <3>1. CASE link[<<d, 1>>] # <<>>
      <4>1. Len(link[<<d, 2>>]) = Capacity
        BY <2>1, <2>2, <3>1
      <4>2. QED BY <4>1, BoundsAssumption
    <3>2. CASE link[<<d, 1>>] = <<>>
      BY <3>2, \A n \in 1 .. 2 : n = 1 \/ n = 2
    <3>3. QED BY <3>1, <3>2
  <2>4. QED BY <2>1, <2>2, <2>3
<1>3. QED BY <1>2, Invariance, PTL
------------------------------------------------------------------------------
(***************************************************************************)
(* The refinement: what the ends do is what the ends of a pipe do, a fault *)
(* is a fault, and what edge and target do in between is not seen.         *)
(***************************************************************************)

Closed == [d \in Directions |-> writer[<<d, 1>>] # "open"]

\* A stage never writes to the link a source writes to.
LEMMA InsideUnseen ==
  ASSUME IInv, [Next]_vars, ~(\E d \in Directions : Send(d) \/ Finish(d) \/ Receive(d)
                                                    \/ MeetEnd(d) \/ Leave(d)),
         ~JoinFails, ~LoseConnection
  PROVE  UNCHANGED <<sent, got, Closed, told, broken>>
<1>1. ASSUME NEW k \in Nodes, Drop(k) PROVE Closed' = Closed
  <2>1. \A d \in Directions : <<d, 1>> \in Links /\ <<d, 1>> \notin Finished(k)
    <3> SUFFICES ASSUME NEW d \in Directions, NEW st \in Stages, Out(st) = <<d, 1>> PROVE FALSE
      BY ChainFacts DEF Finished, Stopped
    <3>1. QED BY ChainFacts
  <2>2. \A d \in Directions : writer'[<<d, 1>>] = writer[<<d, 1>>]
    BY <1>1, <2>1 DEF Drop
  <2>3. QED BY <2>2 DEF Closed
<1>2. ASSUME NEW st \in Stages, EndStage(st) PROVE Closed' = Closed
  <2>1. \A d \in Directions : writer'[<<d, 1>>] = writer[<<d, 1>>]
    BY <1>2, ChainFacts DEF EndStage, IInv, TypeOK
  <2>2. QED BY <2>1 DEF Closed
<1>3. CASE UNCHANGED vars
  BY <1>3 DEF vars, pipeVars, Closed
<1>4. CASE Join
  BY <1>4 DEF Join, pipeVars, Closed
<1>5. ASSUME NEW st \in Stages, Stage(st)
      PROVE  UNCHANGED <<sent, got, Closed, told, broken>>
  <2>1. CASE Copy(st)
    BY <2>1 DEF Copy, pipeVars, Closed
  <2>2. CASE Eof(st)
    BY <1>2, <2>2 DEF Eof, EndStage
  <2>3. CASE Fails(st)
    BY <1>1, <1>2, <2>3 DEF Fails, EndStage, Drop, Nodes
  <2>4. QED BY <1>5, <2>1, <2>2, <2>3 DEF Stage
<1>6. ASSUME NEW k \in Nodes, Done(k)
      PROVE  UNCHANGED <<sent, got, Closed, told, broken>>
  BY <1>1, <1>6 DEF Done, Drop
<1>7. QED BY <1>3, <1>4, <1>5, <1>6 DEF Next

\* A step that breaks the pipe reopens no direction.
LEMMA FaultBreaks ==
  ASSUME IInv, broken' = TRUE, UNCHANGED <<sent, got, told>>,
         \A d \in Directions : writer[<<d, 1>>] # "open" => writer'[<<d, 1>>] # "open"
  PROVE  Pipe!Break
<1>1. Closed' \in [Directions -> BOOLEAN]
  BY DEF Closed
<1>2. \A d \in Directions : Closed[d] => Closed'[d]
  BY DEF Closed
<1>3. QED BY <1>1, <1>2 DEF Pipe!Break, Closed

\* Told of the end while nothing has broken, a sink has got all there was.
LEMMA EndIsLast ==
  ASSUME IInv, NEW d \in Directions, MeetEnd(d), ~broken
  PROVE  writer[<<d, 1>>] # "open" /\ Len(got[d]) = sent[d]
<1>1. Orderly
  BY DEF IInv, OrderlyInv, Orderly
<1>2. writer[<<d, 3>>] = "fin" /\ link[<<d, 3>>] = <<>>
  BY <1>1, ChainFacts DEF MeetEnd, Orderly
<1>3. writer[<<d, 2>>] = "fin" /\ link[<<d, 2>>] = <<>>
  BY <1>1, <1>2, ChainFacts DEF Orderly
<1>4. writer[<<d, 1>>] = "fin" /\ link[<<d, 1>>] = <<>>
  BY <1>1, <1>3, ChainFacts DEF Orderly
<1>5. Len(got[d]) = sent[d]
  <2>1. sent[d] = Len(got[d]) + Len(link[<<d, 3>>]) + Len(link[<<d, 2>>]) + Len(link[<<d, 1>>])
    BY DEF IInv, DataInv, Line
  <2>2. Len(got[d]) \in Nat
    BY DEF IInv, TypeOK
  <2>3. QED BY <1>2, <1>3, <1>4, <2>1, <2>2
<1>6. QED BY <1>4, <1>5

LEMMA EndsSimulate ==
  ASSUME IInv, NEW d \in Directions,
         Send(d) \/ Finish(d) \/ Receive(d) \/ MeetEnd(d) \/ Leave(d)
  PROVE  Pipe!Next
<1>0. TypeOK /\ <<d, 1>> \in Links /\ <<d, 3>> \in Links
  BY ChainFacts DEF IInv
<1>1. CASE Send(d)
  <2>1. Pipe!Send(d)
    BY <1>1 DEF Send, Pipe!Send
  <2>2. QED BY <2>1 DEF Pipe!Next
<1>2. CASE Finish(d)
  <2>1. Closed' = [Closed EXCEPT ![d] = TRUE]
    BY <1>0, <1>2, ChainFacts DEF Finish, Closed, TypeOK
  <2>2. Pipe!Close(d)
    BY <1>2, <2>1 DEF Finish, pipeVars, Pipe!Close, Closed
  <2>3. QED BY <2>2 DEF Pipe!Next
<1>3. CASE Receive(d)
  <2>1. Head(link[<<d, 3>>]) = Len(got[d]) + 1 /\ Len(got[d]) < sent[d]
    BY <1>0, <1>3, FrontItem DEF IInv, Receive
  <2>2. got' = [got EXCEPT ![d] = Append(@, Len(@) + 1)]
    BY <1>3, <2>1 DEF Receive
  <2>3. Pipe!Deliver(d)
    BY <1>3, <2>1, <2>2 DEF Receive, Pipe!Deliver
  <2>4. QED BY <2>3 DEF Pipe!Next
<1>4. CASE MeetEnd(d)
  <2>1. broken \/ (Closed[d] /\ Len(got[d]) = sent[d])
    BY <1>4, EndIsLast DEF Closed, IInv, TypeOK
  <2>2. Pipe!TellEnd(d)
    BY <1>4, <2>1 DEF MeetEnd, Pipe!TellEnd, Closed
  <2>3. QED BY <2>2 DEF Pipe!Next
<1>5. CASE Leave(d) /\ broken'
  <2>1. broken' = TRUE
    BY <1>0, <1>5 DEF Leave, TypeOK
  <2>2. \A e \in Directions : writer[<<e, 1>>] # "open" => writer'[<<e, 1>>] # "open"
    BY <1>0, <1>5, ChainFacts DEF Leave, TypeOK
  <2>3. Pipe!Break
    BY <1>5, <2>1, <2>2, FaultBreaks DEF Leave
  <2>4. QED BY <2>3 DEF Pipe!Next
<1>6. CASE Leave(d) /\ ~broken'
  <2>1. ~broken /\ Orderly
    BY <1>6 DEF Leave, IInv, OrderlyInv, Orderly
  <2>2. writer' = [writer EXCEPT ![<<d, 1>>] = IF @ = "open" THEN "fin" ELSE @]
    BY <1>0, <1>6, <2>1, OrderlyLeave
  <2>3. Closed' = [Closed EXCEPT ![d] = TRUE]
    BY <1>0, <2>2, ChainFacts DEF Closed, TypeOK
  <2>4. Pipe!Close(d)
    BY <1>0, <1>6, <2>1, <2>3 DEF Leave, Pipe!Close, Closed, TypeOK
  <2>5. QED BY <2>4 DEF Pipe!Next
<1>7. QED BY <1>1, <1>2, <1>3, <1>4, <1>5, <1>6

LEMMA StepSimulates == IInv /\ [Next]_vars => [Pipe!Next]_(Pipe!vars)
<1> SUFFICES ASSUME IInv, [Next]_vars PROVE [Pipe!Next]_(Pipe!vars)
  OBVIOUS
<1>1. CASE \E d \in Directions : Send(d) \/ Finish(d) \/ Receive(d) \/ MeetEnd(d) \/ Leave(d)
  BY <1>1, EndsSimulate
<1>2. CASE JoinFails
  <2>1. \A d \in Directions : writer[<<d, 1>>] # "open" => writer'[<<d, 1>>] # "open"
    BY <1>2, ChainFacts DEF JoinFails, Drop
  <2>2. Pipe!Break
    BY <1>2, <2>1, FaultBreaks DEF JoinFails, Drop
  <2>3. QED BY <2>2 DEF Pipe!Next
<1>3. CASE LoseConnection
  <2>1. \A d \in Directions : writer[<<d, 1>>] # "open" => writer'[<<d, 1>>] # "open"
    BY <1>3, ChainFacts DEF LoseConnection
  <2>2. Pipe!Break
    BY <1>3, <2>1, FaultBreaks DEF LoseConnection
  <2>3. QED BY <2>2 DEF Pipe!Next
<1>4. CASE /\ ~(\E d \in Directions : Send(d) \/ Finish(d) \/ Receive(d)
                                      \/ MeetEnd(d) \/ Leave(d))
           /\ ~JoinFails /\ ~LoseConnection
  BY <1>4, InsideUnseen DEF Pipe!vars, Closed
<1>5. QED BY <1>1, <1>2, <1>3, <1>4

\* The edge, the stream and the target together are one pipe in each
\* direction: for any number of items and links of any capacity, and however
\* the copies, the half-closes, the faults and the join of the two upgrades
\* interleave, nothing is reordered, doubled or made up, and unless something
\* breaks nothing is lost before an end.
THEOREM ImplementsPipe == Spec => KeepsPipe
<1>1. Init => Pipe!Init
  BY ChainFacts DEF Init, Pipe!Init
<1>2. QED
  BY <1>1, StepSimulates, Invariance, PTL DEF Spec, KeepsPipe, Pipe!Spec

Promise == INSTANCE DuplexPipeProofs WITH closed <- Closed

\* So the chain inherits what follows from the pipe: an end has a prefix of
\* what the other sent, unless something breaks the whole of it once it is told
\* of the end, and nothing after that.
THEOREM EndsHold ==
  Spec => [](Promise!InOrder /\ Promise!EndIsComplete) /\ Promise!NothingAfterEnd
<1>1. Pipe!Init <=> Promise!Init
  BY DEF Pipe!Init, Promise!Init, Closed
<1>2. [Pipe!Next]_(Pipe!vars) <=> [Promise!Next]_(Promise!vars)
  BY DEF Pipe!Next, Pipe!vars, Pipe!Send, Pipe!Close, Pipe!Deliver, Pipe!TellEnd, Pipe!Break,
         Promise!Next, Promise!vars, Promise!Send, Promise!Close, Promise!Deliver,
         Promise!TellEnd, Promise!Break, Closed
<1>3. KeepsPipe => Promise!Spec
  BY <1>1, <1>2, PTL DEF KeepsPipe, Pipe!Spec, Promise!Spec
<1>4. Promise!Spec => [](Promise!InOrder /\ Promise!EndIsComplete)
  BY Promise!PipeDelivers
<1>5. Promise!Spec => Promise!NothingAfterEnd
  BY Promise!EndIsFinal
<1>6. QED BY <1>3, <1>4, <1>5, ImplementsPipe
==============================================================================
