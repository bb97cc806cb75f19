---------------------------- MODULE FileServeProofs ----------------------------
(***************************************************************************)
(* Proofs about FileServe: that an answer fits what was at the path while  *)
(* the request was served, that a file which is cut while it is sent is    *)
(* not taken for complete, that each step brings a request's end closer,   *)
(* and that links lead where they are listed, for any tree, URLs and files *)
(* of any length, whatever is done to the tree meanwhile.                  *)
(***************************************************************************)
EXTENDS FileServe, SequenceTheorems, TLAPS

PathUrl == [parts : Parts, slash : BOOLEAN]

\* What a call may find.
Found == {"none", "file", "dir", "out"}
------------------------------------------------------------------------------
(* Canonical paths. *)

\* The path that links under the root make of p, and one that leads outside.
Followed(p) == IF p # <<>> /\ <<Head(p)>> \in Places /\ fs[<<Head(p)>>] = "in"
               THEN LinkTo \o Tail(p) ELSE p
Barred(p)   == \E o \in Places : IsPrefix(o, p) /\ fs[o] = "out"

LEMMA CanonicalIs ==
  ASSUME NEW p
  PROVE  Canonical(p) = IF Barred(Followed(p)) THEN Nowhere ELSE Followed(p)
BY DEF Canonical, Followed, Barred

LEMMA PathFacts ==
  /\ \A p \in Places : p \in Parts /\ p \in Seq(Names) /\ p # <<>> /\ p # Nowhere
  /\ LinkTo \in Places /\ LinkTo = <<Head(LinkTo)>>
  /\ Nowhere # <<>> /\ <<>> \in Parts /\ <<>> \notin Places
<1>1. ASSUME NEW p \in Places PROVE p \in Parts /\ p \in Seq(Names) /\ p # <<>> /\ p # Nowhere
  <2>1. p \in Seq(Names) /\ p # <<>>
    BY PlacesAssumption
  <2>2. p \in Parts
    BY <2>1 DEF Parts
  <2>3. p[1] \in Names
    BY <2>1
  <2>4. Nowhere[1] = "nowhere"
    BY DEF Nowhere
  <2>5. QED BY <2>1, <2>2, <2>3, <2>4, PlacesAssumption
<1>2. LinkTo \in Places /\ LinkTo = <<Head(LinkTo)>>
  BY <1>1, LinkToAssumption
<1>3. Nowhere # <<>> /\ <<>> \in Parts /\ <<>> \notin Places
  BY <1>1 DEF Nowhere, Parts
<1>4. QED BY <1>1, <1>2, <1>3

\* The first of a path that begins where links lead.
LEMMA BehindLink ==
  ASSUME NEW t \in Parts
  PROVE  LinkTo \o t # <<>> /\ <<Head(LinkTo \o t)>> = LinkTo
<1>1. LinkTo \in Parts /\ LinkTo # <<>> /\ LinkTo = <<Head(LinkTo)>>
  BY PathFacts
<1>2. LinkTo \o t # <<>> /\ Head(LinkTo \o t) = Head(LinkTo)
  BY <1>1 DEF Parts
<1>3. QED BY <1>1, <1>2

\* Links do not lead to links.
LEMMA FollowedTwice ==
  ASSUME Tree(fs), NEW p \in Parts
  PROVE  Followed(Followed(p)) = Followed(p)
<1>1. CASE Followed(p) = p
  BY <1>1
<1>2. CASE Followed(p) # p
  <2>1. p # <<>> /\ Followed(p) = LinkTo \o Tail(p)
    BY <1>2 DEF Followed
  <2>2. Tail(p) \in Parts
    BY <2>1 DEF Parts
  <2>3. fs[LinkTo] # "in"
    BY PathFacts DEF Tree
  <2>4. <<Head(Followed(p))>> = LinkTo
    BY <2>1, <2>2, BehindLink
  <2>5. QED BY <2>3, <2>4 DEF Followed
<1>3. QED BY <1>1, <1>2

\* A canonical path is its own.
LEMMA CanonicalTwice ==
  ASSUME Tree(fs), NEW p \in Parts, Canonical(p) # Nowhere
  PROVE  Canonical(Canonical(p)) = Canonical(p)
<1>1. Canonical(p) = Followed(p) /\ ~Barred(Followed(p))
  BY CanonicalIs
<1>2. QED BY <1>1, FollowedTwice, CanonicalIs

\* No call finds a link that stays under the root, and none finds one that does
\* not at a path under the root.
LEMMA CanonicalKind ==
  ASSUME Tree(fs), fs \in [Places -> Entries], root \in {"dir", "file"}, there \in BOOLEAN,
         NEW p \in Parts
  PROVE  /\ KindAt(Canonical(p)) \in Found
         /\ Canonical(p) # Nowhere => KindAt(Canonical(p)) # "out"
<1> DEFINE q == Followed(p)
<1>1. CASE Canonical(p) = Nowhere
  <2>1. Nowhere # <<>> /\ Nowhere \notin Places
    BY PathFacts
  <2>2. QED BY <1>1, <2>1 DEF KindAt, Found
<1>2. CASE Canonical(p) # Nowhere
  <2>1. Canonical(p) = q /\ ~Barred(q)
    BY <1>2, CanonicalIs
  <2>2. ASSUME q \in Places PROVE fs[q] # "out"
    BY <2>1, <2>2, PathFacts DEF Barred, IsPrefix
  <2>3. ASSUME q \in Places PROVE fs[q] # "in"
    <3> SUFFICES ASSUME fs[q] = "in" PROVE FALSE
      OBVIOUS
    <3>1. Len(q) = 1 /\ q # LinkTo
      BY <2>3 DEF Tree
    <3>2. q \in Parts /\ q = <<Head(q)>>
      BY <2>3, <3>1, PathFacts DEF Parts
    <3>3. Followed(q) = q
      BY FollowedTwice
    <3>4. Followed(q) = LinkTo \o Tail(q)
      BY <2>3, <3>2, PathFacts DEF Followed
    <3>5. <<Head(Followed(q))>> = LinkTo
      <4>1. Tail(q) \in Parts
        BY <2>3, <3>2, PathFacts DEF Parts
      <4>2. QED BY <3>4, <4>1, BehindLink
    <3>6. QED BY <3>1, <3>2, <3>3, <3>5
  <2>4. q \in Places => fs[q] \in {"none", "file", "dir"}
    BY <2>2, <2>3 DEF Entries
  <2> HIDE DEF q
  <2>5. q # Nowhere
    BY <1>2, <2>1
  <2>6. KindAt(q) \in {"none", "file", "dir"}
    BY <2>4, <2>5, PathFacts DEF KindAt
  <2>7. QED BY <2>1, <2>6 DEF Found
<1>3. QED BY <1>1, <1>2
------------------------------------------------------------------------------
(* Types, and the shape of the tree. *)

FileInv == TypeOK /\ Tree(fs)

\* What no request does.
Others == UNCHANGED <<root, phase, denied, reqVars>>

LEMMA FrontType ==
  ASSUME NEW S, NEW s \in Seq(S)
  PROVE  Front(s) \in Seq(S)
<1>1. CASE s = <<>>
  BY <1>1 DEF Front
<1>2. CASE s # <<>>
  BY <1>2 DEF Front
<1>3. QED BY <1>1, <1>2

LEMMA BaseType ==
  ASSUME NEW u \in PathUrl
  PROVE  Base(u) \in Parts /\ (Base(u) # <<>> => Front(Base(u)) \in Parts)
BY FrontType DEF Base, PathUrl, Parts

LEMMA SoughtKind ==
  ASSUME FileInv, NEW parts \in Parts
  PROVE  Sought(parts) \in Found
BY CanonicalKind DEF FileInv, TypeOK, Sought, Found

\* What the tree's user may change, and Here reads.
Shape ==
  /\ root \in {"dir", "file"} /\ there \in BOOLEAN
  /\ fs \in [Places -> Entries] /\ Tree(fs)
  /\ url \in PathUrl /\ place \in Places \cup {<<>>}

LEMMA HereKind == Shape => Here \in Found
<1> SUFFICES ASSUME Shape PROVE Here \in Found
  OBVIOUS
<1>1. place \in Parts /\ url.parts \in Parts
  BY PathFacts DEF Shape, PathUrl
<1>2. \A p \in Parts : KindAt(Canonical(p)) \in Found
  BY CanonicalKind DEF Shape
<1>3. QED BY <1>1, <1>2 DEF Here, Sought, Found

LEMMA HereKindNext == (Shape => Here \in Found)'
BY HereKind, PTL

LEMMA NoTreeIsTree == NoTree \in [Places -> Entries] /\ Tree(NoTree)
BY DEF NoTree, Tree, Entries

LEMMA FileInit == Init => FileInv
<1> SUFFICES ASSUME Init PROVE FileInv
  OBVIOUS
<1>1. url \in PathUrl
  BY PathFacts DEF Init, Start, PathUrl
<1>2. DOMAIN page = {} /\ Range(page) = {}
  BY DEF Init, Range
<1>3. {ahead, owed} \subseteq 0 .. MaxAhead
  BY MaxAheadAssumption DEF Init
<1>4. QED
  BY <1>1, <1>2, <1>3 DEF Init, FileInv, TypeOK, PathUrl, Phases, Answers

LEMMA AskType ==
  ASSUME FileInv, NEW u \in PathUrl, NEW m \in {"GET", "HEAD", "POST"}, Ask(u, m),
         bare' \in {"no", "typed", "link", "unread", "since"}
  PROVE  FileInv'
<1>1. kinds' \subseteq Found
  BY SoughtKind DEF Ask, PathUrl
<1>2. DOMAIN page' = {} /\ Range(page') = {}
  BY DEF Ask, Range
<1>3. QED
  BY <1>1, <1>2 DEF Ask, FileInv, TypeOK, PathUrl, Found, Phases, Answers

LEMMA TreeType ==
  ASSUME FileInv, Others, cut' \in BOOLEAN, Witness, there' \in BOOLEAN,
         fs' \in [Places -> Entries], Tree(fs')
  PROVE  FileInv'
<1>1. Shape'
  BY DEF Others, reqVars, FileInv, TypeOK, PathUrl, Shape
<1>2. Here' \in Found
  BY <1>1, HereKindNext
<1>3. kinds' \subseteq Found
  BY <1>2 DEF Witness, FileInv, TypeOK, Found
<1>4. bare' \in {"no", "typed", "link", "unread", "since"}
  BY DEF Witness, FileInv, TypeOK
<1>5. QED
  BY <1>1, <1>3, <1>4 DEF Others, reqVars, FileInv, TypeOK, PathUrl, Found, Shape

LEMMA TellType ==
  ASSUME FileInv, NEW what \in Answers, Tell(what), UNCHANGED <<root, there, fs, kinds>>,
         denied' \in BOOLEAN, cut' \in BOOLEAN
  PROVE  FileInv'
<1>1. DOMAIN page' = {} /\ Range(page') = {}
  BY DEF Tell, Blank, Range
<1>2. {ahead', owed'} \subseteq 0 .. MaxAhead
  BY MaxAheadAssumption DEF Tell, Blank
<1>3. url' \in PathUrl
  BY PathFacts DEF Tell, Start, PathUrl
<1>4. QED
  BY <1>1, <1>2, <1>3 DEF Tell, Blank, FileInv, TypeOK, PathUrl, Phases

LEMMA HandleType ==
  ASSUME FileInv, Handle
  PROVE  FileInv'
<1>1. CASE Resolve
  <2>1. place' \in Places \cup {<<>>}
    BY <1>1 DEF Resolve, Tell, Blank, FileInv, TypeOK, KindAt, InRoot
  <2>2. phase' \in Phases /\ answer' \in Answers
    BY <1>1 DEF Resolve, Tell, FileInv, TypeOK, Phases, Answers
  <2>3. CASE \E what \in Answers : Tell(what)
    BY <1>1, <2>2, <2>3, TellType DEF Resolve, Fails, FileInv, TypeOK
  <2>4. CASE phase' = "isDir"
    BY <1>1, <2>1, <2>2, <2>4 DEF Resolve, Tell, FileInv, TypeOK
  <2>5. QED BY <1>1, <2>3, <2>4 DEF Resolve, Answers
<1>2. CASE IsDir
  <2>1. denied' \in BOOLEAN /\ phase' \in Phases
    BY <1>2 DEF IsDir, Fails, FileInv, TypeOK, Phases
  <2>2. UNCHANGED <<root, there, fs, kinds, cut, bare, reqVars>>
    BY <1>2 DEF IsDir
  <2>3. QED BY <2>1, <2>2 DEF reqVars, FileInv, TypeOK
<1>3. CASE List
  <2>1. CASE \E what \in Answers : Tell(what)
    BY <1>3, <2>1, TellType DEF List, Fails, FileInv, TypeOK
  <2>2. CASE phase' = "idle" /\ answer' = "listing" /\ UNCHANGED <<page, url, method, place,
               opened, ahead, owed, measured, denied, bare>>
    BY <1>3, <2>2 DEF List, FileInv, TypeOK, Phases, Answers
  <2>3. ASSUME NEW dir, NEW unread, phase' = "idle" /\ answer' = "listing",
               page' = [n \in Listed(dir) |-> IF n \in unread THEN "unread" ELSE fs[dir \o <<n>>]],
               UNCHANGED <<url, method, place, opened, ahead, owed, measured, denied, bare>>
        PROVE  FileInv'
    <3>1. \A n \in Listed(dir) : page'[n] \in (Entries \ {"none"}) \cup {"unread"}
      BY <2>3 DEF Listed, FileInv, TypeOK
    <3>2. DOMAIN page' = Listed(dir) /\ Listed(dir) \subseteq Names
      BY <2>3 DEF Listed
    <3>3. Range(page') \subseteq (Entries \ {"none"}) \cup {"unread"}
      BY <3>1, <3>2 DEF Range
    <3>4. QED BY <1>3, <2>3, <3>2, <3>3 DEF List, FileInv, TypeOK, Phases, Answers
  <2>4. QED BY <1>3, <2>1, <2>2, <2>3 DEF List, Answers
<1>4. CASE Open
  <2>1. CASE \E what \in Answers : Tell(what)
    BY <1>4, <2>1, TellType DEF Open, Fails, FileInv, TypeOK
  <2>2. CASE phase' = "stat"
    <3>1. Here \in Found
      BY HereKind DEF Shape, FileInv, TypeOK, PathUrl
    <3>2. opened' \in {"file", "dir"}
      BY <1>4, <2>2, <3>1 DEF Open, Tell, Found
    <3>3. /\ ahead' \in 0 .. MaxAhead /\ url' = Start /\ place' = <<>> /\ bare' = "no"
          /\ UNCHANGED <<method, owed, measured, answer, page, denied>>
      BY <1>4, <2>2 DEF Open, Tell
    <3>4. url' \in PathUrl
      BY <3>3, PathFacts DEF Start, PathUrl
    <3>5. QED
      BY <1>4, <2>2, <3>2, <3>3, <3>4 DEF Open, FileInv, TypeOK, PathUrl, Phases
  <2>3. QED BY <1>4, <2>1, <2>2 DEF Open, Answers
<1>5. CASE Stat
  <2>1. CASE \E what \in Answers : Tell(what)
    BY <1>5, <2>1, TellType DEF Stat, FileInv, TypeOK
  <2>2. CASE phase' = "stream"
    <3>1. owed' \in 0 .. MaxAhead
      BY <1>5, <2>2, MaxAheadAssumption DEF Stat, Tell, FileInv, TypeOK
    <3>2. QED BY <1>5, <2>2, <3>1 DEF Stat, Tell, FileInv, TypeOK, Phases
  <2>3. QED BY <1>5, <2>1, <2>2 DEF Stat, Answers
<1>6. CASE Stream
  <2>1. CASE \E what \in Answers : Tell(what)
    BY <1>6, <2>1, TellType DEF Stream, FileInv, TypeOK
  <2>2. CASE /\ ~AllSent /\ ~CutShort /\ ahead' = ahead - 1
             /\ owed' = IF owed > 0 THEN owed - 1 ELSE 0
             /\ UNCHANGED <<phase, url, method, place, opened, measured, answer, page, bare>>
    <3>1. {ahead', owed'} \subseteq 0 .. MaxAhead
      BY <2>2, MaxAheadAssumption DEF CutShort, FileInv, TypeOK
    <3>2. QED BY <1>6, <2>2, <3>1 DEF Stream, FileInv, TypeOK
  <2>3. QED BY <1>6, <2>1, <2>2 DEF Stream, Answers
<1>7. QED BY <1>1, <1>2, <1>3, <1>4, <1>5, <1>6 DEF Handle, Calls

LEMMA FileStep == FileInv /\ [Next]_vars => FileInv'
<1> SUFFICES ASSUME FileInv, [Next]_vars PROVE FileInv'
  OBVIOUS
<1>1. CASE UNCHANGED vars
  BY <1>1 DEF vars, reqVars, FileInv, TypeOK, Tree
<1>2. CASE Type
  <2>1. PICK u \in Typed, m \in {"GET", "HEAD", "POST"} :
          Ask(u, m) /\ bare' = IF u.slash THEN "no" ELSE "typed"
    BY <1>2 DEF Type
  <2>2. QED BY <2>1, AskType, TypedAssumption DEF PathUrl
<1>3. CASE Click
  <2>1. PICK n \in DOMAIN page :
          Ask(LinkUrl(n), "GET") /\ bare' = IF bare = "no" THEN BareLink(n) ELSE bare
    BY <1>3 DEF Click
  <2>2. LinkUrl(n) \in PathUrl
    <3>1. n \in Names /\ Base(url) \in Parts
      BY BaseType DEF FileInv, TypeOK, PathUrl
    <3>2. Base(url) \o <<n>> \in Parts
      BY <3>1 DEF Parts
    <3>3. QED BY <3>2 DEF LinkUrl, ListedAsDir, PathUrl
  <2>3. bare' \in {"no", "typed", "link", "unread", "since"}
    BY <2>1 DEF BareLink, FileInv, TypeOK
  <2>4. QED BY <2>1, <2>2, <2>3, AskType
<1>4. CASE ClickUp
  <2>1. (IF Base(url) = <<>> THEN <<>> ELSE Front(Base(url))) \in Parts
    BY BaseType, PathFacts DEF FileInv, TypeOK, PathUrl
  <2>2. QED BY <1>4, <2>1, AskType DEF ClickUp, PathUrl
<1>5. CASE GiveUp
  BY <1>5, TellType DEF GiveUp, Answers, FileInv, TypeOK
<1>6. CASE PutRoot
  BY <1>6, TreeType, NoTreeIsTree DEF PutRoot, Others, FileInv, TypeOK
<1>7. CASE Resize
  BY <1>7 DEF Resize, FileInv, TypeOK
<1>8. ASSUME NEW p \in Places, NEW what \in Entries, Put(p, what) PROVE FileInv'
  <2>1. fs' \in [Places -> Entries]
    BY <1>8 DEF Put, FileInv, TypeOK, Entries
  <2>2. Others /\ cut' \in BOOLEAN /\ Witness /\ there' \in BOOLEAN /\ Tree(fs')
    BY <1>8 DEF Put, Others, FileInv, TypeOK
  <2>3. QED BY <2>1, <2>2, TreeType
<1>9. QED
  BY <1>1, <1>2, <1>3, <1>4, <1>5, <1>6, <1>7, <1>8, HandleType DEF Next

\* Types: what resolve returns is in the tree, whatever was asked for.
THEOREM FileTypes == Spec => []TypeOK
<1>1. FileInv => TypeOK
  BY DEF FileInv
<1>2. QED BY <1>1, FileInit, FileStep, PTL DEF Spec
------------------------------------------------------------------------------
(***************************************************************************)
(* The inductive invariant for what was seen.  Until its file is open,     *)
(* what a request's next call is about is among what has been at its path; *)
(* and a request past resolve, past is_dir and past open has seen what     *)
(* sent it there, or a call of it was denied.                              *)
(***************************************************************************)

OnPath == {"resolve", "isDir", "list", "open"}

SeenInv ==
  /\ phase # "idle" => answer = "none" /\ page = <<>>
  /\ phase \in OnPath => Here \in kinds
  /\ phase = "list" => kinds \cap {"dir", "out"} # {}
  /\ phase \notin {"idle", "resolve"} => kinds \cap {"file", "dir"} # {}
  /\ phase \in {"open", "stat", "stream"} => denied \/ \E k \in kinds : k # "dir"

\* A path means the same in a tree that stays as it is.
LEMMA SameTree ==
  ASSUME UNCHANGED <<root, there, fs>>
  PROVE  /\ Sought(url.parts)' = Sought(url'.parts)
         /\ KindAt(Canonical(place))' = KindAt(Canonical(place'))
BY DEF Sought, RootIsFile, KindAt, Canonical

\* After resolve the path is canonical, and means what was asked for.
LEMMA ResolveHere ==
  ASSUME FileInv, Resolve, phase' = "isDir"
  PROVE  /\ Here' = Here
         /\ Here \in {"file", "dir"}
<1> DEFINE p == IF RootIsFile THEN <<>> ELSE Canonical(url.parts)
<1>1. /\ phase = "resolve" /\ place' = p /\ UNCHANGED <<root, there, fs>>
      /\ ~RootIsFile => ".." \notin Range(url.parts)
      /\ KindAt(p) # "none" /\ p # Nowhere
  BY DEF Resolve, Tell, InRoot
<1>2. Here = Sought(url.parts) /\ Here' = KindAt(Canonical(p))
  <2>1. Here' = KindAt(Canonical(place))'
    BY DEF Here
  <2>2. QED BY <1>1, <2>1, SameTree DEF Here
<1>3. url.parts \in Parts /\ <<>> \in Parts
  BY PathFacts DEF FileInv, TypeOK
<1>4. CASE RootIsFile
  <2>1. Canonical(<<>>) = <<>>
    <3>1. Followed(<<>>) = <<>>
      BY DEF Followed
    <3>2. ~Barred(<<>>)
      <4>1. \A o \in Places : Len(o) > 0
        BY PathFacts
      <4>2. QED BY <4>1 DEF Barred, IsPrefix
    <3>3. QED BY <3>1, <3>2, CanonicalIs
  <2>2. KindAt(<<>>) = "file"
    BY <1>4, PathFacts DEF RootIsFile, KindAt
  <2>3. QED BY <1>2, <1>4, <2>1, <2>2 DEF Sought
<1>5. CASE ~RootIsFile
  <2>1. p = Canonical(url.parts) /\ Canonical(p) = p
    BY <1>1, <1>3, <1>5, CanonicalTwice DEF FileInv
  <2>2. Here' = KindAt(p) /\ Here = KindAt(p)
    BY <1>1, <1>2, <1>5, <2>1 DEF Sought
  <2>3. KindAt(p) \in Found /\ KindAt(p) # "out"
    BY <1>1, <1>3, <2>1, CanonicalKind DEF FileInv, TypeOK
  <2>4. QED BY <1>1, <2>2, <2>3 DEF Found
<1>6. QED BY <1>4, <1>5

\* A path that does not resolve, though no call was denied.
LEMMA ResolveFails ==
  ASSUME FileInv, Resolve, Tell("notFound"), method # "POST", ~denied'
  PROVE  Here \in {"none", "out"}
<1> DEFINE p == IF RootIsFile THEN <<>> ELSE Canonical(url.parts)
           found == /\ ~RootIsFile => ".." \notin Range(url.parts)
                    /\ KindAt(p) # "none" /\ InRoot(p)
<1>1. phase = "resolve" /\ Fails(found)
  BY DEF Resolve, Tell
<1>2. ~found /\ Here = Sought(url.parts)
  BY <1>1 DEF Fails, Here
<1>3. ~RootIsFile
  <2> SUFFICES ASSUME RootIsFile PROVE found
    BY <1>2
  <2>1. QED BY PathFacts DEF RootIsFile, KindAt, InRoot
<1>4. CASE ".." \in Range(url.parts)
  BY <1>2, <1>3, <1>4 DEF Sought
<1>5. CASE ".." \notin Range(url.parts)
  <2>1. Here = KindAt(Canonical(url.parts))
    BY <1>2, <1>3, <1>5 DEF Sought
  <2>2. KindAt(Canonical(url.parts)) = "none" \/ Canonical(url.parts) = Nowhere
    BY <1>2, <1>3, <1>5 DEF InRoot
  <2>3. KindAt(Nowhere) \in {"none", "out"}
    BY <1>3, PathFacts DEF KindAt, RootIsFile, FileInv, TypeOK
  <2>4. QED BY <2>1, <2>2, <2>3
<1>6. QED BY <1>4, <1>5

LEMMA SeenInit == Init => SeenInv /\ AnswersFit
BY DEF Init, SeenInv, OnPath, AnswersFit

LEMMA AskSeen ==
  ASSUME NEW u, NEW m, Ask(u, m)
  PROVE  SeenInv' /\ AnswersFit'
<1>1. /\ phase' = "resolve" /\ answer' = "none" /\ page' = <<>>
      /\ url' = u /\ kinds' = {Sought(u.parts)} /\ UNCHANGED <<root, there, fs>>
  BY DEF Ask
<1>2. Here' = Sought(u.parts)
  <2>1. Here' = Sought(url.parts)'
    BY <1>1 DEF Here
  <2>2. QED BY <1>1, <2>1, SameTree
<1>3. QED BY <1>1, <1>2 DEF SeenInv, OnPath, AnswersFit

\* What the tree's user does.
LEMMA TreeSeen ==
  ASSUME SeenInv, AnswersFit, Others, Witness
  PROVE  SeenInv' /\ AnswersFit'
<1>1. /\ phase' = phase /\ answer' = answer /\ page' = page /\ denied' = denied
      /\ kinds' = IF phase \in OnPath THEN kinds \cup {Here'} ELSE kinds
  BY DEF Others, reqVars, Witness, OnPath
<1>2. SeenInv'
  BY <1>1 DEF SeenInv, OnPath
<1>3. AnswersFit'
  <2>1. CASE phase = "idle"
    BY <1>1, <2>1 DEF AnswersFit, OnPath
  <2>2. CASE phase # "idle"
    BY <1>1, <2>2 DEF AnswersFit, SeenInv
  <2>3. QED BY <2>1, <2>2
<1>4. QED BY <1>2, <1>3

LEMMA CallsSeen ==
  ASSUME FileInv, SeenInv, Calls
  PROVE  SeenInv' /\ AnswersFit'
<1>1. CASE Resolve
  <2>1. /\ phase = "resolve" /\ answer = "none" /\ page = <<>> /\ Here \in kinds
        /\ UNCHANGED kinds
    BY <1>1 DEF Resolve, SeenInv, OnPath
  <2>2. CASE phase' = "isDir"
    <3>1. answer' = answer /\ page' = page
      BY <1>1, <2>2 DEF Resolve, Tell
    <3>2. QED BY <1>1, <2>1, <2>2, <3>1, ResolveHere DEF SeenInv, OnPath, AnswersFit
  <2>3. CASE Tell("notAllowed")
    BY <2>3 DEF Tell, SeenInv, OnPath, AnswersFit
  <2>4. CASE Tell("notFound") /\ method # "POST"
    BY <1>1, <2>1, <2>4, ResolveFails DEF Tell, SeenInv, OnPath, AnswersFit
  <2>5. QED BY <1>1, <2>2, <2>3, <2>4 DEF Resolve
<1>2. CASE IsDir
  <2>1. /\ phase = "isDir" /\ answer = "none" /\ page = <<>> /\ Here \in kinds
        /\ kinds \cap {"file", "dir"} # {}
        /\ UNCHANGED <<answer, page, kinds>>
    BY <1>2 DEF IsDir, SeenInv, OnPath, reqVars
  <2>2. phase' \in {"list", "open"} => Here' = Here
    <3>1. Here = KindAt(Canonical(place))
      BY <2>1 DEF Here
    <3>2. phase' # "resolve" => Here' = KindAt(Canonical(place))'
      BY DEF Here
    <3>3. QED BY <1>2, <3>1, <3>2, SameTree DEF IsDir, reqVars
  <2>3. CASE phase' = "list" /\ Here \in {"dir", "out"}
    BY <2>1, <2>2, <2>3 DEF SeenInv, OnPath, AnswersFit
  <2>4. CASE phase' = "open" /\ Fails(Here = "dir")
    <3>1. denied' \/ Here # "dir"
      BY <2>4 DEF Fails
    <3>2. QED BY <2>1, <2>2, <2>4, <3>1 DEF SeenInv, OnPath, AnswersFit
  <2>5. QED BY <1>2, <2>3, <2>4 DEF IsDir
<1>3. CASE List
  <2>1. /\ phase = "list" /\ Here \in kinds /\ UNCHANGED kinds
        /\ kinds \cap {"dir", "out"} # {} /\ kinds \cap {"file", "dir"} # {}
    BY <1>3 DEF List, SeenInv, OnPath
  <2>2. CASE phase' = "idle" /\ answer' = "listing"
    BY <2>1, <2>2 DEF SeenInv, OnPath, AnswersFit
  <2>3. CASE Tell("failed") /\ Fails(Here = "dir")
    <3>1. phase' = "idle" /\ answer' = "failed"
      BY <2>3 DEF Tell
    <3>2. denied' \/ Here # "dir"
      BY <2>3 DEF Fails
    <3>3. QED BY <2>1, <3>1, <3>2 DEF SeenInv, OnPath, AnswersFit
  <2>4. QED BY <1>3, <2>2, <2>3 DEF List, Tell
<1>4. CASE Open
  <2>1. /\ phase = "open" /\ Here \in kinds /\ UNCHANGED <<kinds>> /\ answer = "none"
        /\ page = <<>> /\ kinds \cap {"file", "dir"} # {}
        /\ denied \/ \E k \in kinds : k # "dir"
    BY <1>4 DEF Open, SeenInv, OnPath
  <2>2. CASE phase' = "stat" /\ UNCHANGED <<answer, page, denied>>
    BY <2>1, <2>2 DEF SeenInv, OnPath, AnswersFit
  <2>3. CASE Tell("notFound") /\ Fails(Here \in {"file", "dir"})
    <3>1. phase' = "idle" /\ answer' = "notFound"
      BY <2>3 DEF Tell
    <3>2. denied' \/ Here \notin {"file", "dir"}
      BY <2>3 DEF Fails
    <3>3. Here \in Found
      BY HereKind DEF Shape, FileInv, TypeOK, PathUrl
    <3>4. QED BY <2>1, <3>1, <3>2, <3>3 DEF SeenInv, OnPath, AnswersFit, Found
  <2>4. QED BY <1>4, <2>2, <2>3 DEF Open
<1>5. CASE Stat
  <2>1. \/ phase' = "idle" /\ answer' = "complete"
        \/ phase' = "stream" /\ UNCHANGED <<answer, page>>
    <3>1. CASE Tell("complete")
      BY <3>1 DEF Tell
    <3>2. CASE phase' = "stream" /\ UNCHANGED <<answer, page>>
      BY <3>2
    <3>3. QED BY <1>5, <3>1, <3>2 DEF Stat
  <2>2. phase = "stat" /\ UNCHANGED <<kinds, denied>>
    BY <1>5 DEF Stat
  <2>3. QED BY <2>1, <2>2 DEF SeenInv, OnPath, AnswersFit
<1>6. QED BY <1>1, <1>2, <1>3, <1>4, <1>5 DEF Calls

LEMMA BodySeen ==
  ASSUME SeenInv, Stream \/ GiveUp
  PROVE  SeenInv' /\ AnswersFit'
<1>1. phase = "stream" /\ UNCHANGED <<kinds, denied>>
  BY DEF Stream, GiveUp
<1>2. \/ phase' = "idle" /\ answer' \in {"complete", "aborted"}
      \/ UNCHANGED <<phase, answer, page>>
  BY DEF Stream, GiveUp, Tell
<1>3. QED BY <1>1, <1>2 DEF SeenInv, OnPath, AnswersFit

LEMMA SeenStep == FileInv /\ SeenInv /\ AnswersFit /\ [Next]_vars => SeenInv' /\ AnswersFit'
<1> SUFFICES ASSUME FileInv, SeenInv, AnswersFit, [Next]_vars PROVE SeenInv' /\ AnswersFit'
  OBVIOUS
<1>1. ASSUME UNCHANGED <<root, there, fs, url, place, phase, kinds, denied, answer, page>>
      PROVE  SeenInv' /\ AnswersFit'
  <2>1. Here' = Here
    <3>1. Here' = IF phase = "resolve" THEN Sought(url.parts)' ELSE KindAt(Canonical(place))'
      BY <1>1 DEF Here
    <3>2. QED BY <1>1, <3>1, SameTree DEF Here
  <2>2. QED BY <1>1, <2>1 DEF SeenInv, OnPath, AnswersFit
<1>2. CASE UNCHANGED vars
  BY <1>1, <1>2 DEF vars, reqVars
<1>3. CASE Type \/ Click \/ ClickUp
  BY <1>3, AskSeen DEF Type, Click, ClickUp
<1>4. CASE PutRoot
  BY <1>4, TreeSeen DEF PutRoot, Others
<1>5. CASE Resize
  BY <1>1, <1>5 DEF Resize
<1>6. ASSUME NEW p \in Places, NEW what \in Entries, Put(p, what)
      PROVE  SeenInv' /\ AnswersFit'
  BY <1>6, TreeSeen DEF Put, Others
<1>7. QED
  BY <1>2, <1>3, <1>4, <1>5, <1>6, CallsSeen, BodySeen DEF Next, Handle

\* However the tree changes under a request, and whichever of its calls fail,
\* its answer fits something that was at the path meanwhile.
THEOREM AnswersAlwaysFit == Spec => []AnswersFit
<1> DEFINE Inv == FileInv /\ SeenInv /\ AnswersFit
<1>1. Init => Inv
  BY FileInit, SeenInit
<1>2. Inv /\ [Next]_vars => Inv'
  BY FileStep, SeenStep
<1>3. QED BY <1>1, <1>2, PTL DEF Spec
------------------------------------------------------------------------------
(***************************************************************************)
(* Downloads.  A file that was cut below what is owed stays short of it:   *)
(* what is sent is taken from both.                                        *)
(***************************************************************************)

CutInv ==
  /\ ahead \in Nat /\ owed \in Nat
  /\ phase # "stream" => owed = 0
  /\ ~measured => owed = 0
  /\ phase # "idle" => answer = "none"
  /\ cut => \/ phase = "stream" /\ ahead < owed
            \/ phase = "idle" /\ answer # "complete"

LEMMA CutInit == Init => CutInv
BY DEF Init, CutInv

LEMMA CutStep == CutInv /\ [Next]_vars => CutInv'
<1> SUFFICES ASSUME CutInv, [Next]_vars PROVE CutInv'
  OBVIOUS
<1>1. ASSUME UNCHANGED <<phase, ahead, owed, measured, answer, cut>> PROVE CutInv'
  BY <1>1 DEF CutInv
<1>2. ASSUME NEW u, NEW m, Ask(u, m) PROVE CutInv'
  BY <1>2 DEF Ask, CutInv
<1>3. ASSUME NEW what, Tell(what), what # "complete" PROVE CutInv'
  BY <1>3 DEF Tell, Blank, CutInv
<1>4. ASSUME Tell("complete"), UNCHANGED cut, ~cut PROVE CutInv'
  BY <1>4 DEF Tell, Blank, CutInv
<1>5. CASE Resolve \/ IsDir \/ List \/ Open
  <2>1. phase \in {"resolve", "isDir", "list", "open"} /\ cut' = cut /\ ~cut
    <3>1. phase \in {"resolve", "isDir", "list", "open"} /\ cut' = cut
      BY <1>5 DEF Resolve, IsDir, List, Open
    <3>2. QED BY <3>1 DEF CutInv
  <2>2. ASSUME UNCHANGED <<owed, measured>>, ahead' \in Nat, phase' # "idle" => answer' = "none"
        PROVE  CutInv'
    BY <2>1, <2>2 DEF CutInv
  <2>3. CASE Resolve
    BY <1>3, <2>1, <2>2, <2>3 DEF Resolve, CutInv
  <2>4. CASE IsDir
    BY <2>1, <2>2, <2>4 DEF IsDir, reqVars, CutInv
  <2>5. CASE List
    BY <1>3, <1>4, <2>1, <2>2, <2>5 DEF List, CutInv
  <2>6. CASE Open
    <3>1. CASE Tell("notFound")
      BY <1>3, <3>1
    <3>2. CASE ahead' \in 0 .. MaxAhead /\ UNCHANGED <<owed, measured, answer>>
      BY <2>1, <2>2, <3>2, MaxAheadAssumption DEF CutInv
    <3>3. QED BY <2>6, <3>1, <3>2 DEF Open
  <2>7. QED BY <1>5, <2>3, <2>4, <2>5, <2>6
<1>6. CASE Stat
  <2>1. phase = "stat" /\ cut' = cut /\ ~cut
    <3>1. phase = "stat" /\ cut' = cut
      BY <1>6 DEF Stat
    <3>2. QED BY <3>1 DEF CutInv
  <2>2. CASE Tell("complete")
    BY <1>4, <2>1, <2>2
  <2>3. CASE /\ phase' = "stream" /\ measured' \in BOOLEAN
             /\ owed' = (IF measured' THEN ahead ELSE 0) /\ UNCHANGED <<ahead, answer>>
    BY <2>1, <2>3 DEF CutInv
  <2>4. QED BY <1>6, <2>2, <2>3 DEF Stat
<1>7. CASE Stream
  <2>1. phase = "stream" /\ UNCHANGED cut
    BY <1>7 DEF Stream
  <2>2. CASE AllSent /\ Tell("complete")
    <3>1. owed = 0
      BY <2>2 DEF AllSent, Announced, CutInv
    <3>2. ~cut
      BY <2>1, <3>1 DEF CutInv
    <3>3. QED BY <1>4, <2>1, <2>2, <3>2
  <2>3. CASE Tell("aborted")
    BY <1>3, <2>3
  <2>4. CASE /\ ~CutShort /\ ~AllSent /\ ahead' = ahead - 1
             /\ owed' = IF owed > 0 THEN owed - 1 ELSE 0
             /\ UNCHANGED <<phase, measured, answer>>
    <3>1. ahead # 0
      BY <2>4 DEF CutShort
    <3>2. QED BY <2>1, <2>4, <3>1 DEF CutInv
  <2>5. QED BY <1>7, <2>2, <2>3, <2>4 DEF Stream
<1>8. CASE GiveUp
  BY <1>3, <1>8 DEF GiveUp
<1>9. CASE Resize
  <2>1. /\ phase \in {"stat", "stream"} /\ UNCHANGED <<phase, owed, measured, answer>>
        /\ ahead' \in Nat /\ cut' = (ahead' <= ahead /\ (cut \/ ahead' < owed))
    BY <1>9 DEF Resize, CutInv
  <2>2. ASSUME cut' PROVE phase = "stream" /\ ahead' < owed
    <3>1. ahead' <= ahead /\ (cut \/ ahead' < owed)
      BY <2>1, <2>2
    <3>2. CASE cut
      BY <2>1, <3>1, <3>2 DEF CutInv
    <3>3. CASE ahead' < owed
      BY <2>1, <3>3 DEF CutInv
    <3>4. QED BY <3>1, <3>2, <3>3
  <2>3. QED BY <2>1, <2>2 DEF CutInv
<1>10. QED
  BY <1>1, <1>2, <1>5, <1>6, <1>7, <1>8, <1>9
  DEF Next, Handle, Calls, Type, Click, ClickUp, PutRoot, Put, vars, reqVars

\* A file that is cut below what its content-length has announced, and not
\* written to again, is not taken for complete.
THEOREM CompleteAlwaysWhole == Spec => []CompleteIsWhole
<1>1. CutInv => CompleteIsWhole
  BY DEF CutInv, CompleteIsWhole
<1>2. QED BY <1>1, CutInit, CutStep, PTL DEF Spec

\* The request's own steps, and those of everybody else.
LEMMA HandleCloser ==
  ASSUME TypeOK, Handle
  PROVE  \/ CallsLeft[phase'] < CallsLeft[phase]
         \/ phase' = phase /\ owed' < owed
         \/ phase' = phase /\ owed' = owed /\ ~measured
<1>1. CASE Calls
  <2>1. CASE Resolve \/ IsDir
    <3>1. \/ phase = "resolve" /\ phase' \in {"idle", "isDir"}
          \/ phase = "isDir" /\ phase' \in {"list", "open"}
      BY <2>1 DEF Resolve, IsDir, Tell
    <3>2. QED BY <3>1 DEF CallsLeft
  <2>2. CASE List \/ Open
    BY <2>2 DEF List, Open, Tell, CallsLeft
  <2>3. CASE Stat
    <3>1. phase = "stat" /\ phase' \in {"idle", "stream"}
      BY <2>3 DEF Stat, Tell
    <3>2. QED BY <3>1 DEF CallsLeft
  <2>4. QED BY <1>1, <2>1, <2>2, <2>3 DEF Calls
<1>2. CASE Stream
  <2>1. CASE phase' = "idle"
    BY <1>2, <2>1 DEF Stream, CallsLeft
  <2>2. CASE phase' # "idle"
    <3>1. /\ phase' = phase /\ ~AllSent
          /\ owed' = IF owed > 0 THEN owed - 1 ELSE 0
      BY <1>2, <2>2 DEF Stream, Tell
    <3>2. owed \in Nat
      BY MaxAheadAssumption DEF TypeOK
    <3>3. measured => owed > 0
      BY <3>1, <3>2 DEF AllSent, Announced
    <3>4. measured \in BOOLEAN
      BY DEF TypeOK
    <3>5. QED BY <3>1, <3>2, <3>3, <3>4
  <2>3. QED BY <2>1, <2>2
<1>3. QED BY <1>1, <1>2 DEF Handle

\* No request goes on for ever while its task is run and its client reads,
\* whatever becomes of the file: the pair of calls left and of what is owed goes
\* down with every step.
THEOREM EndCloser == Spec => EndComesCloser
<1>1. TypeOK /\ [Next]_vars
        => [phase # "idle" =>
              \/ CallsLeft[phase'] < CallsLeft[phase]
              \/ phase' = phase /\ owed' < owed
              \/ phase' = phase /\ owed' = owed /\ (Handle => ~measured)]_vars
  <2> SUFFICES ASSUME TypeOK, Next, phase # "idle", ~Handle
               PROVE  \/ CallsLeft[phase'] < CallsLeft[phase]
                      \/ phase' = phase /\ owed' = owed
    BY HandleCloser
  <2>1. CASE Type \/ Click \/ ClickUp
    BY <2>1 DEF Type, Click, ClickUp, Ask
  <2>2. CASE GiveUp
    BY <2>2 DEF GiveUp, Tell, CallsLeft
  <2>3. CASE PutRoot \/ Resize
    BY <2>3 DEF PutRoot, Resize, reqVars
  <2>4. ASSUME NEW p \in Places, NEW what \in Entries, Put(p, what)
        PROVE  phase' = phase /\ owed' = owed
    BY <2>4 DEF Put, reqVars
  <2>5. QED BY <2>1, <2>2, <2>3, <2>4 DEF Next
<1>2. QED BY <1>1, FileTypes, PTL DEF Spec, EndComesCloser
------------------------------------------------------------------------------
(***************************************************************************)
(* Links.  What is asked for without a slash is no directory, unless there *)
(* is a reason why; so a listing's URL ends in a slash, and names that are *)
(* appended to it lead to the entries they are shown for.                  *)
(***************************************************************************)

LeadInv ==
  /\ phase \in {"resolve", "isDir", "list"} /\ bare = "no" /\ ~url.slash /\ url.parts # <<>>
     => Here # "dir"
  /\ answer = "listing" /\ bare = "no" /\ page # <<>> => url.slash \/ url.parts = <<>>

LEMMA LeadInit == Init => LeadInv
BY DEF Init, LeadInv

LEMMA AskHere ==
  ASSUME NEW u, NEW m, Ask(u, m)
  PROVE  Here' = Sought(u.parts)
<1>1. phase' = "resolve" /\ url' = u /\ UNCHANGED <<root, there, fs>>
  BY DEF Ask
<1>2. Here' = Sought(url.parts)'
  BY <1>1 DEF Here
<1>3. QED BY <1>1, <1>2, SameTree

LEMMA AskLeads ==
  ASSUME FileInv, Type \/ Click \/ ClickUp
  PROVE  LeadInv'
<1>1. phase' = "resolve" /\ answer' = "none"
  BY DEF Type, Click, ClickUp, Ask
<1>2. bare' = "no" /\ ~url'.slash => Here' # "dir"
  <2> SUFFICES ASSUME bare' = "no", ~url'.slash PROVE Here' # "dir"
    OBVIOUS
  <2>1. CASE Type
    BY <2>1 DEF Type, Ask
  <2>2. CASE Click
    <3>1. PICK n \in DOMAIN page :
            Ask(LinkUrl(n), "GET") /\ bare' = IF bare = "no" THEN BareLink(n) ELSE bare
      BY <2>2 DEF Click
    <3>2. page[n] \in (Entries \ {"none"}) \cup {"unread"}
      BY DEF FileInv, TypeOK, Range
    <3>3. page[n] # "dir"
      BY <3>1 DEF Ask, LinkUrl, ListedAsDir
    <3>4. BareLink(n) = "no"
      BY <3>1
    <3>5. Sought(LinkUrl(n).parts) # "dir"
      BY <3>2, <3>3, <3>4 DEF BareLink, Entries
    <3>6. QED BY <3>1, <3>5, AskHere
  <2>3. CASE ClickUp
    BY <2>3 DEF ClickUp, Ask
  <2>4. QED BY <2>1, <2>2, <2>3
<1>3. QED BY <1>1, <1>2 DEF LeadInv

LEMMA TreeLeads ==
  ASSUME LeadInv, Others, Witness
  PROVE  LeadInv'
<1>1. /\ phase' = phase /\ url' = url /\ answer' = answer /\ page' = page
      /\ bare' = IF /\ phase \in {"resolve", "isDir", "list"} /\ ~url.slash
                    /\ bare = "no" /\ Here # "dir" /\ Here' = "dir"
                 THEN "since" ELSE bare
  BY DEF Others, reqVars, Witness
<1>2. QED BY <1>1 DEF LeadInv

LEMMA LeadStep == FileInv /\ SeenInv /\ LeadInv /\ [Next]_vars => LeadInv'
<1> SUFFICES ASSUME FileInv, SeenInv, LeadInv, [Next]_vars PROVE LeadInv'
  OBVIOUS
<1>1. ASSUME NEW what, Tell(what) PROVE LeadInv'
  BY <1>1 DEF Tell, Blank, LeadInv
<1>2. ASSUME UNCHANGED <<root, there, fs, url, place, page, bare, answer>>,
             phase' \in {"resolve", "isDir", "list"} => phase \in {"resolve", "isDir", "list"},
             phase' = "resolve" <=> phase = "resolve"
      PROVE  LeadInv'
  <2>1. Here' = (IF phase' = "resolve" THEN Sought(url.parts)' ELSE KindAt(Canonical(place))')
    BY DEF Here
  <2>2. phase' \in {"resolve", "isDir", "list"} => Here' = Here
    BY <1>2, <2>1, SameTree DEF Here
  <2>3. QED BY <1>2, <2>2 DEF LeadInv
<1>3. CASE UNCHANGED vars
  <2>1. UNCHANGED <<root, there, fs, url, place, page, bare, answer>>
    BY <1>3 DEF vars, reqVars
  <2>2. phase' = phase
    BY <1>3 DEF vars
  <2>3. QED BY <1>2, <2>1, <2>2
<1>4. CASE Resolve
  <2>1. CASE phase' = "isDir"
    <3>1. /\ phase = "resolve" /\ UNCHANGED <<url, answer, page, bare>>
      BY <1>4, <2>1 DEF Resolve, Tell
    <3>2. QED BY <1>4, <2>1, <3>1, ResolveHere DEF LeadInv
  <2>2. QED BY <1>1, <1>4, <2>1 DEF Resolve
<1>5. CASE IsDir
  BY <1>2, <1>5 DEF IsDir, reqVars
<1>6. CASE List
  <2>1. phase = "list" /\ page = <<>>
    BY <1>6 DEF List, SeenInv
  <2>2. CASE \E what : Tell(what)
    BY <1>1, <2>2
  <2>3. CASE /\ phase' = "idle" /\ UNCHANGED <<url, bare>>
             /\ Here = "dir" \/ UNCHANGED page
    <3>1. CASE Here = "dir"
      BY <2>1, <2>3, <3>1 DEF LeadInv
    <3>2. CASE UNCHANGED page
      BY <2>1, <2>3, <3>2 DEF LeadInv
    <3>3. QED BY <2>3, <3>1, <3>2
  <2>4. QED BY <1>6, <2>2, <2>3 DEF List
<1>7. CASE Open
  <2>1. CASE phase' = "stat" /\ answer' = answer /\ phase = "open"
    BY <2>1 DEF LeadInv, SeenInv
  <2>2. QED BY <1>1, <1>7, <2>1 DEF Open
<1>8. CASE Stat \/ Stream \/ GiveUp \/ Resize
  <2>1. CASE \E what : Tell(what)
    BY <1>1, <2>1
  <2>2. CASE /\ phase \in {"stat", "stream"} /\ phase' \in {"stat", "stream"}
             /\ answer' = answer
    BY <2>2 DEF LeadInv, SeenInv
  <2>3. QED BY <1>8, <2>1, <2>2 DEF Stat, Stream, GiveUp, Resize
<1>9. CASE PutRoot
  BY <1>9, TreeLeads DEF PutRoot, Others
<1>10. ASSUME NEW p \in Places, NEW what \in Entries, Put(p, what) PROVE LeadInv'
  BY <1>10, TreeLeads DEF Put, Others
<1>11. QED
  BY <1>3, <1>4, <1>5, <1>6, <1>7, <1>8, <1>9, <1>10, AskLeads DEF Next, Handle, Calls

LEMMA LeadsWhereListed ==
  ASSUME FileInv, LeadInv
  PROVE  LinksLeadWhereListed
<1> SUFFICES ASSUME answer = "listing", bare = "no", NEW n \in DOMAIN page
             PROVE  LinkUrl(n).parts = url.parts \o <<n>>
  BY DEF LinksLeadWhereListed
<1>1. page # <<>>
  OBVIOUS
<1>2. url.slash \/ url.parts = <<>>
  BY <1>1 DEF LeadInv
<1>3. QED BY <1>2 DEF LinkUrl, Base

\* A browser that starts at a URL with a slash and follows links does not get
\* lost, whatever is done to the tree meanwhile, for any tree and any URLs: the
\* reasons that bare names are the only ones.
THEOREM LinksLead == Spec => []LinksLeadWhereListed
<1> DEFINE Inv == FileInv /\ SeenInv /\ AnswersFit /\ LeadInv
<1>1. Init => Inv
  BY FileInit, SeenInit, LeadInit
<1>2. Inv /\ [Next]_vars => Inv'
  BY FileStep, SeenStep, LeadStep
<1>3. Inv => LinksLeadWhereListed
  BY LeadsWhereListed
<1>4. QED BY <1>1, <1>2, <1>3, PTL DEF Spec
==============================================================================
