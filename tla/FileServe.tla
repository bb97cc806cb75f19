------------------------------ MODULE FileServe ------------------------------
(***************************************************************************)
(* The built-in file server: handle, resolve and listing (fileserve.rs),   *)
(* and a browser that asks for a path, reads the listing and follows its   *)
(* links.                                                                  *)
(*                                                                         *)
(* A request is a handful of file system calls, and the shared tree, which *)
(* belongs to its user, may change between any two of them: entries come,  *)
(* go and are replaced, symbolic links included, and any call may fail     *)
(* though its entry is there.  A file's size is how much of it lies ahead  *)
(* of the reader, so one that keeps growing needs no bound but MaxAhead.   *)
(***************************************************************************)
EXTENDS Integers, Sequences, SequencesExt

CONSTANTS Names,     \* names of entries
          Places,    \* where entries may be: paths from the root
          LinkTo,    \* where symbolic links that stay under the root lead
          Typed,     \* the URLs a user types: [parts, slash]
          MaxAhead   \* how far a file may extend beyond its reader

Nowhere == <<"nowhere">>     \* a canonical path that is not under the root
Parts   == Seq(Names \cup {".."})

ASSUME PlacesAssumption ==
  /\ "nowhere" \notin Names
  /\ Places \subseteq Seq(Names) \ {<<>>}
  /\ \A p \in Places : Len(p) > 1 => Front(p) \in Places
ASSUME LinkToAssumption == LinkTo \in Places /\ Len(LinkTo) = 1
ASSUME TypedAssumption == Typed \subseteq [parts : Parts, slash : BOOLEAN]
ASSUME MaxAheadAssumption == MaxAhead \in Nat

VARIABLES
  root,      \* what was shared: "dir" or "file"
  there,     \* it is there still, or again
  fs,        \* what is at a place
  url,       \* what the browser asks for or shows
  method,
  phase,     \* the request's next call, or "idle"
  place,     \* what resolve has returned
  opened,    \* what the open file is: "file" or "dir"
  ahead,     \* how much of it is not read yet
  owed,      \* how much of what it had at metadata() is not sent yet
  measured,  \* metadata() has not failed
  answer,    \* what the browser has been told
  page,      \* the listing it shows: name -> what the entry was read as
  kinds,     \* what has been at the path asked for, until it is opened
  denied,    \* a call has failed though its entry was there
  cut,       \* the open file is short of what is owed, and was not written since
  bare       \* why a URL without a slash at its end may name a directory

reqVars == <<url, method, place, opened, ahead, owed, measured, answer, page>>
vars    == <<root, there, fs, phase, kinds, denied, cut, bare, reqVars>>

\* "in" and "out" are symbolic links, to LinkTo and to what is not under the root.
Entries == {"none", "file", "dir", "in", "out"}
Start   == [parts |-> <<>>, slash |-> TRUE]
Answers == {"none", "notAllowed", "notFound", "failed", "listing", "complete", "aborted"}
Phases  == {"idle", "resolve", "isDir", "list", "open", "stat", "stream"}

\* What is at a place is in a directory.  Links under the root are at its top
\* level, and lead to no link under the root.
Tree(t) ==
  \A p \in Places : /\ t[p] # "none" /\ Len(p) > 1 => t[Front(p)] = "dir"
                    /\ t[p] = "in" => Len(p) = 1 /\ p # LinkTo

NoTree == [p \in Places |-> "none"]

\* canonicalize: links are followed.
Canonical(p) ==
  LET top == <<Head(p)>>
      q   == IF p # <<>> /\ top \in Places /\ fs[top] = "in" THEN LinkTo \o Tail(p) ELSE p
  IN  IF \E o \in Places : IsPrefix(o, q) /\ fs[o] = "out" THEN Nowhere ELSE q

\* What a call finds at a canonical path: "none", "file", "dir", or "out",
\* which may be any of them.
KindAt(p) ==
  CASE ~there                                -> "none"
    [] there /\ p = <<>>                     -> root
    [] there /\ root = "dir" /\ p = Nowhere  -> "out"
    [] there /\ root = "dir" /\ p \in Places -> fs[p]
    [] OTHER                                 -> "none"

RootIsFile == root = "file" /\ there

\* What a URL's path means: the shared file at every path, nothing behind a "..".
Sought(parts) ==
  IF RootIsFile THEN "file"
  ELSE IF ".." \in Range(parts) THEN "none" ELSE KindAt(Canonical(parts))

\* What the request's next call is about.
Here == IF phase = "resolve" THEN Sought(url.parts) ELSE KindAt(Canonical(place))

Init ==
  /\ root     \in {"dir", "file"}
  /\ fs       \in {t \in [Places -> Entries] : Tree(t)}
  /\ root = "file" => fs = NoTree
  /\ there    = TRUE
  /\ url      = Start
  /\ method   = "GET"
  /\ phase    = "idle"
  /\ place    = <<>>
  /\ opened   = "file"
  /\ ahead    = 0
  /\ owed     = 0
  /\ measured = TRUE
  /\ answer   = "none"
  /\ page     = <<>>
  /\ kinds    = {}
  /\ denied   = FALSE
  /\ cut      = FALSE
  /\ bare     = "no"
------------------------------------------------------------------------------
(* The server: one request, a file system call at a time. *)

\* Nothing under way: no path, no open file, no page.
Blank ==
  /\ method' = "GET" /\ place' = <<>> /\ page' = <<>>
  /\ opened' = "file" /\ ahead' = 0 /\ owed' = 0 /\ measured' = TRUE

\* An answer without links, after which the browser is where it was before.
Tell(what) == phase' = "idle" /\ answer' = what /\ url' = Start /\ bare' = "no" /\ Blank

\* A call fails, which counts only if what it was about was there.
Fails(present) == denied' = (denied \/ present)

\* Mutant of InRoot: starts_with(root) is not asked.
InAnyRoot(p) == TRUE

InRoot(p) == p # Nowhere

\* The method, then resolve: the shared file, or the path joined to the root
\* without "..", canonicalized, and checked to be under the root.
Resolve ==
  LET p     == IF RootIsFile THEN <<>> ELSE Canonical(url.parts)
      found == /\ ~RootIsFile => ".." \notin Range(url.parts)
               /\ KindAt(p) # "none" /\ InRoot(p)
  IN
  /\ phase = "resolve"
  /\ \/ method = "POST" /\ Tell("notAllowed") /\ UNCHANGED denied
     \/ method # "POST" /\ Tell("notFound") /\ Fails(found)
     \/ /\ method # "POST" /\ found
        /\ phase' = "isDir" /\ place' = p
        /\ UNCHANGED <<url, method, opened, ahead, owed, measured, answer, page, denied, bare>>
  /\ UNCHANGED <<root, there, fs, kinds, cut>>

\* Mutant of IsDir: what resolved is opened, whatever it is.
IsDirUnasked ==
  /\ phase = "isDir" /\ phase' = "open"
  /\ UNCHANGED <<root, there, fs, kinds, denied, cut, bare, reqVars>>

\* path.is_dir() asks again what canonicalize has found.  An error means no.
IsDir ==
  /\ phase = "isDir"
  /\ \/ Here \in {"dir", "out"} /\ phase' = "list" /\ UNCHANGED denied
     \/ phase' = "open" /\ Fails(Here = "dir")
  /\ UNCHANGED <<root, there, fs, kinds, cut, bare, reqVars>>

\* Mutant of ListedAsDir: directories are listed like files.
ListedAsFile(what) == FALSE

\* An entry's file_type does not follow links; one that cannot be had means no.
ListedAsDir(what) == what = "dir"

Listed(dir) == {n \in Names : dir \o <<n>> \in Places /\ fs[dir \o <<n>>] # "none"}

\* listing, or the error of read_dir or next_entry.  A HEAD is shown no links,
\* and those of a directory outside are left out.
List ==
  LET dir  == Canonical(place)
      here == Listed(dir)
  IN
  /\ phase = "list"
  /\ \/ method = "HEAD" /\ Here \in {"dir", "out"} /\ Tell("listing") /\ UNCHANGED denied
     \/ /\ method = "GET" /\ phase' = "idle" /\ answer' = "listing"
        /\ \/ Here = "dir" /\ \E unread \in SUBSET {n \in here : fs[dir \o <<n>>] = "dir"} :
                page' = [n \in here |-> IF n \in unread THEN "unread" ELSE fs[dir \o <<n>>]]
           \/ Here = "out" /\ UNCHANGED page
        /\ UNCHANGED <<url, method, place, opened, ahead, owed, measured, denied, bare>>
     \/ Tell("failed") /\ Fails(Here = "dir")
  /\ UNCHANGED <<root, there, fs, kinds, cut>>

\* File::open takes a directory too.  The path is not used again.
Open ==
  /\ phase = "open"
  /\ \/ /\ Here # "none"
        /\ phase' = "stat"
        /\ opened' \in IF Here = "out" THEN {"file", "dir"} ELSE {Here}
        /\ ahead' \in 0 .. MaxAhead
        /\ url' = Start /\ place' = <<>> /\ bare' = "no"
        /\ UNCHANGED <<method, owed, measured, answer, page, denied>>
     \/ Tell("notFound") /\ Fails(Here \in {"file", "dir"})
  /\ UNCHANGED <<root, there, fs, kinds, cut>>

\* The length of the open file becomes content-length, if it can be had.  A
\* HEAD gets no body.
Stat ==
  /\ phase = "stat"
  /\ \/ method = "HEAD" /\ Tell("complete")
     \/ /\ method = "GET" /\ phase' = "stream"
        /\ measured' \in BOOLEAN
        /\ owed' = IF measured' THEN ahead ELSE 0
        /\ UNCHANGED <<url, method, place, opened, ahead, answer, page, bare>>
  /\ UNCHANGED <<root, there, fs, kinds, denied, cut>>

\* Mutant of Announced: the response has no content-length.
AnnouncedNever == FALSE

Announced == measured

\* ReaderStream reads up to the file's end.  hyper sends no more than the
\* content-length, and cuts the connection if the stream ends before it.
AllSent  == IF Announced THEN owed = 0 ELSE ahead = 0 /\ opened = "file"
CutShort == ~AllSent /\ (ahead = 0 \/ opened = "dir")

Stream ==
  /\ phase = "stream"
  /\ \/ AllSent /\ Tell("complete")
     \/ CutShort /\ Tell("aborted")
     \/ /\ ~AllSent /\ ~CutShort
        /\ ahead' = ahead - 1
        /\ owed'  = IF owed > 0 THEN owed - 1 ELSE 0
        /\ UNCHANGED <<phase, url, method, place, opened, measured, answer, page, bare>>
  /\ UNCHANGED <<root, there, fs, kinds, denied, cut>>

Calls  == Resolve \/ IsDir \/ List \/ Open \/ Stat
Handle == Calls \/ Stream
------------------------------------------------------------------------------
(* The browser. *)

Ask(u, m) ==
  /\ phase = "idle"
  /\ url' = u /\ method' = m /\ phase' = "resolve" /\ answer' = "none" /\ page' = <<>>
  /\ kinds' = {Sought(u.parts)} /\ denied' = FALSE /\ cut' = FALSE /\ place' = <<>>
  /\ UNCHANGED <<root, there, fs, opened, ahead, owed, measured>>

Type ==
  \E u \in Typed, m \in {"GET", "HEAD", "POST"} :
    Ask(u, m) /\ bare' = IF u.slash THEN "no" ELSE "typed"

\* What a relative link is relative to.
Base(u) == IF u.slash \/ u.parts = <<>> THEN u.parts ELSE Front(u.parts)

\* Where the listing's link to n leads.
LinkUrl(n) == [parts |-> Base(url) \o <<n>>, slash |-> ListedAsDir(page[n])]

\* Why the link to n may lead to a directory although it has no slash: it was
\* shown for a symbolic link, or for an entry whose type could not be had, or
\* the file it was shown for has become one since.
BareLink(n) ==
  CASE page[n] \in {"in", "out"}                                -> "link"
    [] page[n] = "unread"                                       -> "unread"
    [] page[n] = "file" /\ Sought(LinkUrl(n).parts) = "dir"     -> "since"
    [] OTHER                                                    -> "no"

Click ==
  /\ answer = "listing"
  /\ \E n \in DOMAIN page :
       Ask(LinkUrl(n), "GET") /\ bare' = IF bare = "no" THEN BareLink(n) ELSE bare

\* "../", which every listing but the root's has.
ClickUp ==
  /\ answer = "listing" /\ place # <<>>
  /\ Ask([parts |-> IF Base(url) = <<>> THEN <<>> ELSE Front(Base(url)), slash |-> TRUE], "GET")
  /\ bare' = "no"

\* The client leaves, or a read of the open file fails.
GiveUp ==
  /\ phase = "stream"
  /\ Tell("aborted")
  /\ UNCHANGED <<root, there, fs, kinds, denied, cut>>
------------------------------------------------------------------------------
(* The tree's user. *)

\* What a change means to the request that is under way.
Witness ==
  /\ kinds' = IF phase \in {"resolve", "isDir", "list", "open"} THEN kinds \cup {Here'} ELSE kinds
  /\ bare'  = IF /\ phase \in {"resolve", "isDir", "list"} /\ ~url.slash
                 /\ bare = "no" /\ Here # "dir" /\ Here' = "dir"
              THEN "since" ELSE bare

\* An entry is created, deleted, or replaced at once (rename).
Put(p, what) ==
  /\ root = "dir" /\ there /\ fs[p] # what
  /\ fs' = [o \in Places |-> IF o = p THEN what ELSE IF IsPrefix(p, o) THEN "none" ELSE fs[o]]
  /\ Tree(fs')
  /\ UNCHANGED <<root, there, phase, denied, cut, reqVars>> /\ Witness

\* What was shared is deleted, or made anew.
PutRoot ==
  /\ there' = ~there
  /\ fs' = NoTree
  /\ UNCHANGED <<root, phase, denied, cut, reqVars>> /\ Witness

\* The open file is appended to, or truncated.
Resize ==
  /\ phase \in {"stat", "stream"} /\ opened = "file"
  /\ ahead' \in 0 .. ahead + 1 /\ ahead' \in 0 .. MaxAhead
  /\ cut' = (ahead' <= ahead /\ (cut \/ ahead' < owed))
  /\ UNCHANGED <<root, there, fs, phase, kinds, denied, bare>>
  /\ UNCHANGED <<url, method, place, opened, owed, measured, answer, page>>

Next ==
  \/ Handle \/ Type \/ Click \/ ClickUp \/ GiveUp \/ PutRoot \/ Resize
  \/ \E p \in Places, what \in Entries : Put(p, what)

Spec == Init /\ [][Next]_vars

\* The request's task is run; its client may stop reading.
FairSpec == Spec /\ WF_vars(Calls)
------------------------------------------------------------------------------
TypeOK ==
  /\ root     \in {"dir", "file"} /\ there \in BOOLEAN
  /\ fs       \in [Places -> Entries]
  /\ url      \in [parts : Parts, slash : BOOLEAN]
  /\ method   \in {"GET", "HEAD", "POST"}
  /\ phase    \in Phases
  /\ place    \in Places \cup {<<>>}
  /\ opened   \in {"file", "dir"}
  /\ {ahead, owed} \subseteq 0 .. MaxAhead
  /\ measured \in BOOLEAN /\ denied \in BOOLEAN /\ cut \in BOOLEAN
  /\ answer   \in Answers
  /\ DOMAIN page \subseteq Names /\ Range(page) \subseteq (Entries \ {"none"}) \cup {"unread"}
  /\ kinds    \subseteq {"none", "file", "dir", "out"}
  /\ bare     \in {"no", "typed", "link", "unread", "since"}

\* However the tree changes under a request, its answer fits something that
\* was at the path meanwhile.  If none of its calls was denied, a 404 says that
\* nothing was there or that the way led outside, and what was a directory all
\* along is listed.  A listing, an error or a file's contents are given only of
\* what has been under the root meanwhile: a link to the outside that is put in
\* its place between canonicalize and the open is followed, one that was there
\* all along is not.
AnswersFit ==
  /\ answer = "notFound" /\ ~denied  => kinds \cap {"none", "out"} # {}
  /\ answer \in {"listing", "failed"} => kinds \cap {"dir", "out"} # {}
  /\ answer \in {"failed", "complete", "aborted"} /\ ~denied => kinds # {"dir"}
  /\ answer \in {"listing", "failed", "complete", "aborted"} => kinds \cap {"file", "dir"} # {}

\* A file that is cut while it is sent, below what its content-length has
\* announced, and is not written to again, is not taken for complete, however
\* much of it was still to be read.  (One that is cut and grows again is: the
\* browser has then what came in its place.)
CompleteIsWhole == answer = "complete" => ~cut

\* A browser that starts at a URL with a slash and follows links does not get
\* lost: a listing's links are relative to the directory that was asked for,
\* unless its URL was typed without a slash, was linked so for a symbolic link
\* or for an entry whose type could not be had, or named a file when the link
\* was shown.
LinksLeadWhereListed ==
  answer = "listing" /\ bare = "no" =>
    \A n \in DOMAIN page : LinkUrl(n).parts = url.parts \o <<n>>

\* The same of listings behind symbolic links.
LinkedListingsLead ==
  answer = "listing" /\ bare \in {"no", "link"} =>
    \A n \in DOMAIN page : LinkUrl(n).parts = url.parts \o <<n>>

\* The calls a request still takes, the whole body for one.
CallsLeft == [idle |-> 0, list |-> 1, stream |-> 1, stat |-> 2, open |-> 3, isDir |-> 4,
              resolve |-> 5]

\* Whatever the file does meanwhile, each step of a request brings its end
\* closer, and nobody moves it away: a file that grows adds nothing to what is
\* owed.  Only a request whose length could not be had may go on and on.
EndComesCloser ==
  [][phase # "idle" =>
       \/ CallsLeft[phase'] < CallsLeft[phase]
       \/ phase' = phase /\ owed' < owed
       \/ phase' = phase /\ owed' = owed /\ (Handle => ~measured)]_vars

\* Every request is answered to its end, if its client goes on reading: also
\* for a file that grows as fast as it is sent, unless its length could not be
\* had.  Nothing ends the request of a client that stops.
EveryAnswerEnds == WF_vars(Stream) => (phase # "idle" ~> (phase = "idle" \/ ~measured))
==============================================================================
