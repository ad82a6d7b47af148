--------------------------- MODULE ConfigManager ---------------------------
(***************************************************************************)
(* config.Manager and those who use it at once: the watcher that polls the *)
(* file, browsers that load and save the configuration through /config/*,  *)
(* and an operator who edits the file on disk.                             *)
(*                                                                         *)
(* A configuration is a body and a push token.  The bodies of Secured      *)
(* enable push_token, those of Broken are not YAML and those of Invalid    *)
(* fail Validate.  Every write gives the file a later modification time,   *)
(* but an operator may put back a file with the old time it had.           *)
(* An action is one file system call or one acquisition of m.mu.           *)
(***************************************************************************)
EXTENDS Naturals, FiniteSets

CONSTANTS
  Browsers,    \* clients of the configuration pages
  Watcher,     \* the polling goroutine; it also stands for app.New at startup
  Bodies,      \* configurations an operator or a browser can write
  Secured, Broken, Invalid,   \* subsets of Bodies
  Backups,     \* those of an older file that an operator keeps
  Pieces,      \* those a document cut short may have
  Default,     \* the body of DefaultConfigYAML
  Blank,       \* the empty document, Config{}
  NoFile,      \* the file does not exist
  NoRev,       \* an empty If-Match
  Nobody,      \* nobody holds writeMu
  MaxChanges, MaxTokens,  \* bounds: edits, saves and failed writes, generated tokens,
  MaxTornTokens           \* tokens after which no race on lastModTime shows

ASSUME DocAssumption == /\ Secured \cup Broken \cup Invalid \cup Backups \cup Pieces \subseteq Bodies
                        /\ Secured \cap Broken = {}
                        /\ {Default, Blank} \cap Bodies = {}
                        /\ Default # Blank
ASSUME ProcAssumption == Watcher \notin Browsers /\ Nobody \notin Browsers \cup {Watcher}
ASSUME BoundAssumption == MaxChanges \in Nat /\ MaxTokens \in Nat /\ MaxTornTokens \in Nat

Procs == Browsers \cup {Watcher}
Docs  == [body : Bodies \cup {Default, Blank}, token : 0 .. MaxTokens]

ASSUME NoFileAssumption == NoFile \notin [doc : Docs, at : Nat]

Doc(b)     == [body |-> b, token |-> 0]
BlankDoc   == Doc(Blank)
DefaultDoc == Doc(Default)

NeedsToken(d) == d.body \in Secured /\ d.token = 0

\* The modification time of the backups.
LongAgo == 1

VARIABLES
  file,      \* [doc, at]: contents and modification time, or NoFile
  clock,     \* modification time of the latest write
  open,      \* the Reloads whose os.WriteFile has open what is now the file
  raw, parsed,   \* the manager's fields; raw is BlankDoc before the first Reload
  lastMod,   \* lastModTime
  memOf,     \* modification time of what memory was read from
  writeMu,   \* who holds it
  tokens,    \* tokens generated so far
  changes,   \* edits of the operator, saves and writes that failed half-way so far
  pc, got, cfg, ver,        \* Reload: where, raw, parsed, time of the contents
  stamp,                    \* Reload: the time it is writing to lastModTime
  text, rev, data,          \* a browser's page: text, its revision, form
  base, new, match          \* a browser's save: made from, contents, If-Match

\* What nobody in the program remembers.
VARIABLES
  cut,       \* modification time of what an os.WriteFile left that failed half-way
  notedOf,   \* modification time of what the Reload had read that noted lastMod
  newest     \* latest modification time memory has been read from

disk  == <<file, clock, open, cut>>
noted == <<lastMod, notedOf>>
mem   == <<raw, parsed, memOf, newest>>
loc   == <<got, cfg, ver, stamp>>
page  == <<text, rev, data>>
save  == <<base, new, match>>
vars  == <<disk, mem, noted, writeMu, tokens, changes, pc, loc, page, save>>

Init ==
  /\ file \in {NoFile} \cup {[doc |-> Doc(b), at |-> LongAgo + 1] : b \in Bodies \ Broken}
  /\ clock = LongAgo + 1
  /\ open = {} /\ cut = 0
  /\ raw = BlankDoc /\ parsed = BlankDoc
  /\ lastMod = 0 /\ notedOf = 0
  /\ memOf = 0 /\ newest = 0
  /\ writeMu = Nobody
  /\ tokens = 0
  /\ changes = 0
  /\ pc = [p \in Procs |-> IF p = Watcher THEN "read" ELSE "ready"]
  /\ got = [p \in Procs |-> BlankDoc]
  /\ cfg = [p \in Procs |-> BlankDoc]
  /\ ver = [p \in Procs |-> 0]
  /\ stamp = [p \in Procs |-> 0]
  /\ text = [b \in Browsers |-> BlankDoc]
  /\ rev = [b \in Browsers |-> BlankDoc]
  /\ data = [b \in Browsers |-> BlankDoc]
  /\ base = [b \in Browsers |-> BlankDoc]
  /\ new = [b \in Browsers |-> BlankDoc]
  /\ match = [b \in Browsers |-> NoRev]

Go(p, l) == pc' = [pc EXCEPT ![p] = l]

Write(d) == clock' = clock + 1 /\ file' = [doc |-> d, at |-> clock + 1]

\* Somebody else puts d into the file, or another file with d in its place,
\* which no Reload has open.
WriteOver(d) == Write(d) /\ open' \in {open, {}} /\ UNCHANGED cut
Replace(d)   == Write(d) /\ open' = {} /\ UNCHANGED cut

\* app.New has loaded the configuration and the server runs.
Up == memOf > 0
-----------------------------------------------------------------------------
(* Reload, called by p. *)

\* Slip: the return of Reload does not release writeMu.
DoneKeepsLock(p) ==
  /\ Go(p, IF p = Watcher THEN "wait" ELSE "ready")
  /\ UNCHANGED writeMu
  /\ got' = [got EXCEPT ![p] = BlankDoc]
  /\ cfg' = [cfg EXCEPT ![p] = BlankDoc]
  /\ ver' = [ver EXCEPT ![p] = 0]
  /\ UNCHANGED stamp

\* Reload returns: SetRawIfRevision releases writeMu and the handler answers.
Done(p) ==
  /\ Go(p, IF p = Watcher THEN "wait" ELSE "ready")
  /\ writeMu' = IF p = Watcher THEN writeMu ELSE Nobody
  /\ got' = [got EXCEPT ![p] = BlankDoc]
  /\ cfg' = [cfg EXCEPT ![p] = BlankDoc]
  /\ ver' = [ver EXCEPT ![p] = 0]
  /\ UNCHANGED stamp

Hold(p, d, c, v) ==
  /\ got' = [got EXCEPT ![p] = d]
  /\ cfg' = [cfg EXCEPT ![p] = c]
  /\ ver' = [ver EXCEPT ![p] = v]
  /\ UNCHANGED stamp

\* Slip: the token goes into a copy.
TokenLost(d, k) == d

WithToken(d, k) == [d EXCEPT !.token = k]

\* ReadFile, parse, and a fresh token if one is wanted.
Read(p) ==
  /\ pc[p] = "read"
  /\ \/ /\ file = NoFile
        /\ Hold(p, DefaultDoc, DefaultDoc, clock)
        /\ Go(p, "truncate")
        /\ UNCHANGED <<tokens, writeMu>>
     \/ /\ file # NoFile
        /\ file.doc.body \in Broken
        /\ Done(p)
        /\ UNCHANGED tokens
     \/ /\ file # NoFile
        /\ file.doc.body \notin Broken
        /\ ~NeedsToken(file.doc)
        /\ Hold(p, file.doc, file.doc, file.at)
        /\ Go(p, "stat")
        /\ UNCHANGED <<tokens, writeMu>>
     \/ /\ file # NoFile
        /\ NeedsToken(file.doc)
        /\ tokens < MaxTokens
        /\ tokens' = tokens + 1
        /\ Hold(p, file.doc, WithToken(file.doc, tokens + 1), file.at)
        /\ Go(p, "truncate")
        /\ UNCHANGED writeMu
  /\ UNCHANGED <<disk, mem, noted, changes, page, save>>

\* os.WriteFile empties the file, then fills it.
Truncate(p) ==
  /\ pc[p] = "truncate"
  /\ Write(BlankDoc)
  /\ open' = open \cup {p}
  /\ Go(p, "fill")
  /\ UNCHANGED <<cut, mem, noted, writeMu, tokens, changes, loc, page, save>>

\* What is written into a file that was renamed over or removed reaches nobody.
Fill(p) ==
  /\ pc[p] = "fill"
  /\ \/ /\ p \in open
        /\ Write(cfg[p])
        /\ Hold(p, cfg[p], cfg[p], clock + 1)
     \/ /\ p \notin open
        /\ UNCHANGED <<file, clock>>
        /\ Hold(p, cfg[p], cfg[p], ver[p])
  /\ open' = open \ {p}
  /\ Go(p, "stat")
  /\ UNCHANGED <<cut, mem, noted, writeMu, tokens, changes, page, save>>

\* Reload goes on after a write that failed: what was read stays in raw, the
\* token is kept in memory; createDefaultConfig returns before its Stat.
Unwritten(p) == Go(p, IF cfg[p] = DefaultDoc THEN "set" ELSE "stat")

\* The disk is full, say: nothing or a piece of the document is in the file.
FillFails(p) ==
  /\ pc[p] = "fill"
  /\ changes < MaxChanges
  /\ changes' = changes + 1
  /\ \/ UNCHANGED <<file, clock>>
     \/ p \in open /\ \E x \in Pieces : Write(Doc(x))
  /\ cut' = IF p \in open THEN file'.at ELSE cut
  /\ open' = open \ {p}
  /\ Unwritten(p)
  /\ UNCHANGED <<mem, noted, writeMu, tokens, loc, page, save>>

\* It cannot open the file, or make its directory.
CannotWrite(p) ==
  /\ pc[p] = "truncate"
  /\ Unwritten(p)
  /\ UNCHANGED <<disk, mem, noted, writeMu, tokens, changes, loc, page, save>>

Stat(p) ==
  /\ pc[p] = "stat"
  /\ stamp' = [stamp EXCEPT ![p] = IF file = NoFile THEN 0 ELSE file.at]
  /\ Go(p, IF file = NoFile THEN "set" ELSE "stamp")
  /\ UNCHANGED <<disk, mem, noted, writeMu, tokens, changes, got, cfg, ver, page, save>>

\* lastModTime has several words and no lock.  A write that meets another one
\* may leave a mixture, older than either or later than both; the mixture stays.
Stamp(p) ==
  LET others == {q \in Procs \ {p} : pc[q] \in {"stamp", "torn"}}
  IN  /\ pc[p] \in {"stamp", "torn"}
      /\ \/ lastMod' = stamp[p] /\ notedOf' = ver[p]
         \/ /\ pc[p] = "torn" \/ others # {}
            /\ tokens < MaxTornTokens
            /\ lastMod' \in {0, clock + 1}
            /\ notedOf' = 0
      /\ stamp' = [stamp EXCEPT ![p] = 0]
      /\ pc' = [q \in Procs |-> IF q = p THEN "set" ELSE IF q \in others THEN "torn" ELSE pc[q]]
      /\ UNCHANGED <<disk, mem, writeMu, tokens, changes, got, cfg, ver, page, save>>

SetMemory(p) ==
  /\ pc[p] = "set"
  /\ raw' = got[p]
  /\ parsed' = cfg[p]
  /\ memOf' = ver[p]
  /\ newest' = IF ver[p] > newest THEN ver[p] ELSE newest
  /\ Done(p)
  /\ UNCHANGED <<disk, noted, tokens, changes, page, save>>

Reload(p) ==
  \/ Read(p)
  \/ Truncate(p) \/ Fill(p) \/ FillFails(p) \/ CannotWrite(p)
  \/ Stat(p) \/ Stamp(p) \/ SetMemory(p)
-----------------------------------------------------------------------------
(* checkAndReload. *)

\* Slip: the poll allows for a coarse clock.
PollCoarse ==
  /\ pc[Watcher] = "wait"
  /\ file # NoFile
  /\ file.at > lastMod + 1
  /\ Go(Watcher, "read")
  /\ UNCHANGED <<disk, mem, noted, writeMu, tokens, changes, loc, page, save>>

Poll ==
  /\ pc[Watcher] = "wait"
  /\ file # NoFile
  /\ file.at > lastMod
  /\ Go(Watcher, "read")
  /\ UNCHANGED <<disk, mem, noted, writeMu, tokens, changes, loc, page, save>>

\* The watcher reads a time that a save is writing: it may look older than it is.
PollTorn ==
  /\ pc[Watcher] = "wait"
  /\ file # NoFile
  /\ \E b \in Browsers : pc[b] \in {"stamp", "torn"}
  /\ tokens < MaxTornTokens
  /\ Go(Watcher, "read")
  /\ UNCHANGED <<disk, mem, noted, writeMu, tokens, changes, loc, page, save>>
-----------------------------------------------------------------------------
(* handleConfig and the page that calls it (downloadConfig, uploadConfig,  *)
(* saveGraphicalConfig).  A revision is a hash of raw and stands for it.   *)

\* GetRaw shows the default text for an empty document.
Shown(d) == IF d = BlankDoc THEN DefaultDoc ELSE d

\* The page is left.  A rejected save leaves it open, which is to submit later.
Leave(b) ==
  /\ text' = [text EXCEPT ![b] = BlankDoc]
  /\ rev' = [rev EXCEPT ![b] = BlankDoc]
  /\ data' = [data EXCEPT ![b] = BlankDoc]

GetRaw(b) ==
  /\ Up
  /\ pc[b] = "ready"
  /\ text' = [text EXCEPT ![b] = Shown(raw)]
  /\ Go(b, "revision")
  /\ UNCHANGED <<disk, mem, noted, writeMu, tokens, changes, loc, rev, data, save>>

\* The revision of the download, then the one of the form.
Revision(b) ==
  /\ pc[b] = "revision"
  /\ rev' = [rev EXCEPT ![b] = raw]
  /\ Go(b, "again")
  /\ UNCHANGED <<disk, mem, noted, writeMu, tokens, changes, loc, text, data, save>>

\* The page starts over when the two revisions differ.
RevisionAgain(b) ==
  /\ pc[b] = "again"
  /\ \/ rev[b] = raw /\ Go(b, "get") /\ UNCHANGED page
     \/ rev[b] # raw /\ Go(b, "ready") /\ Leave(b)
  /\ UNCHANGED <<disk, mem, noted, writeMu, tokens, changes, loc, save>>

Get(b) ==
  /\ pc[b] = "get"
  /\ data' = [data EXCEPT ![b] = parsed]
  /\ Go(b, "loaded")
  /\ UNCHANGED <<disk, mem, noted, writeMu, tokens, changes, loc, text, rev, save>>

\* Another body, with the token that was loaded or none.
Edited(d) == {[body |-> x, token |-> k] : x \in Bodies, k \in {0, d.token}}

Submit(b, from, m) ==
  /\ base' = [base EXCEPT ![b] = from]
  /\ \E d \in Edited(from) : new' = [new EXCEPT ![b] = d]
  /\ match' = [match EXCEPT ![b] = m]
  /\ changes < MaxChanges
  /\ changes' = changes + 1
  /\ Go(b, "save")
  /\ Leave(b)
  /\ UNCHANGED <<disk, mem, noted, writeMu, tokens, loc>>

Upload(b)   == pc[b] = "loaded" /\ Submit(b, text[b], rev[b])
SaveForm(b) == pc[b] = "loaded" /\ Submit(b, data[b], rev[b])

\* A script saves without If-Match.
SaveBlind(b) ==
  /\ Up
  /\ pc[b] = "ready"
  /\ Submit(b, BlankDoc, NoRev)

\* The page is closed or loaded again.
Close(b) ==
  /\ pc[b] = "loaded"
  /\ Go(b, "ready")
  /\ Leave(b)
  /\ UNCHANGED <<disk, mem, noted, writeMu, tokens, changes, loc, save>>

Acceptable(d) == d.body \notin Broken \cup Invalid \cup {Blank}
Current(b)    == match[b] = NoRev \/ match[b] = raw

\* SetRawIfRevision is through with its argument.
Forget(b) ==
  /\ base' = [base EXCEPT ![b] = BlankDoc]
  /\ new' = [new EXCEPT ![b] = BlankDoc]
  /\ match' = [match EXCEPT ![b] = NoRev]

\* SetRawIfRevision takes writeMu and checks.
SetRaw(b) ==
  /\ pc[b] = "save"
  /\ writeMu = Nobody
  /\ \/ /\ Acceptable(new[b]) /\ Current(b)
        /\ writeMu' = b
        /\ Go(b, "rename")
        /\ UNCHANGED save
     \/ /\ ~(Acceptable(new[b]) /\ Current(b))
        /\ Go(b, "ready")
        /\ Forget(b)
        /\ UNCHANGED writeMu
  /\ UNCHANGED <<disk, mem, noted, tokens, changes, loc, page>>

\* The temporary file is complete when it takes the place of the old one.
Rename(b) ==
  /\ pc[b] = "rename"
  /\ Replace(new[b])
  /\ Forget(b)
  /\ Go(b, "read")
  /\ UNCHANGED <<mem, noted, writeMu, tokens, changes, loc, page>>

\* Slip: a failure keeps writeMu.
SaveFailsLocked(b) ==
  /\ pc[b] = "rename"
  /\ Go(b, "ready")
  /\ Forget(b)
  /\ UNCHANGED <<disk, mem, noted, writeMu, tokens, changes, loc, page>>

\* Slip: the file is written in place, and the write fails.
SaveFailsInPlace(b) ==
  /\ pc[b] = "rename"
  /\ WriteOver(BlankDoc)
  /\ Go(b, "ready")
  /\ writeMu' = Nobody
  /\ Forget(b)
  /\ UNCHANGED <<mem, noted, tokens, changes, loc, page>>

\* MkdirAll, WriteFile or Rename fails.
SaveFails(b) ==
  /\ pc[b] = "rename"
  /\ Go(b, "ready")
  /\ writeMu' = Nobody
  /\ Forget(b)
  /\ UNCHANGED <<disk, mem, noted, tokens, changes, loc, page>>
-----------------------------------------------------------------------------
(* The operator. *)

Edit ==
  /\ Up
  /\ changes < MaxChanges
  /\ changes' = changes + 1
  /\ \E x \in Bodies : WriteOver(Doc(x))
  /\ UNCHANGED <<mem, noted, writeMu, tokens, pc, loc, page, save>>

Delete ==
  /\ Up
  /\ changes < MaxChanges
  /\ file # NoFile
  /\ changes' = changes + 1
  /\ file' = NoFile
  /\ open' = {}
  /\ UNCHANGED <<clock, cut, mem, noted, writeMu, tokens, pc, loc, page, save>>

\* cp -p, or the unpacking of an archive.
Restore ==
  /\ Up
  /\ changes < MaxChanges
  /\ changes' = changes + 1
  /\ \E x \in Backups : file' = [doc |-> Doc(x), at |-> LongAgo]
  /\ open' \in {open, {}}
  /\ UNCHANGED <<clock, cut, mem, noted, writeMu, tokens, pc, loc, page, save>>

Load(b) == GetRaw(b) \/ Revision(b) \/ RevisionAgain(b) \/ Get(b) \/ Close(b)
Save(b) == Upload(b) \/ SaveForm(b) \/ SaveBlind(b)

Next ==
  \/ \E p \in Procs : Reload(p)
  \/ Poll \/ PollTorn
  \/ \E b \in Browsers : Load(b) \/ Save(b) \/ SetRaw(b) \/ Rename(b) \/ SaveFails(b)
  \/ Edit \/ Delete \/ Restore

\* Goroutines and handlers go on; a disk that can be written is written, but
\* nobody has to load, save or edit anything.
Fairness ==
  /\ WF_vars(Poll)
  /\ \A p \in Procs : WF_vars(Reload(p))
  /\ \A b \in Browsers : WF_vars(SetRaw(b)) /\ WF_vars(Rename(b) \/ SaveFails(b))

Spec == Init /\ [][Next]_vars /\ Fairness
-----------------------------------------------------------------------------
Reloading == {"read", "truncate", "fill", "stat", "stamp", "torn", "set"}
Locations == Reloading \cup
             {"wait", "ready", "revision", "again", "get", "loaded", "save", "rename"}

\* Every variable stays in its domain; what a Reload has open exists; only a
\* browser past the checks of SetRawIfRevision holds writeMu and touches the file.
TypeOK ==
  /\ file \in {NoFile} \cup [doc : Docs, at : 1 .. clock]
  /\ clock \in Nat
  /\ open \subseteq Procs /\ (open # {} => file # NoFile)
  /\ {raw, parsed} \subseteq Docs
  /\ lastMod \in 0 .. clock + 1 /\ {cut, notedOf, memOf, newest} \subseteq 0 .. clock
  /\ writeMu \in Browsers \cup {Nobody}
  /\ tokens \in 0 .. MaxTokens
  /\ changes \in 0 .. MaxChanges
  /\ pc \in [Procs -> Locations]
  /\ \A b \in Browsers :
       writeMu = b <=> pc[b] \in Reloading \cup {"rename"}
  /\ {got, cfg} \subseteq [Procs -> Docs]
  /\ {ver, stamp} \subseteq [Procs -> 0 .. clock]
  /\ {text, rev, data, base, new} \subseteq [Browsers -> Docs]
  /\ match \in [Browsers -> Docs \cup {NoRev}]

\* What the server enforces is what it shows: the parsed configuration is the
\* raw one, and has a token where it must have one; the raw one lacks it only
\* when the token could not be saved (config.go:241-267).
MemoryAgrees ==
  /\ parsed.body = raw.body
  /\ ~NeedsToken(parsed)
  /\ raw.token # parsed.token => NeedsToken(raw)

\* An empty file is one that a Reload has open and is about to fill, or whose
\* filling failed and which nobody has written since: whichever step of a save
\* through the pages fails, none leaves half a configuration behind
\* (config.go:250, 282, 314-327).
HalfFileIsOfAReload ==
  file # NoFile /\ file.doc = BlankDoc =>
    cut = file.at \/ \E p \in open : pc[p] = "fill"

\* Every save is answered: writeMu is released on every path, also when the
\* file is gone, broken or overwritten by the time Reload reads it back
\* (config.go:301-302, 327).
EverySaveEnds == \A b \in Browsers : pc[b] = "save" ~> pc[b] = "ready"

Loadable == file # NoFile /\ file.doc.body \notin Broken

\* Three ways in which memory may stay behind.  The Reload that noted lastModTime
\* noted a later time than that of what it had read: the file was written in
\* between, its own write came to nothing, or two writes of the time mixed.
NotedTooLate == lastMod > notedOf

\* Two Reloads put what they had read into memory in the other order.
WentBack == memOf < newest

\* The file was replaced by one older than what was noted.
PutBack == file.at = LongAgo

\* The memory stays behind the file only in those three ways: every other
\* interleaving of edits, saves, generated tokens, failed writes, deletions and
\* broken files is caught up with by some poll (config.go:211-271, 412-428).
StaleOnlyByRace == <>[](Loadable => raw = file.doc \/ NotedTooLate \/ WentBack \/ PutBack)

\* At any moment, if the watcher would find the file no newer than what was
\* noted, memory is the file or a Reload is about to make it so, but for the
\* three ways: nothing else hides a change from a poll (config.go:264-268, 412-428).
NothingHidden ==
  Loadable /\ file.at <= lastMod =>
    \/ raw = file.doc
    \/ \E p \in Procs : pc[p] = "set" /\ got[p] = file.doc
    \/ NotedTooLate \/ WentBack \/ PutBack

\* The documented promise: a change of the file is loaded without a restart
\* (README.md:696); it takes more than one poll only while the file changes.
HotReload == <>[](Loadable => raw = file.doc)

\* The documented promise: a save that names a revision is refused when the
\* configuration has changed since it was loaded (config.go:298, api.go:324):
\* what it replaces is what it was made from.
NoLostUpdate ==
  [][\A b \in Browsers :
       pc[b] = "save" /\ pc'[b] = "rename" /\ match[b] # NoRev =>
         base[b].body = Shown(raw).body]_vars
-----------------------------------------------------------------------------
(* The strengthening that makes NothingHidden inductive. *)

\* What anybody read of the file while it had the time it has now is what it
\* holds, and that time is the latest.
OneDocPerTime ==
  /\ \A p \in Procs : pc[p] = "fill" => ver[p] < clock
  /\ file # NoFile /\ file.at > LongAgo =>
       /\ file.at = clock
       /\ memOf = file.at => raw = file.doc
       /\ \A p \in Procs : ver[p] = file.at => got[p] = file.doc

\* Who noted lastModTime has put what it had read into memory, or is about to.
NotedIsUsed ==
  /\ memOf <= newest
  /\ notedOf <= newest \/ \E p \in Procs : pc[p] = "set" /\ ver[p] = notedOf
-----------------------------------------------------------------------------
(* What EverySaveEnds rests on. *)

\* How far a Reload, or the save it is part of, is from its return.
Left(p) ==
  CASE pc[p] = "rename"            -> 7
    [] pc[p] = "read"              -> 6
    [] pc[p] = "truncate"          -> 5
    [] pc[p] = "fill"              -> 4
    [] pc[p] = "stat"              -> 3
    [] pc[p] \in {"stamp", "torn"} -> 2
    [] pc[p] = "set"               -> 1
    [] OTHER                       -> 0

\* Who holds writeMu gets nearer to its release with each of its steps, whatever
\* happens to the file and whoever writes lastModTime beside it, and lets go of
\* it only with an answer; so it is with the Reload of the watcher
\* (config.go:211-271, 301-327).
ReloadsMoveOn ==
  [][\A p \in Procs : Left(p) > 0 =>
       /\ Left(p)' <= Left(p)
       /\ Reload(p) => Left(p)' < Left(p)
       /\ p \in Browsers /\ (Rename(p) \/ SaveFails(p)) => Left(p)' < Left(p)
       /\ writeMu = p /\ writeMu' # p => pc'[p] = "ready"]_vars
=============================================================================
