------------------------- MODULE ConfigManagerProofs -------------------------
(***************************************************************************)
(* Theorems about the configuration manager, for any number of browsers,   *)
(* edits, tokens and configurations.                                       *)
(***************************************************************************)
EXTENDS ConfigManager, TLAPS

USE DocAssumption, ProcAssumption, NoFileAssumption, BoundAssumption DEF disk, noted

\* From its ReadFile on, a Reload holds a configuration to put into memory.
Holding == {"truncate", "fill", "stat", "stamp", "torn", "set"}

\* What may be put into memory, as MemoryAgrees says of it there.
Fits(d, c) ==
  /\ c.body = d.body
  /\ ~NeedsToken(c)
  /\ d.token # c.token => NeedsToken(d)

\* What MemoryAgrees rests on: what a Reload holds is fit for memory; and neither
\* a Reload nor a save is about to write an empty document.
Ready ==
  /\ Fits(raw, parsed)
  /\ \A p \in Procs : pc[p] \in Holding => Fits(got[p], cfg[p])
  /\ \A p \in Procs : pc[p] \in {"truncate", "fill"} => cfg[p] # BlankDoc
  /\ \A b \in Browsers : pc[b] = "rename" => new[b] # BlankDoc

\* Only a Reload between the two steps of os.WriteFile has the file open, and an
\* empty file has one or is what a failed write left.
Opened ==
  /\ \A p \in open : pc[p] = "fill"
  /\ file # NoFile /\ file.doc = BlankDoc => cut = file.at \/ open # {}
-----------------------------------------------------------------------------
(* Types. *)

LEMMA DocsHave ==
  /\ BlankDoc \in Docs /\ DefaultDoc \in Docs /\ DefaultDoc # BlankDoc
  /\ \A x \in Bodies : Doc(x) \in Docs /\ Doc(x) # BlankDoc
  /\ ~NeedsToken(BlankDoc) /\ ~NeedsToken(DefaultDoc)
<1>1. ASSUME NEW x \in Bodies \cup {Default, Blank}
      PROVE  Doc(x) \in Docs /\ Doc(x).body = x
  BY DEF Doc, Docs
<1>2. BlankDoc \in Docs /\ DefaultDoc \in Docs /\ BlankDoc.body = Blank /\ DefaultDoc.body = Default
  BY <1>1 DEF BlankDoc, DefaultDoc
<1>3. DefaultDoc # BlankDoc /\ ~NeedsToken(BlankDoc) /\ ~NeedsToken(DefaultDoc)
  BY <1>2 DEF NeedsToken
<1> QED BY <1>1, <1>2, <1>3

LEMMA InitTypeOK == Init => TypeOK
BY DocsHave DEF Init, TypeOK, Docs, Doc, Locations, Reloading, LongAgo, Procs

\* The return of a Reload.
LEMMA DoneTypeOK ==
  ASSUME TypeOK, NEW p \in Procs, Done(p), pc[p] \in Reloading
  PROVE  /\ pc' \in [Procs -> Locations]
         /\ writeMu' \in Browsers \cup {Nobody}
         /\ \A b \in Browsers : writeMu' = b <=> pc'[b] \in Reloading \cup {"rename"}
         /\ {got', cfg'} \subseteq [Procs -> Docs]
         /\ {ver', stamp'} \subseteq [Procs -> 0 .. clock]
BY DocsHave DEF TypeOK, Done, Go, Locations, Reloading, Procs

\* A Reload that has read something.
LEMMA HoldTypeOK ==
  ASSUME TypeOK, NEW p \in Procs, pc[p] = "read",
         NEW d \in Docs, NEW c \in Docs, NEW v \in 0 .. clock, NEW l \in {"truncate", "stat"},
         Hold(p, d, c, v), Go(p, l), tokens' \in 0 .. MaxTokens,
         UNCHANGED <<disk, mem, noted, changes, page, save, writeMu>>
  PROVE  TypeOK'
BY DEF TypeOK, Hold, Go, Locations, Reloading, Procs, page, save, mem

LEMMA ReadTypeOK ==
  ASSUME TypeOK, NEW p \in Procs, Read(p)
  PROVE  TypeOK'
<1>0. pc[p] = "read" /\ UNCHANGED <<disk, mem, noted, changes, page, save>>
  BY DEF Read
<1>1. CASE file = NoFile
  <2>1. Hold(p, DefaultDoc, DefaultDoc, clock) /\ Go(p, "truncate") /\ UNCHANGED <<tokens, writeMu>>
    BY <1>1 DEF Read
  <2>2. DefaultDoc \in Docs /\ clock \in 0 .. clock /\ tokens \in 0 .. MaxTokens
    BY DocsHave DEF TypeOK
  <2> QED BY <1>0, <2>1, <2>2, HoldTypeOK
<1>2. CASE file # NoFile /\ file.doc.body \in Broken
  BY <1>2, DoneTypeOK DEF TypeOK, Read, Reloading, NeedsToken, page, save, mem
<1>3. CASE file # NoFile /\ ~NeedsToken(file.doc) /\ file.doc.body \notin Broken
  <2>1. file.doc \in Docs /\ file.at \in 0 .. clock /\ tokens \in 0 .. MaxTokens
    BY <1>3 DEF TypeOK
  <2>2. Hold(p, file.doc, file.doc, file.at) /\ Go(p, "stat") /\ UNCHANGED <<tokens, writeMu>>
    BY <1>3 DEF Read
  <2> QED BY <1>0, <2>1, <2>2, HoldTypeOK
<1>4. CASE file # NoFile /\ NeedsToken(file.doc) /\ file.doc.body \notin Broken
  <2>1. file.doc \in Docs /\ file.at \in 0 .. clock
    BY <1>4 DEF TypeOK
  <2>2. tokens' = tokens + 1 /\ tokens' \in 0 .. MaxTokens
    BY <1>4 DEF TypeOK, Read
  <2>3. WithToken(file.doc, tokens + 1) \in Docs
    BY <2>1, <2>2 DEF WithToken, Docs
  <2>4. /\ Hold(p, file.doc, WithToken(file.doc, tokens + 1), file.at) /\ Go(p, "truncate")
        /\ UNCHANGED writeMu
    BY <1>4 DEF Read
  <2> QED BY <1>0, <2>1, <2>2, <2>3, <2>4, HoldTypeOK
<1> QED BY <1>1, <1>2, <1>3, <1>4 DEF Read

LEMMA WritingTypeOK ==
  ASSUME TypeOK, NEW p \in Procs,
         Truncate(p) \/ Fill(p) \/ FillFails(p) \/ CannotWrite(p)
  PROVE  TypeOK'
<1> USE DEF page, save, mem, loc
<1>1. CASE Truncate(p)
  BY <1>1, DocsHave DEF TypeOK, Truncate, Write, Go, Locations, Reloading, Procs
<1>2. CASE Fill(p)
  BY <1>2 DEF TypeOK, Fill, Write, Hold, Go, Locations, Reloading, Procs
<1>3. CASE FillFails(p)
  <2>1. /\ file' \in {NoFile} \cup [doc : Docs, at : 1 .. clock'] /\ clock' \in Nat /\ clock <= clock'
        /\ file # NoFile => file' # NoFile
    BY <1>3, DocsHave DEF TypeOK, FillFails, Write
  <2>2. changes' \in 0 .. MaxChanges /\ cut' \in 0 .. clock'
    BY <1>3, <2>1 DEF TypeOK, FillFails
  <2>3. pc[p] = "fill" /\ \E l \in {"set", "stat"} : Go(p, l)
    BY <1>3 DEF FillFails, Unwritten
  <2> QED BY <1>3, <2>1, <2>2, <2>3 DEF TypeOK, FillFails, Go, Locations, Reloading, Procs
<1>4. CASE CannotWrite(p)
  BY <1>4 DEF TypeOK, CannotWrite, Unwritten, Go, Locations, Reloading, Procs
<1> QED BY <1>1, <1>2, <1>3, <1>4

LEMMA StampingTypeOK ==
  ASSUME TypeOK, NEW p \in Procs, Stat(p) \/ Stamp(p) \/ SetMemory(p)
  PROVE  TypeOK'
<1> USE DEF page, save, mem
<1>1. CASE Stat(p)
  BY <1>1 DEF TypeOK, Stat, Go, Locations, Reloading, Procs
<1>2. CASE Stamp(p)
  <2>1. lastMod' \in 0 .. clock + 1 /\ notedOf' \in 0 .. clock
    BY <1>2 DEF TypeOK, Stamp
  <2>2. stamp' \in [Procs -> 0 .. clock]
    BY <1>2 DEF TypeOK, Stamp
  <2>3. /\ pc' \in [Procs -> Locations]
        /\ \A q \in Procs : pc'[q] \in Reloading \cup {"rename"} <=> pc[q] \in Reloading \cup {"rename"}
    BY <1>2 DEF TypeOK, Stamp, Locations, Reloading
  <2> QED BY <1>2, <2>1, <2>2, <2>3 DEF TypeOK, Stamp, Procs
<1>3. CASE SetMemory(p)
  BY <1>3, DoneTypeOK DEF TypeOK, SetMemory, Reloading
<1> QED BY <1>1, <1>2, <1>3

LEMMA LoadTypeOK ==
  ASSUME TypeOK, NEW b \in Browsers, Load(b)
  PROVE  TypeOK'
<1> USE DocsHave DEF save, mem, loc, page, Locations, Reloading, Procs, Go, Leave, Shown
<1>1. CASE GetRaw(b)
  BY <1>1 DEF TypeOK, GetRaw
<1>2. CASE Revision(b)
  BY <1>2 DEF TypeOK, Revision
<1>3. CASE RevisionAgain(b)
  BY <1>3 DEF TypeOK, RevisionAgain
<1>4. CASE Get(b)
  BY <1>4 DEF TypeOK, Get
<1>5. CASE Close(b)
  BY <1>5 DEF TypeOK, Close
<1> QED BY <1>1, <1>2, <1>3, <1>4, <1>5 DEF Load

LEMMA SubmitTypeOK ==
  ASSUME TypeOK, NEW b \in Browsers, NEW d \in Docs, NEW m \in Docs \cup {NoRev},
         Submit(b, d, m), pc[b] \in {"loaded", "ready"}
  PROVE  TypeOK'
<1>1. Edited(d) \subseteq Docs
  BY DEF Edited, Docs
<1>2. new' \in [Browsers -> Docs] /\ base' \in [Browsers -> Docs]
      /\ match' \in [Browsers -> Docs \cup {NoRev}]
  BY <1>1 DEF TypeOK, Submit
<1>3. pc' \in [Procs -> Locations]
      /\ \A c \in Browsers : pc'[c] \in Reloading \cup {"rename"} <=> pc[c] \in Reloading \cup {"rename"}
  BY DEF TypeOK, Submit, Go, Locations, Reloading, Procs
<1>4. changes' \in 0 .. MaxChanges
  BY DEF TypeOK, Submit
<1> QED BY <1>2, <1>3, <1>4, DocsHave DEF TypeOK, Submit, Leave, mem, loc

LEMMA SaveTypeOK ==
  ASSUME TypeOK, NEW b \in Browsers, Save(b)
  PROVE  TypeOK'
<1>1. {text[b], rev[b], data[b]} \subseteq Docs
  BY DEF TypeOK
<1> QED BY <1>1, SubmitTypeOK, DocsHave DEF Save, Upload, SaveForm, SaveBlind

LEMMA SetRawTypeOK ==
  ASSUME TypeOK, NEW b \in Browsers, SetRaw(b) \/ Rename(b) \/ SaveFails(b)
  PROVE  TypeOK'
<1> USE DocsHave DEF mem, loc, page, save, Locations, Reloading, Procs, Go, Forget
<1>1. CASE SetRaw(b)
  BY <1>1 DEF TypeOK, SetRaw
<1>2. CASE Rename(b)
  BY <1>2 DEF TypeOK, Rename, Write, Replace
<1>3. CASE SaveFails(b)
  BY <1>3 DEF TypeOK, SaveFails
<1> QED BY <1>1, <1>2, <1>3

LEMMA OperatorTypeOK ==
  ASSUME TypeOK, Poll \/ PollTorn \/ Edit \/ Delete \/ Restore
  PROVE  TypeOK'
<1> USE DocsHave DEF mem, loc, page, save
<1>1. CASE Poll \/ PollTorn
  BY <1>1 DEF TypeOK, Poll, PollTorn, Go, Locations, Reloading, Procs
<1>2. CASE Edit
  BY <1>2 DEF TypeOK, Edit, Write, WriteOver
<1>3. CASE Delete
  BY <1>3 DEF TypeOK, Delete
<1>4. CASE Restore
  BY <1>4 DEF TypeOK, Restore, LongAgo, Up
<1> QED BY <1>1, <1>2, <1>3, <1>4

LEMMA NextTypeOK ==
  ASSUME TypeOK, [Next]_vars
  PROVE  TypeOK'
<1>1. CASE UNCHANGED vars
  BY <1>1 DEF TypeOK, vars, mem, loc, page, save
<1>2. CASE Next
  BY <1>2, ReadTypeOK, WritingTypeOK, StampingTypeOK, LoadTypeOK, SaveTypeOK, SetRawTypeOK,
     OperatorTypeOK
     DEF Next, Reload
<1> QED BY <1>1, <1>2

\* Every variable of the manager keeps to its domain, and whoever is past the
\* checks of SetRawIfRevision holds writeMu, alone (config.go:294-328).
THEOREM Typing == Spec => []TypeOK
<1>1. Init => TypeOK
  BY InitTypeOK
<1>2. TypeOK /\ [Next]_vars => TypeOK'
  BY NextTypeOK
<1> QED BY <1>1, <1>2, PTL DEF Spec
-----------------------------------------------------------------------------
(* What is put into memory and into the file. *)

LEMMA InitReady == Init => Ready
BY DocsHave DEF Init, Ready, Fits, Holding, Procs

\* Steps that touch neither what a Reload holds nor the file.
LEMMA ReadyStays ==
  ASSUME Ready, TypeOK, UNCHANGED <<raw, parsed, got, cfg>>,
         \A p \in Procs : pc'[p] \in Holding => pc[p] \in Holding,
         \A p \in Procs : pc'[p] \in {"truncate", "fill"} => pc[p] \in {"truncate", "fill"},
         \A b \in Browsers : pc'[b] = "rename" => new'[b] # BlankDoc
  PROVE  Ready'
BY DEF Ready, Fits, NeedsToken, BlankDoc, Doc

LEMMA ReadReady ==
  ASSUME Ready, TypeOK, NEW p \in Procs, Read(p)
  PROVE  Ready'
<1>0. file # NoFile => file.doc \in Docs
  BY DEF TypeOK
<1>1. ASSUME NEW d, NEW c, NEW v, NEW l \in {"truncate", "stat"}, Hold(p, d, c, v), Go(p, l),
             Fits(d, c), l = "truncate" => c # BlankDoc
      PROVE  Ready'
  <2>1. pc' = [pc EXCEPT ![p] = l] /\ got' = [got EXCEPT ![p] = d] /\ cfg' = [cfg EXCEPT ![p] = c]
    BY <1>1 DEF Hold, Go
  <2>2. \A q \in Procs : pc'[q] \in Holding => Fits(got'[q], cfg'[q])
    BY <1>1, <2>1 DEF Ready, TypeOK
  <2>3. \A q \in Procs : pc'[q] \in {"truncate", "fill"} => cfg'[q] # BlankDoc
    BY <1>1, <2>1 DEF Ready, TypeOK
  <2>4. \A b \in Browsers : pc'[b] = "rename" => pc[b] = "rename"
    BY <2>1 DEF TypeOK, Procs
  <2> QED BY <2>2, <2>3, <2>4 DEF Ready, Read, mem, save, Fits, NeedsToken, BlankDoc, Doc
<1>2. CASE file = NoFile
  BY <1>1, <1>2, DocsHave DEF Read, Fits
<1>3. CASE file # NoFile /\ file.doc.body \in Broken
  <2>1. /\ \A q \in Procs : pc'[q] = pc[q] \/ (q = p /\ pc'[q] \in {"wait", "ready"})
        /\ UNCHANGED <<mem, save>>
        /\ \A q \in Procs \ {p} : got'[q] = got[q] /\ cfg'[q] = cfg[q]
        /\ pc[p] = "read" /\ pc'[p] \in {"wait", "ready"}
    BY <1>3 DEF Read, Done, Go, TypeOK, NeedsToken
  <2> QED BY <2>1 DEF Ready, mem, save, Fits, NeedsToken, Holding, BlankDoc, Doc, Procs
<1>4. CASE file # NoFile /\ file.doc.body \notin Broken /\ ~NeedsToken(file.doc)
  BY <1>1, <1>4 DEF Read, Fits
<1>5. CASE file # NoFile /\ file.doc.body \notin Broken /\ NeedsToken(file.doc)
  <2> DEFINE c == WithToken(file.doc, tokens + 1)
  <2>1. c.body = file.doc.body /\ c.token = tokens + 1 /\ tokens + 1 # 0
    BY <1>0, <1>5 DEF WithToken, Docs, TypeOK
  <2>2. Fits(file.doc, c) /\ c # BlankDoc
    BY <1>5, <2>1 DEF Fits, NeedsToken, BlankDoc, Doc
  <2>3. Hold(p, file.doc, c, file.at) /\ Go(p, "truncate")
    BY <1>5 DEF Read
  <2> HIDE DEF c
  <2> QED BY <1>1, <2>2, <2>3
<1> QED BY <1>2, <1>3, <1>4, <1>5 DEF Read

LEMMA WritingReady ==
  ASSUME Ready, TypeOK, NEW p \in Procs,
         Truncate(p) \/ Fill(p) \/ FillFails(p) \/ CannotWrite(p)
  PROVE  Ready'
<1>1. CASE Truncate(p)
  BY <1>1 DEF Ready, TypeOK, Truncate, Go, Write, Holding, mem, loc, save, Procs, Fits, NeedsToken,
              BlankDoc, Doc
<1>2. CASE Fill(p)
  <2>1. cfg[p] # BlankDoc /\ Fits(cfg[p], cfg[p])
    BY <1>2 DEF Fill, Ready, Holding, Fits
  <2>2. /\ pc' = [pc EXCEPT ![p] = "stat"]
        /\ got' = [got EXCEPT ![p] = cfg[p]] /\ cfg' = [cfg EXCEPT ![p] = cfg[p]]
    BY <1>2 DEF Fill, Hold, Go
  <2>3. \A q \in Procs : pc'[q] \in Holding => Fits(got'[q], cfg'[q])
    BY <2>1, <2>2 DEF Ready, TypeOK
  <2>4. \A q \in Procs : pc'[q] \in {"truncate", "fill"} => cfg'[q] # BlankDoc
    BY <2>2 DEF Ready, TypeOK
  <2>5. \A b \in Browsers : pc'[b] = "rename" => pc[b] = "rename"
    BY <2>2 DEF TypeOK, Procs
  <2> QED BY <1>2, <2>3, <2>4, <2>5
          DEF Ready, Fill, mem, save, Fits, NeedsToken, BlankDoc, Doc
<1>3. CASE FillFails(p) \/ CannotWrite(p)
  <2>1. /\ \A q \in Procs \ {p} : pc'[q] = pc[q]
        /\ pc[p] \in {"truncate", "fill"} /\ pc'[p] \in {"set", "stat"}
        /\ UNCHANGED <<mem, loc, save>>
    BY <1>3 DEF FillFails, CannotWrite, Unwritten, Go, TypeOK
  <2> QED BY <2>1 DEF Ready, Holding, mem, loc, save, Procs, Fits, NeedsToken, BlankDoc, Doc
<1> QED BY <1>1, <1>2, <1>3

LEMMA StampingReady ==
  ASSUME Ready, TypeOK, NEW p \in Procs, Stat(p) \/ Stamp(p) \/ SetMemory(p)
  PROVE  Ready'
<1>1. CASE Stat(p)
  BY <1>1, ReadyStays DEF Ready, Stat, Go, TypeOK, Holding, mem, save, Procs
<1>2. CASE Stamp(p)
  BY <1>2, ReadyStays DEF Ready, Stamp, TypeOK, Holding, mem, save, Procs
<1>3. CASE SetMemory(p)
  <2>1. Fits(got[p], cfg[p]) /\ raw' = got[p] /\ parsed' = cfg[p]
    BY <1>3 DEF SetMemory, Ready, Holding
  <2>2. /\ \A q \in Procs \ {p} : pc'[q] = pc[q] /\ got'[q] = got[q] /\ cfg'[q] = cfg[q]
        /\ pc[p] = "set" /\ pc'[p] \in {"wait", "ready"}
        /\ UNCHANGED save
    BY <1>3 DEF SetMemory, Done, Go, TypeOK
  <2> QED BY <2>1, <2>2 DEF Ready, Holding, save, Procs, Fits, NeedsToken, BlankDoc, Doc
<1> QED BY <1>1, <1>2, <1>3

LEMMA BrowserReady ==
  ASSUME Ready, TypeOK, NEW b \in Browsers,
         Load(b) \/ Save(b) \/ SetRaw(b) \/ Rename(b) \/ SaveFails(b)
  PROVE  Ready'
<1> USE DEF Go, Holding, mem, loc, save, Procs
<1>1. CASE Load(b)
  <2>1. UNCHANGED <<mem, loc, save>>
    BY <1>1 DEF Load, GetRaw, Revision, RevisionAgain, Get, Close
  <2>2. PICK l \in {"revision", "again", "get", "ready", "loaded"} : pc' = [pc EXCEPT ![b] = l]
    BY <1>1 DEF Load, GetRaw, Revision, RevisionAgain, Get, Close
  <2>3. pc[b] \in {"ready", "revision", "again", "get", "loaded"}
    BY <1>1 DEF Load, GetRaw, Revision, RevisionAgain, Get, Close
  <2> QED BY <2>1, <2>2, <2>3, ReadyStays DEF Ready, TypeOK
<1>2. CASE Save(b)
  <2>1. UNCHANGED <<mem, loc>> /\ pc' = [pc EXCEPT ![b] = "save"] /\ pc[b] \in {"loaded", "ready"}
    BY <1>2 DEF Save, Upload, SaveForm, SaveBlind, Submit
  <2>2. \A c \in Browsers \ {b} : new'[c] = new[c]
    BY <1>2 DEF Save, Upload, SaveForm, SaveBlind, Submit, TypeOK
  <2> QED BY <2>1, <2>2, ReadyStays DEF Ready, TypeOK
<1>3. CASE SetRaw(b)
  <2>1. Acceptable(new[b]) => new[b] # BlankDoc
    BY DEF Acceptable, BlankDoc, Doc
  <2>2. UNCHANGED <<mem, loc>> /\ pc[b] = "save" /\ \A c \in Browsers \ {b} : new'[c] = new[c]
    BY <1>3 DEF SetRaw, Forget, TypeOK
  <2>3. \/ pc' = [pc EXCEPT ![b] = "ready"]
        \/ pc' = [pc EXCEPT ![b] = "rename"] /\ new' = new /\ Acceptable(new[b])
    BY <1>3 DEF SetRaw
  <2> QED BY <2>1, <2>2, <2>3, ReadyStays DEF Ready, TypeOK
<1>4. CASE Rename(b)
  <2>1. /\ UNCHANGED <<mem, loc>>
        /\ pc' = [pc EXCEPT ![b] = "read"] /\ \A c \in Browsers \ {b} : new'[c] = new[c]
    BY <1>4 DEF Rename, Forget, TypeOK
  <2> QED BY <1>4, <2>1, ReadyStays DEF Ready, TypeOK, Rename
<1>5. CASE SaveFails(b)
  <2>1. /\ UNCHANGED <<mem, loc>> /\ pc[b] = "rename"
        /\ pc' = [pc EXCEPT ![b] = "ready"] /\ \A c \in Browsers \ {b} : new'[c] = new[c]
    BY <1>5 DEF SaveFails, Forget, TypeOK
  <2> QED BY <2>1, ReadyStays DEF Ready, TypeOK
<1> QED BY <1>1, <1>2, <1>3, <1>4, <1>5

LEMMA OperatorReady ==
  ASSUME Ready, TypeOK, Poll \/ PollTorn \/ Edit \/ Delete \/ Restore
  PROVE  Ready'
<1> USE DEF mem, loc, save
<1>1. CASE Poll \/ PollTorn
  <2>1. pc' = [pc EXCEPT ![Watcher] = "read"] /\ pc[Watcher] = "wait" /\ UNCHANGED <<mem, loc, save>>
    BY <1>1 DEF Poll, PollTorn, Go
  <2> QED BY <2>1, ReadyStays DEF Ready, TypeOK, Holding, Procs
<1>2. CASE Edit \/ Delete \/ Restore
  BY <1>2, ReadyStays DEF Ready, Edit, Delete, Restore
<1> QED BY <1>1, <1>2

\* What is read, completed with a token and put into memory or written stays fit
\* for it, whoever else reads and writes meanwhile and whichever writes fail.
THEOREM Invariance == Spec => []Ready
<1>1. Init => Ready
  BY InitReady
<1>2. ASSUME Ready, TypeOK, [Next]_vars
      PROVE  Ready'
  <2>1. CASE UNCHANGED vars
    BY <1>2, <2>1, ReadyStays DEF Ready, vars, mem, loc, save
  <2>2. CASE Next
    BY <1>2, <2>2, ReadReady, WritingReady, StampingReady, BrowserReady, OperatorReady
       DEF Next, Reload
  <2> QED BY <1>2, <2>1, <2>2
<1> QED BY <1>1, <1>2, Typing, PTL DEF Spec

\* The configuration the server goes by is the one it shows, and has a token
\* where it must have one (config.go:241-267).
THEOREM Agreement == Spec => []MemoryAgrees
<1>1. Ready => MemoryAgrees
  BY DEF Ready, Fits, MemoryAgrees
<1> QED BY <1>1, Invariance, PTL

-----------------------------------------------------------------------------
(* What is left in the file. *)

\* A step that writes nothing and lets no Reload go on from the truncation.
LEMMA SameFileOpened ==
  ASSUME Opened, UNCHANGED <<file, open, cut>>,
         \A p \in Procs : pc[p] = "fill" => pc'[p] = "fill", open \subseteq Procs
  PROVE  Opened'
BY DEF Opened

\* Somebody writes a document that is not empty.
LEMMA WriteOpened ==
  ASSUME Opened, NEW d, Write(d), d # BlankDoc, NEW S \in SUBSET open, open' = S,
         \A p \in S : pc[p] = "fill" => pc'[p] = "fill"
  PROVE  Opened'
<1>1. file'.doc = d
  BY DEF Write
<1> QED BY <1>1 DEF Opened

LEMMA ReloadOpened ==
  ASSUME Opened, Ready, TypeOK, NEW p \in Procs, Reload(p)
  PROVE  Opened'
<1>0. pc \in [Procs -> Locations] /\ open \subseteq Procs
  BY DEF TypeOK
<1>1. ASSUME NEW l, Go(p, l) PROVE pc'[p] = l /\ \A q \in Procs \ {p} : pc'[q] = pc[q]
  BY <1>0, <1>1 DEF Go
<1>2. CASE Read(p) \/ CannotWrite(p) \/ Stat(p) \/ SetMemory(p)
  <2>1. pc[p] # "fill" /\ UNCHANGED <<file, open, cut>> /\ \E l : Go(p, l)
    BY <1>2 DEF Read, CannotWrite, Unwritten, Stat, SetMemory, Done
  <2> QED BY <1>0, <1>1, <2>1, SameFileOpened
<1>3. CASE Stamp(p)
  <2>1. UNCHANGED <<file, open, cut>> /\ \A q \in Procs : pc[q] = "fill" => pc'[q] = "fill"
    BY <1>0, <1>3 DEF Stamp
  <2> QED BY <1>0, <2>1, SameFileOpened
<1>4. CASE Truncate(p)
  <2>1. open' = open \cup {p}
    BY <1>4 DEF Truncate
  <2>2. pc'[p] = "fill" /\ \A q \in Procs \ {p} : pc'[q] = pc[q]
    BY <1>1, <1>4 DEF Truncate
  <2> QED BY <1>0, <2>1, <2>2 DEF Opened
<1>5. CASE Fill(p)
  <2>1. cfg[p] # BlankDoc /\ open' = open \ {p} /\ \A q \in Procs \ {p} : pc'[q] = pc[q]
    BY <1>1, <1>5 DEF Fill, Ready
  <2>2. CASE p \in open
    BY <1>0, <1>5, <2>1, <2>2, WriteOpened DEF Fill
  <2>3. CASE p \notin open
    <3>1. UNCHANGED <<file, open, cut>>
      BY <1>5, <2>3 DEF Fill
    <3> QED BY <1>0, <2>1, <2>3, <3>1 DEF Opened
  <2> QED BY <2>2, <2>3
<1>6. CASE FillFails(p)
  <2>1. open' = open \ {p} /\ \A q \in Procs \ {p} : pc'[q] = pc[q]
    BY <1>1, <1>6 DEF FillFails, Unwritten
  <2>2. CASE p \in open
    <3>1. cut' = file'.at
      BY <1>6, <2>2 DEF FillFails
    <3> QED BY <1>0, <2>1, <3>1 DEF Opened
  <2>3. CASE p \notin open
    <3>1. UNCHANGED <<file, open, cut>>
      BY <1>6, <2>3 DEF FillFails
    <3> QED BY <1>0, <2>1, <2>3, <3>1 DEF Opened
  <2> QED BY <2>2, <2>3
<1> QED BY <1>2, <1>3, <1>4, <1>5, <1>6 DEF Reload

LEMMA OthersOpened ==
  ASSUME Opened, Ready, TypeOK,
         \/ Poll \/ PollTorn \/ Edit \/ Delete \/ Restore
         \/ \E b \in Browsers : Load(b) \/ Save(b) \/ SetRaw(b) \/ Rename(b) \/ SaveFails(b)
  PROVE  Opened'
<1>0. pc \in [Procs -> Locations] /\ open \subseteq Procs /\ Browsers \subseteq Procs /\ Watcher \in Procs
  BY DEF TypeOK, Procs
<1>1. CASE Poll \/ PollTorn
  <2>1. UNCHANGED <<file, open, cut>> /\ pc[Watcher] # "fill" /\ Go(Watcher, "read")
    BY <1>1 DEF Poll, PollTorn
  <2>2. \A q \in Procs : pc[q] = "fill" => pc'[q] = "fill"
    BY <1>0, <2>1 DEF Go
  <2> QED BY <1>0, <2>1, <2>2, SameFileOpened
<1>2. CASE Edit
  <2>1. PICK x \in Bodies : Write(Doc(x)) /\ open' \in {open, {}}
    BY <1>2 DEF Edit, WriteOver
  <2>2. UNCHANGED pc
    BY <1>2 DEF Edit
  <2> QED BY <2>1, <2>2, WriteOpened, DocsHave
<1>3. CASE Delete
  BY <1>3 DEF Delete, Opened
<1>4. CASE Restore
  <2>1. PICK x \in Bodies : file' = [doc |-> Doc(x), at |-> LongAgo]
    BY <1>4 DEF Restore
  <2>2. file'.doc # BlankDoc
    BY <2>1, DocsHave
  <2> QED BY <1>4, <2>2 DEF Restore, Opened
<1>5. ASSUME NEW b \in Browsers, Load(b) \/ Save(b) \/ SetRaw(b) \/ SaveFails(b)
      PROVE  Opened'
  <2>1. UNCHANGED <<file, open, cut>> /\ pc[b] # "fill" /\ \E l : Go(b, l)
    BY <1>5 DEF Load, GetRaw, Revision, RevisionAgain, Get, Close, Save, Upload, SaveForm, SaveBlind,
                Submit, SetRaw, SaveFails
  <2>2. \A q \in Procs : pc[q] = "fill" => pc'[q] = "fill"
    BY <1>0, <2>1 DEF Go
  <2> QED BY <1>0, <2>1, <2>2, SameFileOpened
<1>6. ASSUME NEW b \in Browsers, Rename(b) PROVE Opened'
  <2>1. Write(new[b]) /\ open' = {} /\ new[b] # BlankDoc
    BY <1>6 DEF Rename, Replace, Ready
  <2> QED BY <2>1, WriteOpened
<1> QED BY <1>1, <1>2, <1>3, <1>4, <1>5, <1>6

\* An empty file is one that a Reload has open and is about to fill, or whose
\* filling failed: a save through the pages leaves none, whichever of its steps
\* fails (config.go:250, 282, 314-327).
THEOREM NoHalfSave == Spec => []HalfFileIsOfAReload
<1>1. Init => Opened
  BY DocsHave DEF Init, Opened
<1>2. ASSUME Opened, Ready, TypeOK, [Next]_vars
      PROVE  Opened'
  <2>1. CASE UNCHANGED vars
    BY <1>2, <2>1 DEF Opened, vars
  <2>2. CASE Next
    BY <1>2, <2>2, ReloadOpened, OthersOpened DEF Next
  <2> QED BY <1>2, <2>1, <2>2
<1>3. Opened => HalfFileIsOfAReload
  BY DEF Opened, HalfFileIsOfAReload
<1> QED BY <1>1, <1>2, <1>3, Invariance, Typing, PTL DEF Spec
-----------------------------------------------------------------------------
(* What the modification time tells of the contents. *)

LEMMA InitOneDoc == Init => OneDocPerTime
BY DEF Init, OneDocPerTime, LongAgo, Procs

\* Where the file stays, whoever newly holds a time holds what the file has.
LEMMA SameFileOneDoc ==
  ASSUME OneDocPerTime, UNCHANGED <<file, clock>>,
         \A p \in Procs : pc'[p] = "fill" => pc[p] = "fill" /\ ver'[p] = ver[p],
         file # NoFile /\ memOf' = file.at =>
           \/ memOf' = memOf /\ raw' = raw
           \/ \E p \in Procs : ver[p] = memOf' /\ got[p] = raw',
         file # NoFile /\ file.at > LongAgo => \A p \in Procs :
           \/ ver'[p] = ver[p] /\ got'[p] = got[p]
           \/ ver'[p] = 0
           \/ ver'[p] = file.at => got'[p] = file.doc
  PROVE  OneDocPerTime'
BY DEF OneDocPerTime, LongAgo

\* A write is later than whatever anybody has read, but for who wrote it himself.
LEMMA WriteOneDoc ==
  ASSUME TypeOK, NEW d, Write(d), UNCHANGED <<raw, memOf>>,
         \A p \in Procs : pc'[p] = "fill" => ver'[p] = ver[p],
         \A p \in Procs : \/ ver'[p] = ver[p] /\ got'[p] = got[p]
                          \/ got'[p] = d
  PROVE  OneDocPerTime'
<1>1. file'.at = clock + 1 /\ clock' = clock + 1 /\ file'.doc = d /\ clock \in Nat
  BY DEF Write, TypeOK
<1>2. memOf # clock + 1 /\ \A p \in Procs : ver[p] \in Nat /\ ver[p] < clock + 1
  BY DEF TypeOK
<1> QED BY <1>1, <1>2 DEF OneDocPerTime

LEMMA WritingOneDoc ==
  ASSUME OneDocPerTime, TypeOK, NEW p \in Procs,
         Truncate(p) \/ Fill(p) \/ FillFails(p) \/ CannotWrite(p)
  PROVE  OneDocPerTime'
<1> USE DEF mem, loc
<1>0. pc \in [Procs -> Locations]
  BY DEF TypeOK
<1>1. CASE Truncate(p)
  BY <1>1, WriteOneDoc DEF Truncate
<1>2. CASE Fill(p) /\ p \in open
  <2>1. /\ Write(cfg[p]) /\ UNCHANGED <<raw, memOf>>
        /\ got'[p] = cfg[p] /\ pc'[p] = "stat"
        /\ \A q \in Procs \ {p} : ver'[q] = ver[q] /\ got'[q] = got[q]
    BY <1>2 DEF Fill, Hold, Go, TypeOK
  <2> QED BY <2>1, WriteOneDoc
<1>3. CASE Fill(p) /\ p \notin open
  <2>1. /\ UNCHANGED <<file, clock, raw, memOf, ver>> /\ pc[p] = "fill"
        /\ \A q \in Procs : pc'[q] = "fill" => pc[q] = "fill"
        /\ \A q \in Procs \ {p} : got'[q] = got[q]
    BY <1>0, <1>3 DEF Fill, Hold, Go, TypeOK
  <2>2. file # NoFile /\ file.at > LongAgo => ver[p] # file.at
    BY <2>1 DEF OneDocPerTime, TypeOK
  <2> QED BY <2>1, <2>2, SameFileOneDoc
<1>4. CASE FillFails(p) \/ CannotWrite(p)
  <2>1. /\ UNCHANGED <<raw, memOf, ver, got>>
        /\ \A q \in Procs : pc'[q] = "fill" => pc[q] = "fill"
    BY <1>0, <1>4 DEF FillFails, CannotWrite, Unwritten, Go
  <2>2. UNCHANGED <<file, clock>> \/ \E x \in Pieces : Write(Doc(x))
    BY <1>4 DEF FillFails, CannotWrite
  <2> QED BY <2>1, <2>2, SameFileOneDoc, WriteOneDoc
<1> QED BY <1>1, <1>2, <1>3, <1>4

LEMMA ReloadOneDoc ==
  ASSUME OneDocPerTime, TypeOK, NEW p \in Procs, Reload(p)
  PROVE  OneDocPerTime'
<1> USE DEF mem, loc
<1>0. pc \in [Procs -> Locations]
  BY DEF TypeOK
<1>1. CASE Read(p)
  <2>1. UNCHANGED <<file, clock, raw, memOf>>
    BY <1>1 DEF Read
  <2>2. /\ \A q \in Procs \ {p} : ver'[q] = ver[q] /\ got'[q] = got[q]
        /\ file # NoFile => ver'[p] = 0 \/ got'[p] = file.doc
    BY <1>1 DEF Read, Hold, Done, TypeOK
  <2>3. pc'[p] # "fill" /\ \A q \in Procs \ {p} : pc'[q] = pc[q]
    BY <1>0, <1>1 DEF Read, Done, Go
  <2> QED BY <2>1, <2>2, <2>3, SameFileOneDoc
<1>2. CASE Truncate(p) \/ Fill(p) \/ FillFails(p) \/ CannotWrite(p)
  BY <1>2, WritingOneDoc
<1>3. CASE Stat(p)
  <2>1. \A q \in Procs : pc'[q] = "fill" => pc[q] = "fill"
    BY <1>0, <1>3 DEF Stat, Go
  <2> QED BY <1>3, <2>1, SameFileOneDoc DEF Stat
<1>4. CASE Stamp(p)
  <2>1. \A q \in Procs : pc'[q] = "fill" => pc[q] = "fill"
    BY <1>0, <1>4 DEF Stamp
  <2> QED BY <1>4, <2>1, SameFileOneDoc DEF Stamp
<1>5. CASE SetMemory(p)
  <2>1. UNCHANGED <<file, clock>> /\ memOf' = ver[p] /\ raw' = got[p]
    BY <1>5 DEF SetMemory
  <2>2. ver'[p] = 0 /\ \A q \in Procs \ {p} : ver'[q] = ver[q] /\ got'[q] = got[q]
    BY <1>5 DEF SetMemory, Done, TypeOK
  <2>3. pc'[p] # "fill" /\ \A q \in Procs \ {p} : pc'[q] = pc[q]
    BY <1>0, <1>5 DEF SetMemory, Done, Go
  <2> QED BY <2>1, <2>2, <2>3, SameFileOneDoc
<1> QED BY <1>1, <1>2, <1>3, <1>4, <1>5 DEF Reload

LEMMA OthersOneDoc ==
  ASSUME OneDocPerTime, TypeOK,
         \/ Poll \/ PollTorn \/ Edit \/ Delete \/ Restore
         \/ \E b \in Browsers : Load(b) \/ Save(b) \/ SetRaw(b) \/ Rename(b) \/ SaveFails(b)
  PROVE  OneDocPerTime'
<1> USE DEF mem, loc
<1>0. pc \in [Procs -> Locations] /\ Browsers \subseteq Procs /\ Watcher \in Procs
  BY DEF TypeOK, Procs
<1>1. CASE Poll \/ PollTorn
  <2>1. \A q \in Procs : pc'[q] = "fill" => pc[q] = "fill"
    BY <1>0, <1>1 DEF Poll, PollTorn, Go
  <2> QED BY <1>1, <2>1, SameFileOneDoc DEF Poll, PollTorn
<1>2. CASE Edit
  BY <1>2, WriteOneDoc DEF Edit, WriteOver
<1>3. CASE Delete
  BY <1>3 DEF Delete, OneDocPerTime
<1>4. CASE Restore
  BY <1>4 DEF Restore, OneDocPerTime, LongAgo
<1>5. ASSUME NEW b \in Browsers, Load(b) \/ Save(b) \/ SetRaw(b) \/ SaveFails(b)
      PROVE  OneDocPerTime'
  <2>1. UNCHANGED <<file, clock, raw, memOf, ver, got>>
    BY <1>5 DEF Load, GetRaw, Revision, RevisionAgain, Get, Close, Save, Upload, SaveForm, SaveBlind,
                Submit, SetRaw, SaveFails
  <2>2. PICK l \in {"revision", "again", "get", "loaded", "ready", "save", "rename"} : Go(b, l)
    BY <1>5 DEF Load, GetRaw, Revision, RevisionAgain, Get, Close, Save, Upload, SaveForm, SaveBlind,
                Submit, SetRaw, SaveFails
  <2>3. \A q \in Procs : pc'[q] = "fill" => pc[q] = "fill"
    BY <1>0, <2>2 DEF Go
  <2> QED BY <2>1, <2>3, SameFileOneDoc
<1>6. ASSUME NEW b \in Browsers, Rename(b) PROVE OneDocPerTime'
  BY <1>6, WriteOneDoc DEF Rename, Replace
<1> QED BY <1>1, <1>2, <1>3, <1>4, <1>5, <1>6

\* Of a time after the backups the file, memory and every Reload under way know
\* one contents, whoever writes, deletes or puts back the file meanwhile.
THEOREM TimesTell == Spec => []OneDocPerTime
<1>1. Init => OneDocPerTime
  BY InitOneDoc
<1>2. ASSUME OneDocPerTime, TypeOK, [Next]_vars
      PROVE  OneDocPerTime'
  <2>1. CASE UNCHANGED vars
    BY <1>2, <2>1, SameFileOneDoc DEF vars, mem, loc
  <2>2. CASE Next
    BY <1>2, <2>2, ReloadOneDoc, OthersOneDoc DEF Next
  <2> QED BY <1>2, <2>1, <2>2
<1> QED BY <1>1, <1>2, Typing, PTL DEF Spec

\* Who is about to set memory stays so with what it holds.
LEMMA NotedStays ==
  ASSUME NotedIsUsed, UNCHANGED <<memOf, newest, notedOf>>,
         \A q \in Procs : pc[q] = "set" => pc'[q] = "set" /\ ver'[q] = ver[q]
  PROVE  NotedIsUsed'
BY DEF NotedIsUsed

LEMMA ReloadNoted ==
  ASSUME NotedIsUsed, TypeOK, NEW p \in Procs, Reload(p)
  PROVE  NotedIsUsed'
<1> USE DEF mem, loc
<1>0. /\ pc \in [Procs -> Locations] /\ ver \in [Procs -> 0 .. clock] /\ clock \in Nat
      /\ newest \in Nat /\ notedOf \in Nat /\ memOf \in Nat
  BY DEF TypeOK
<1>1. ASSUME pc[p] # "set", UNCHANGED <<mem, notedOf>>,
             \A q \in Procs \ {p} : pc'[q] = pc[q] /\ ver'[q] = ver[q]
      PROVE  NotedIsUsed'
  BY <1>1, NotedStays
<1>2. CASE Read(p)
  <2>1. \A q \in Procs \ {p} : pc'[q] = pc[q] /\ ver'[q] = ver[q]
    BY <1>0, <1>2 DEF Read, Hold, Done, Go
  <2> QED BY <1>1, <1>2, <2>1 DEF Read
<1>3. CASE Truncate(p) \/ Fill(p) \/ FillFails(p) \/ CannotWrite(p)
  <2>1. /\ pc[p] # "set" /\ UNCHANGED <<mem, notedOf>>
        /\ \A q \in Procs \ {p} : pc'[q] = pc[q] /\ ver'[q] = ver[q]
    BY <1>0, <1>3 DEF Truncate, Fill, FillFails, CannotWrite, Unwritten, Hold, Go
  <2> QED BY <1>1, <2>1
<1>4. CASE Stat(p)
  <2>1. \A q \in Procs \ {p} : pc'[q] = pc[q] /\ ver'[q] = ver[q]
    BY <1>0, <1>4 DEF Stat, Go
  <2> QED BY <1>1, <1>4, <2>1 DEF Stat
<1>5. CASE Stamp(p)
  <2>1. pc'[p] = "set" /\ UNCHANGED <<mem, ver>> /\ notedOf' \in {ver[p], 0}
    BY <1>0, <1>5 DEF Stamp
  <2> QED BY <1>0, <2>1 DEF NotedIsUsed
<1>6. CASE SetMemory(p)
  <2>1. newest' \in Nat /\ newest <= newest' /\ ver[p] <= newest'
    BY <1>0, <1>6 DEF SetMemory
  <2>2. /\ memOf' = ver[p] /\ notedOf' = notedOf
        /\ \A q \in Procs \ {p} : pc'[q] = pc[q] /\ ver'[q] = ver[q]
    BY <1>0, <1>6 DEF SetMemory, Done, Go
  <2>3. CASE notedOf <= newest \/ notedOf = ver[p]
    BY <1>0, <2>1, <2>2, <2>3 DEF NotedIsUsed
  <2>4. CASE \E q \in Procs \ {p} : pc[q] = "set" /\ ver[q] = notedOf
    BY <2>1, <2>2, <2>4 DEF NotedIsUsed
  <2> QED BY <2>3, <2>4 DEF NotedIsUsed
<1> QED BY <1>2, <1>3, <1>4, <1>5, <1>6 DEF Reload

LEMMA OthersNoted ==
  ASSUME NotedIsUsed, TypeOK,
         \/ Poll \/ PollTorn \/ Edit \/ Delete \/ Restore
         \/ \E b \in Browsers : Load(b) \/ Save(b) \/ SetRaw(b) \/ Rename(b) \/ SaveFails(b)
  PROVE  NotedIsUsed'
<1> USE DEF mem, loc
<1>0. pc \in [Procs -> Locations] /\ Browsers \subseteq Procs /\ Watcher \in Procs
  BY DEF TypeOK, Procs
<1>1. CASE Poll \/ PollTorn
  <2>1. \A q \in Procs : pc[q] = "set" => pc'[q] = "set"
    BY <1>0, <1>1 DEF Poll, PollTorn, Go
  <2> QED BY <1>1, <2>1, NotedStays DEF Poll, PollTorn
<1>2. CASE Edit \/ Delete \/ Restore
  BY <1>2, NotedStays DEF Edit, Delete, Restore
<1>3. ASSUME NEW b \in Browsers, Load(b) \/ Save(b) \/ SetRaw(b) \/ Rename(b) \/ SaveFails(b)
      PROVE  NotedIsUsed'
  <2>1. UNCHANGED <<memOf, newest, notedOf, ver>> /\ pc[b] # "set" /\ \E l : Go(b, l)
    BY <1>3 DEF Load, GetRaw, Revision, RevisionAgain, Get, Close, Save, Upload, SaveForm, SaveBlind,
                Submit, SetRaw, Rename, SaveFails
  <2>2. \A q \in Procs : pc[q] = "set" => pc'[q] = "set"
    BY <1>0, <2>1 DEF Go
  <2> QED BY <2>1, <2>2, NotedStays
<1> QED BY <1>1, <1>2, <1>3

\* What a Reload read before it noted a time, or something later, is in memory,
\* or that Reload is about to put it there, or memory went back.
THEOREM NotedAndUsed == Spec => []NotedIsUsed
<1>1. Init => NotedIsUsed
  BY DEF Init, NotedIsUsed
<1>2. ASSUME NotedIsUsed, TypeOK, [Next]_vars
      PROVE  NotedIsUsed'
  <2>1. CASE UNCHANGED vars
    BY <1>2, <2>1, NotedStays DEF vars, mem, loc
  <2>2. CASE Next
    BY <1>2, <2>2, ReloadNoted, OthersNoted DEF Next
  <2> QED BY <1>2, <2>1, <2>2
<1> QED BY <1>1, <1>2, Typing, PTL DEF Spec

\* Whenever a poll would find nothing new, memory is the file or a Reload is
\* about to make it so, unless a Reload noted a later time than that of what it
\* had read, two Reloads set memory in the other order, or the file was replaced
\* by an older one (config.go:264-268, 412-428): StaleOnlyByRace but for its
\* fairness, which is what brings the poll.
THEOREM PollsFindWhatIsNew == Spec => []NothingHidden
<1>1. ASSUME TypeOK, OneDocPerTime, NotedIsUsed PROVE NothingHidden
  <2> SUFFICES ASSUME Loadable, file.at <= lastMod, ~NotedTooLate, ~WentBack, ~PutBack
               PROVE  raw = file.doc \/ \E p \in Procs : pc[p] = "set" /\ got[p] = file.doc
    BY DEF NothingHidden
  <2>0. file # NoFile /\ file \in [doc : Docs, at : 1 .. clock] /\ clock \in Nat
    BY <1>1 DEF Loadable, TypeOK
  <2>1. /\ file.at \in Nat /\ file.at >= 1 /\ file.at <= clock
        /\ lastMod \in Nat /\ memOf \in 0 .. clock /\ notedOf \in 0 .. clock /\ newest \in 0 .. clock
    BY <1>1, <2>0 DEF TypeOK
  <2>2. file.at > LongAgo /\ file.at = clock
    BY <1>1, <2>0, <2>1 DEF PutBack, LongAgo, OneDocPerTime
  <2>3. notedOf = file.at
    BY <2>0, <2>1, <2>2 DEF NotedTooLate
  <2>4. CASE notedOf <= newest
    <3>1. memOf = file.at
      BY <2>0, <2>1, <2>2, <2>3, <2>4 DEF WentBack
    <3> QED BY <1>1, <2>0, <2>2, <3>1 DEF OneDocPerTime
  <2>5. CASE \E p \in Procs : pc[p] = "set" /\ ver[p] = notedOf
    BY <1>1, <2>0, <2>2, <2>3, <2>5 DEF OneDocPerTime
  <2> QED BY <1>1, <2>4, <2>5 DEF NotedIsUsed
<1> QED BY <1>1, TimesTell, NotedAndUsed, Typing, PTL
-----------------------------------------------------------------------------
(* The way out of a save. *)

\* A step lets go of writeMu only with an answer.
LetsGo(p) == writeMu = p /\ writeMu' # p => pc'[p] = "ready"

LEMMA LeftIsNat == \A p \in Procs : Left(p) \in 0 .. 7
BY DEF Left

\* A Reload gets nearer to its return, and only its own caller with it.
LEMMA ReloadLowers ==
  ASSUME TypeOK, NEW p \in Procs, Reload(p)
  PROVE  /\ Left(p)' < Left(p)
         /\ \A q \in Procs : q # p => Left(q)' = Left(q)
         /\ \A q \in Procs : LetsGo(q)
<1>0. pc \in [Procs -> Locations] /\ (writeMu = Nobody \/ writeMu \in Browsers)
  BY DEF TypeOK
<1>1. ASSUME NEW l, Go(p, l)
      PROVE  pc'[p] = l /\ \A q \in Procs : q # p => pc'[q] = pc[q]
  BY <1>0, <1>1 DEF Go
<1>2. ASSUME pc[p] \in Reloading, Done(p)
      PROVE  /\ pc'[p] \in {"wait", "ready"} /\ \A q \in Procs : q # p => pc'[q] = pc[q]
             /\ \A q \in Procs : LetsGo(q)
  <2>1. pc'[p] = (IF p = Watcher THEN "wait" ELSE "ready") /\ \A q \in Procs : q # p => pc'[q] = pc[q]
    BY <1>1, <1>2 DEF Done
  <2>2. p = Watcher => writeMu' = writeMu
    BY <1>2 DEF Done
  <2>3. p # Watcher => writeMu = p
    BY <1>2 DEF TypeOK, Procs
  <2> QED BY <2>1, <2>2, <2>3 DEF LetsGo
<1>3. CASE Read(p)
  <2>1. CASE Done(p)
    BY <1>2, <1>3, <2>1 DEF Read, Left, Reloading
  <2>2. CASE (Go(p, "truncate") \/ Go(p, "stat")) /\ UNCHANGED writeMu
    BY <1>1, <1>3, <2>2 DEF Read, Left, LetsGo
  <2> QED BY <1>3, <2>1, <2>2 DEF Read
<1>4. CASE Truncate(p)
  BY <1>1, <1>4 DEF Truncate, Left, LetsGo
<1>5. CASE Fill(p)
  BY <1>1, <1>5 DEF Fill, Left, LetsGo
<1>6. CASE FillFails(p) \/ CannotWrite(p)
  <2>1. (Go(p, "set") \/ Go(p, "stat")) /\ pc[p] \in {"truncate", "fill"} /\ UNCHANGED writeMu
    BY <1>6 DEF FillFails, CannotWrite, Unwritten
  <2> QED BY <1>1, <2>1 DEF Left, LetsGo
<1>7. CASE Stat(p)
  <2>1. (Go(p, "set") \/ Go(p, "stamp")) /\ pc[p] = "stat" /\ UNCHANGED writeMu
    BY <1>7 DEF Stat
  <2> QED BY <1>1, <2>1 DEF Left, LetsGo
<1>8. CASE Stamp(p)
  <2>1. /\ pc[p] \in {"stamp", "torn"} /\ pc'[p] = "set" /\ UNCHANGED writeMu
        /\ \A q \in Procs : q # p =>
             \/ pc'[q] = pc[q]
             \/ pc[q] \in {"stamp", "torn"} /\ pc'[q] = "torn"
    BY <1>8 DEF Stamp
  <2> QED BY <2>1 DEF Left, LetsGo
<1>9. CASE SetMemory(p)
  BY <1>2, <1>9 DEF SetMemory, Left, Reloading
<1> QED BY <1>3, <1>4, <1>5, <1>6, <1>7, <1>8, <1>9 DEF Reload

\* What a browser does with its page and a save that does not begin leaves the
\* way out as it is; a save that has its turn comes nearer to its answer.
LEMMA BrowserLowers ==
  ASSUME TypeOK, NEW b \in Browsers, Load(b) \/ Save(b) \/ SetRaw(b) \/ Rename(b) \/ SaveFails(b)
  PROVE  /\ Left(b) > 0 => Left(b)' < Left(b)
         /\ \A q \in Procs : q # b => Left(q)' = Left(q)
         /\ \A q \in Procs : LetsGo(q)
<1>0. pc \in [Procs -> Locations] /\ b \in Procs
  BY DEF TypeOK, Procs
<1>1. ASSUME NEW l, Go(b, l)
      PROVE  pc'[b] = l /\ \A q \in Procs : q # b => pc'[q] = pc[q]
  BY <1>0, <1>1 DEF Go
<1>2. CASE Load(b) \/ Save(b)
  <2>1. pc[b] \in {"ready", "revision", "again", "get", "loaded"} /\ UNCHANGED writeMu
    BY <1>2 DEF Load, GetRaw, Revision, RevisionAgain, Get, Close, Save, Upload, SaveForm, SaveBlind, Submit
  <2>2. PICK l : Go(b, l)
    BY <1>2 DEF Load, GetRaw, Revision, RevisionAgain, Get, Close, Save, Upload, SaveForm, SaveBlind, Submit
  <2> QED BY <1>1, <2>1, <2>2 DEF Left, LetsGo
<1>3. CASE SetRaw(b)
  <2>1. pc[b] = "save" /\ writeMu = Nobody
    BY <1>3 DEF SetRaw
  <2>2. PICK l : Go(b, l)
    BY <1>3 DEF SetRaw
  <2>3. \A q \in Procs : LetsGo(q)
    BY <2>1 DEF LetsGo, Procs
  <2> QED BY <1>1, <2>1, <2>2, <2>3 DEF Left
<1>4. CASE Rename(b)
  BY <1>1, <1>4 DEF Rename, Left, LetsGo
<1>5. CASE SaveFails(b)
  <2>1. writeMu = b
    BY <1>5 DEF SaveFails, TypeOK
  <2> QED BY <1>1, <1>5, <2>1 DEF SaveFails, Left, LetsGo
<1> QED BY <1>2, <1>3, <1>4, <1>5

\* Nobody else moves a Reload or a save, or its lock.
LEMMA PollLeaves ==
  ASSUME TypeOK, Poll \/ PollTorn \/ Edit \/ Delete \/ Restore
  PROVE  \A q \in Procs : /\ Left(q) > 0 => Left(q)' = Left(q)
                         /\ LetsGo(q)
<1>1. CASE Poll \/ PollTorn
  <2>1. pc[Watcher] = "wait" /\ UNCHANGED writeMu /\ \A q \in Procs : q # Watcher => pc'[q] = pc[q]
    BY <1>1 DEF Poll, PollTorn, Go, TypeOK
  <2> QED BY <2>1 DEF Left, LetsGo
<1>2. CASE Edit \/ Delete \/ Restore
  BY <1>2 DEF Edit, Delete, Restore, Left, LetsGo
<1> QED BY <1>1, <1>2

\* Whoever holds writeMu is on its way to the release of it with every step it
\* takes, and no step of anybody else, nor any state of the file, sends it back:
\* with the fairness of Spec, the next save waits only so long
\* (config.go:211-271, 301-327).
THEOREM SavesMoveOn == Spec => ReloadsMoveOn
<1> DEFINE Moves(p) == Left(p) > 0 =>
      /\ Left(p)' <= Left(p)
      /\ Reload(p) => Left(p)' < Left(p)
      /\ p \in Browsers /\ (Rename(p) \/ SaveFails(p)) => Left(p)' < Left(p)
      /\ writeMu = p /\ writeMu' # p => pc'[p] = "ready"
<1>1. TypeOK /\ [Next]_vars => [\A p \in Procs : Moves(p)]_vars
  <2> SUFFICES ASSUME TypeOK, Next, NEW p \in Procs, Left(p) > 0
               PROVE  /\ Left(p)' <= Left(p)
                      /\ Reload(p) => Left(p)' < Left(p)
                      /\ p \in Browsers /\ (Rename(p) \/ SaveFails(p)) => Left(p)' < Left(p)
                      /\ LetsGo(p)
    BY DEF LetsGo
  <2>1. Reload(p) => Left(p)' < Left(p)
    BY ReloadLowers
  <2>2. p \in Browsers /\ (Rename(p) \/ SaveFails(p)) => Left(p)' < Left(p)
    BY BrowserLowers
  <2>3. Left(p)' <= Left(p) /\ LetsGo(p)
    <3>0. Left(p) \in Nat /\ \A i, j \in Nat : i < j => i <= j
      BY LeftIsNat
    <3>1. ASSUME NEW q \in Procs, Reload(q) PROVE Left(p)' <= Left(p) /\ LetsGo(p)
      <4>1. /\ Left(q)' < Left(q) /\ (p # q => Left(p)' = Left(p)) /\ LetsGo(p)
        BY <3>1, ReloadLowers
      <4>2. Left(p)' \in Nat
        BY DEF Left
      <4> QED BY <3>0, <4>1, <4>2
    <3>2. ASSUME NEW b \in Browsers,
                 Load(b) \/ Save(b) \/ SetRaw(b) \/ Rename(b) \/ SaveFails(b)
          PROVE  Left(p)' <= Left(p) /\ LetsGo(p)
      <4>1. /\ Left(b) > 0 => Left(b)' < Left(b)
            /\ p # b => Left(p)' = Left(p)
            /\ LetsGo(p)
        BY <3>2, BrowserLowers
      <4>2. Left(p)' \in Nat
        BY DEF Left
      <4> QED BY <3>0, <4>1, <4>2
    <3>3. ASSUME Poll \/ PollTorn \/ Edit \/ Delete \/ Restore
          PROVE  Left(p)' <= Left(p) /\ LetsGo(p)
      BY <3>0, <3>3, PollLeaves
    <3> QED BY <3>1, <3>2, <3>3 DEF Next
  <2> QED BY <2>1, <2>2, <2>3
<1>2. Spec => [][\A p \in Procs : Moves(p)]_vars
  BY <1>1, Typing, PTL DEF Spec
<1> QED BY <1>2 DEF ReloadsMoveOn
=============================================================================
