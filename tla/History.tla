------------------------------ MODULE History ------------------------------
(***************************************************************************)
(* The recorded history of a project's definition, package mig: the        *)
(* developer edits the project, the tool reads project and history,        *)
(* determines the version of every node (models, schemas and the project), *)
(* and records a changed project in the history folder. Recording writes   *)
(* one file after the other, and the tool may fail or die in between. It   *)
(* also goes on after a file that is incomplete, since it ignores the      *)
(* errors of closing a file and of closing the compressed stream in it,    *)
(* which is where what is still buffered is written.                       *)
(*                                                                         *)
(* A hash stands for what it is computed from: two hashes are the same if  *)
(* the definitions are. A schema belongs to the project while it has a     *)
(* model. The times of recordings are counted.                             *)
(***************************************************************************)
EXTENDS Integers, Sequences, FiniteSets

CONSTANTS ProjNames,    \* the names the project may have
          Models,       \* the models that may be defined
          Schemas,      \* the schemas they belong to
          SchemaOf,     \* the schema of each model
          Defs,         \* the ways a model may be defined
          NoDef,        \* the model is not defined
          Projects,     \* what the developer may write into the project file
          NodeOrder,    \* the models and schemas in the order of their names
          None,         \* no file, no session, no version
          Broken,       \* a file that cannot be read
          MaxRec,       \* bound: recordings that are begun
          MayFail       \* whether the tool may fail or die while it records, and close
                        \* a file without noticing that it is incomplete

Nodes == Models \cup Schemas

ASSUME NodesAssumption ==
  /\ Models \cap Schemas = {} /\ SchemaOf \in [Models -> Schemas]
  /\ NodeOrder \in [1..Cardinality(Nodes) -> Nodes]
  /\ \A n \in Nodes : \E i \in DOMAIN NodeOrder : NodeOrder[i] = n
ASSUME HistoryAssumption ==
  /\ MaxRec \in Nat /\ MayFail \in BOOLEAN /\ NoDef \notin Defs

\* What a project file defines.
Project == [name : ProjNames, models : [Models -> Defs \cup {NoDef}]]

ASSUME ProjectsAssumption == Projects \subseteq Project /\ Projects # {}

VARIABLES def,      \* the project file
          hdir,     \* whether the history folder exists
          mfile,    \* manifest.json in it: None, Broken or what can be read of it
          recs,     \* the record folders: the manifest and the project in it
          sess,     \* what the tool has read and computed, or None
          pc,       \* where the tool is
          clock,    \* recordings begun
          cut       \* history: manifest.json has lost its last versions, and nobody noticed

vars == <<def, hdir, mfile, recs, sess, pc, clock, cut>>

-----------------------------------------------------------------------------
(* Versions *)

\* A manifest: the first version is the project's, and vers is 0 if there is none.
\* A version that was not recorded has no date.
Empty == [name |-> None, vers |-> 0, date |-> 0, hash |-> None,
          nodes |-> [n \in Nodes |-> None]]

Defined(p) == {m \in Models : p.models[m] # NoDef}

\* The nodes of a project.
NodesOf(p) == Defined(p) \cup {SchemaOf[m] : m \in Defined(p)}

\* The hash of a model, and that of a schema, from the hashes of its models.
NodeHash(p, n) ==
  IF n \in Models THEN p.models[n]
  ELSE [m \in {x \in Defined(p) : SchemaOf[x] = n} |-> p.models[m]]

ProjHash(p) == <<p.name, [s \in NodesOf(p) \cap Schemas |-> NodeHash(p, s)]>>

\* The version of a node with hash h that was v: one more if it changed, one if it is new.
NextVersion(v, h) ==
  IF v = None THEN [vers |-> 1, date |-> 0, hash |-> h]
  ELSE IF v.hash = h THEN v
  ELSE [vers |-> v.vers + 1, date |-> 0, hash |-> h]

\* Manifest.First
FirstOf(mf) ==
  IF mf.vers = 0 THEN None ELSE [vers |-> mf.vers, date |-> mf.date, hash |-> mf.hash]

\* Mutant: nodes that are not defined any more are dropped.
UpdateDrops(mf, p) ==
  LET pv == NextVersion(FirstOf(mf), ProjHash(p)) IN
     [name |-> p.name, vers |-> pv.vers, date |-> pv.date, hash |-> pv.hash,
      nodes |-> [n \in Nodes |->
        IF n \in NodesOf(p) THEN NextVersion(mf.nodes[n], NodeHash(p, n)) ELSE None]]

\* Manifest.Update: the versions of the nodes of p; those of other nodes are kept. The
\* project may have another name than in the manifest.
Update(mf, p) ==
  LET pv == NextVersion(FirstOf(mf), ProjHash(p)) IN
     [name |-> p.name, vers |-> pv.vers, date |-> pv.date, hash |-> pv.hash,
      nodes |-> [n \in Nodes |->
        IF n \in NodesOf(p) THEN NextVersion(mf.nodes[n], NodeHash(p, n)) ELSE mf.nodes[n]]]

\* Manifest.Diff for the nodes: '+' added, '-' deleted, '*' modified, ' ' unchanged.
Diff(mf, old, n) ==
  LET v == mf.nodes[n]  w == old.nodes[n] IN
  IF mf.vers = old.vers /\ mf.name = old.name THEN " "
  ELSE IF v = None THEN IF w = None THEN " " ELSE "-"
  ELSE IF w = None THEN "+"
  ELSE IF v.vers # w.vers THEN "*" ELSE " "

\* Diff for the first version; a project that was renamed is an addition.
DiffFirst(mf, old) ==
  CASE mf.vers = old.vers /\ mf.name = old.name -> " "
    [] mf.name # old.name -> "+"
    [] OTHER -> "*"

\* Mutant: every version gets the date.
DatedAll(mf, old, t) ==
  [mf EXCEPT !.date = t,
             !.nodes = [n \in Nodes |-> IF @[n] = None THEN None ELSE [@[n] EXCEPT !.date = t]]]

\* The manifest with date t for all changed versions.
Dated(mf, old, t) ==
  [mf EXCEPT !.date = IF DiffFirst(mf, old) = " " THEN @ ELSE t,
             !.nodes = [n \in Nodes |->
                IF Diff(mf, old, n) \in {"+", "*"} THEN [@[n] EXCEPT !.date = t] ELSE @[n]]]

-----------------------------------------------------------------------------
(* Reading the history *)

Init ==
  /\ def \in Projects
  /\ hdir = FALSE /\ mfile = None /\ recs = <<>> /\ sess = None /\ pc = "idle" /\ clock = 0
  /\ cut = FALSE

\* What is read from manifest.json.
Loaded == IF mfile = None THEN Empty ELSE mfile

\* The record with the latest version.
LastRec ==
  IF recs = <<>> THEN Empty
  ELSE LET i == CHOOSE i \in DOMAIN recs : \A j \in DOMAIN recs : recs[j].mf.vers <= recs[i].mf.vers
       IN recs[i].mf

\* Mutant: manifest.json is not compared with the records.
ReadableLax ==
  /\ mfile # Broken
  /\ \A i \in DOMAIN recs : recs[i].mf \notin {None, Broken}

\* ReadHistory succeeds: all manifests can be read, and manifest.json is of the version of
\* the last record, if it has one.
Readable ==
  /\ mfile # Broken
  /\ \A i \in DOMAIN recs : recs[i].mf \notin {None, Broken}
  /\ recs # <<>> /\ Loaded.vers # 0 => Loaded.vers = LastRec.vers

\* Mutant: a manifest.json that is missing or empty is not made up for.
BaseLoaded == Loaded

\* The manifest that versions are determined from.
Base == IF recs # <<>> /\ Loaded.vers = 0 THEN LastRec ELSE Loaded

\* The tool reads the project and its history. (If that fails it gives up.)
ReadHistory ==
  /\ pc = "idle" /\ Readable
  /\ sess' = [def |-> def, last |-> LastRec, mf |-> Update(Base, def)]
  /\ pc' = "ready"
  /\ UNCHANGED <<def, hdir, mfile, recs, clock, cut>>

-----------------------------------------------------------------------------
(* Recording *)

\* Commit finds no change.
NoChanges ==
  /\ pc = "ready"
  /\ sess.mf.vers = sess.last.vers
  /\ sess' = None /\ pc' = "idle"
  /\ UNCHANGED <<def, hdir, mfile, recs, clock, cut>>

\* Mutant: the project is recorded though it did not change.
CommitUnchanged ==
  /\ pc = "ready" /\ clock < MaxRec
  /\ hdir' = TRUE
  /\ clock' = clock + 1
  /\ sess' = [sess EXCEPT !.mf = Dated(@, sess.last, clock')]
  /\ pc' = "manifest"
  /\ UNCHANGED <<def, mfile, recs, cut>>

\* Commit finds changes: it makes the history folder and dates the changed versions.
Commit ==
  /\ pc = "ready" /\ clock < MaxRec
  /\ sess.mf.vers # sess.last.vers
  /\ hdir' = TRUE
  /\ clock' = clock + 1
  /\ sess' = [sess EXCEPT !.mf = Dated(@, sess.last, clock')]
  /\ pc' = "manifest"
  /\ UNCHANGED <<def, mfile, recs, cut>>

\* What can be read of a manifest.json that was not written to its end: nothing, an error,
\* or the first versions.
Partial(mf) ==
  {Broken, Empty} \cup
  {[mf EXCEPT !.nodes = [n \in Nodes |-> IF \E i \in 1..k : NodeOrder[i] = n THEN @[n] ELSE None]]
     : k \in 0..Len(NodeOrder)}

\* What a file may be after its writer returns no error: what was written, or less if closing
\* it failed.
Written(x, less) == {x} \cup (IF MayFail THEN less ELSE {})

\* It overwrites manifest.json.
WriteManifest ==
  /\ pc = "manifest"
  /\ mfile' \in Written(sess.mf, Partial(sess.mf))
  /\ cut' = (cut \/ mfile' \notin {sess.mf, Broken, Empty})
  /\ pc' = "folder"
  /\ UNCHANGED <<def, hdir, recs, sess, clock>>

\* It makes the record folder, whose name begins with the version.
MakeFolder ==
  /\ pc = "folder"
  /\ recs' = Append(recs, [mf |-> None, pr |-> None])
  /\ pc' = "recmf"
  /\ UNCHANGED <<def, hdir, mfile, sess, clock, cut>>

\* It writes the manifest in it. A compressed file that is not complete cannot be read.
WriteRecManifest ==
  /\ pc = "recmf"
  /\ \E x \in Written(sess.mf, {Broken}) : recs' = [recs EXCEPT ![Len(recs)].mf = x]
  /\ pc' = "recpr"
  /\ UNCHANGED <<def, hdir, mfile, sess, clock, cut>>

\* Mutant: the project file is copied.
WriteRecProjectFile ==
  /\ pc = "recpr"
  /\ \E x \in Written(def, {Broken}) : recs' = [recs EXCEPT ![Len(recs)].pr = x]
  /\ sess' = None /\ pc' = "idle"
  /\ UNCHANGED <<def, hdir, mfile, clock, cut>>

\* It writes the project in it, as it was read.
WriteRecProject ==
  /\ pc = "recpr"
  /\ \E x \in Written(sess.def, {Broken}) : recs' = [recs EXCEPT ![Len(recs)].pr = x]
  /\ sess' = None /\ pc' = "idle"
  /\ UNCHANGED <<def, hdir, mfile, clock, cut>>

\* Making or writing a file fails, which Commit reports, or the tool dies: the file is as it
\* was, or partly written.
Fail ==
  /\ MayFail /\ pc \notin {"idle", "ready"}
  /\ IF pc = "manifest" THEN mfile' \in {mfile} \cup Partial(sess.mf) ELSE UNCHANGED mfile
  /\ CASE pc = "recmf" -> \E x \in {None, Broken} : recs' = [recs EXCEPT ![Len(recs)].mf = x]
       [] pc = "recpr" -> \E x \in {None, Broken} : recs' = [recs EXCEPT ![Len(recs)].pr = x]
       [] OTHER -> UNCHANGED recs
  /\ sess' = None /\ pc' = "idle"
  /\ UNCHANGED <<def, hdir, clock, cut>>

-----------------------------------------------------------------------------
\* The developer edits the project file, at any time.
Edit ==
  /\ def' \in Projects \ {def}
  /\ UNCHANGED <<hdir, mfile, recs, sess, pc, clock, cut>>

Next ==
  \/ ReadHistory \/ NoChanges \/ Commit
  \/ WriteManifest \/ MakeFolder \/ WriteRecManifest \/ WriteRecProject
  \/ Fail \/ Edit

Spec == Init /\ [][Next]_vars

-----------------------------------------------------------------------------
(* Properties *)

ModelHashes  == UNION {[S -> Defs] : S \in SUBSET Models}
SchemaHashes == UNION {[S -> ModelHashes] : S \in SUBSET Schemas}
Entry    == [vers : Nat \ {0}, date : 0..MaxRec, hash : Defs \cup ModelHashes]
FirstEntry == [vers : Nat, date : 0..MaxRec, hash : (ProjNames \X SchemaHashes) \cup {None}]
Manifest == [name : ProjNames \cup {None}, vers : Nat, date : 0..MaxRec,
             hash : (ProjNames \X SchemaHashes) \cup {None}, nodes : [Nodes -> Entry \cup {None}]]

\* No manifest and no version is mistaken for none, or for one that cannot be read.
ASSUME NoneAssumption == None \notin Manifest \cup Entry \cup FirstEntry /\ Broken \notin Manifest

\* The type of the state.
TypeOK ==
  /\ def \in Projects
  /\ hdir \in BOOLEAN /\ clock \in 0..MaxRec /\ cut \in BOOLEAN
  /\ pc \in {"idle", "ready", "manifest", "folder", "recmf", "recpr"}
  /\ mfile \in {None, Broken} \cup Manifest
  /\ recs \in Seq([mf : {None, Broken} \cup Manifest, pr : {None, Broken} \cup Projects])
  /\ IF pc = "idle" THEN sess = None ELSE sess \in [def : Projects, last : Manifest, mf : Manifest]

\* The records whose manifest is complete.
Recorded == {i \in DOMAIN recs : recs[i].mf \notin {None, Broken}}

\* The state is typed, and the records have successive versions, whatever was edited
\* meanwhile and whatever failed; the first one's is 1, or more by the recordings that failed before it (doc.go:5,
\* history.go:162-172).
RecordsInOrder ==
  TypeOK /\ \A i \in Recorded :
    /\ recs[i].mf.vers = recs[1].mf.vers + i - 1
    /\ recs[1].mf.vers \in 1..recs[1].mf.date

\* A recorded version of a node means one definition and one date for ever, also if the
\* node was removed and defined again in between (version.go:58-69, 83-116), unless
\* manifest.json has lost its last versions and nobody noticed: nothing else remembers them.
VersionsIdentify ==
  ~cut => \A i, j \in Recorded, n \in Nodes :
    LET v == recs[i].mf.nodes[n]  w == recs[j].mf.nodes[n] IN
      v # None /\ w # None /\ v.vers = w.vers => v = w

\* From one record to the next the version of a node stays if its definition does and grows
\* by one otherwise; the project's grows (doc.go:5-9). Again manifest.json must not have lost
\* versions unnoticed.
VersionsGrowByOne ==
  ~cut => \A i \in Recorded : i + 1 \in Recorded =>
    \A n \in Nodes :
      LET v == recs[i].mf.nodes[n]  w == recs[i + 1].mf.nodes[n] IN
        v # None => w # None /\ w.vers = (IF v.hash = w.hash THEN v.vers ELSE v.vers + 1)

\* The manifest of a record is that of the project in it (history.go:296-305).
RecordsAreWhole ==
  \A i \in Recorded : recs[i].pr \notin {None, Broken} =>
    /\ recs[i].mf.hash = ProjHash(recs[i].pr)
    /\ \A n \in NodesOf(recs[i].pr) : recs[i].mf.nodes[n].hash = NodeHash(recs[i].pr, n)

\* A history that can be read is continued from its last record, and not from a manifest
\* that was written without one (history.go:165-173). Of a manifest.json that has lost its
\* last versions only the project's is compared with the record.
ContinuesLastRecord == ~cut /\ Readable /\ recs # <<>> => Base = LastRec

-----------------------------------------------------------------------------
(* The inductive invariant: no step leads out of these states (PartsProofs) *)

\* The version w of a node comes next after v, or is v.
Follows(v, w) == v # None => w # None /\ (w = v \/ (w.vers = v.vers + 1 /\ w.hash # v.hash))

\* It comes some time after v, or is v.
Later(v, w) == v # None => w # None /\ v.vers <= w.vers /\ (v.vers = w.vers => v = w)

Describes(mf, p) ==
  mf.hash = ProjHash(p) /\ \A n \in NodesOf(p) : mf.nodes[n] # None /\ mf.nodes[n].hash = NodeHash(p, n)

\* Only the last record may be incomplete, and every node's versions form a chain (unless
\* manifest.json has lost some).
Chained ==
  /\ \A i \in DOMAIN recs : i < Len(recs) => i \in Recorded
  /\ ~cut => \A i, j \in Recorded, n \in Nodes :
       i <= j => Later(recs[i].mf.nodes[n], recs[j].mf.nodes[n])
  /\ ~cut => \A i \in Recorded, n \in Nodes :
       i + 1 \in Recorded => Follows(recs[i].mf.nodes[n], recs[i + 1].mf.nodes[n])

\* How many records there were when the session began.
Before == IF pc \in {"recmf", "recpr"} THEN Len(recs) - 1 ELSE Len(recs)

\* What is left in x of the manifest mf that was written.
Left(x, mf) == x \in {mf, Broken, Empty} \/ (cut /\ x \in Manifest /\ x.vers = mf.vers)

\* The tool works on what follows the last record.
SessionOK ==
  pc # "idle" =>
    /\ \A i \in 1..Before : i \in Recorded
    /\ sess.last = IF Before = 0 THEN Empty ELSE recs[Before].mf
    /\ Describes(sess.mf, sess.def)
    /\ ~cut => \A n \in Nodes : Follows(sess.last.nodes[n], sess.mf.nodes[n])
    /\ IF Before = 0 THEN sess.mf.vers \in 1..(IF pc = "ready" THEN clock + 1 ELSE sess.mf.date)
                     ELSE sess.mf.vers \in {sess.last.vers, sess.last.vers + 1}
    /\ pc # "ready" => sess.mf.vers # sess.last.vers /\ sess.mf.date = clock
    /\ pc \in {"folder", "recmf", "recpr"} => Left(mfile, sess.mf)
    /\ pc = "recmf" => Before \in Nat /\ recs[Len(recs)] = [mf |-> None, pr |-> None]
    /\ pc = "recpr" => Before \in Nat /\ recs[Len(recs)].mf \in {sess.mf, Broken}

\* A manifest.json that can be read is ahead of the records, or is that of the last record,
\* or what is left of it.
FileOK ==
  mfile \in Manifest =>
    /\ recs = <<>> => mfile.vers <= clock
    /\ pc \in {"idle", "ready", "manifest"} /\ recs # <<>> /\ Len(recs) \in Recorded =>
         mfile.vers \in {0, recs[Len(recs)].mf.vers + 1} \/ Left(mfile, recs[Len(recs)].mf)

Inv ==
  /\ RecordsInOrder /\ RecordsAreWhole
  /\ Chained /\ SessionOK /\ FileOK

-----------------------------------------------------------------------------
(* What the documentation says *)

\* What history.go:100 says: the manifest in the history folder is that of the last record,
\* when the tool is not at work.
ManifestOfLastRecord == pc = "idle" /\ mfile # None => recs # <<>> /\ mfile = LastRec

\* What manifest.go:87 says of Diff, asked by the tool for the project and its last record:
\* a node of the last record that is no longer defined is a deletion.
DeletionsReported ==
  pc = "ready" /\ recs # <<>> /\ recs[Len(recs)].pr # None =>
    \A n \in NodesOf(recs[Len(recs)].pr) \ NodesOf(sess.def) : Diff(sess.mf, sess.last, n) = "-"
=============================================================================
