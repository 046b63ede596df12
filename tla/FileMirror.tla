------------------------------ MODULE FileMirror ------------------------------
(***************************************************************************)
(* The append-only mirror of the production file bucket: every version of  *)
(* every object under an address made of its digest and its key.  Workers  *)
(* copy the listed objects in parallel while the application replaces and  *)
(* deletes them; a failed request fails the run, and the workers that did  *)
(* not fail go on until their list is done.  The backup bucket's own rules *)
(* remove what was mirrored: an object is locked for a time from the PUT   *)
(* that stored it, nothing renews the lock of one that a run finds there,  *)
(* and once it has run out the lifecycle may expire the object.  Ages are  *)
(* not counted: a lock ends some time after the PUT, and an expiry comes   *)
(* some time after that.                                                   *)
(*                                                                         *)
(* A key is its place in the bucket's listing; contents stand for digests. *)
(***************************************************************************)
EXTENDS Naturals, FiniteSets

CONSTANTS
  FileKeys,     \* 1..n, in listing order
  FileContents, \* contents, and so digests
  Copiers,      \* concurrent workers
  Limit,        \* objects a run may start on
  Nothing

ASSUME KeysAreNumbers == FileKeys \subseteq Nat
ASSUME CopiersExist == Copiers # {}
ASSUME LimitIsNumber == Limit \in Nat
ASSUME NothingIsNoContent == Nothing \notin FileContents

VARIABLES
  source,   \* production objects
  mirrored, \* <<key, content>> addresses in the backup bucket
  locked,   \* those whose lock has not run out
  run,      \* the mirror run: listings, cursor, manifest entries
  copier,   \* its workers
  moved,    \* history: listed keys written or deleted since,
            \*   or whose mirrored copy expired while it copied
  covered,  \* history: versions that sat still through a completed run
  lapsed    \* history: the covered ones that expired since

heldVars == <<mirrored, locked, lapsed>>
mirrorVars == <<source, mirrored, locked, run, copier, moved, covered, lapsed>>

Address == FileKeys \X FileContents
Resting == [pc |-> "done", key |-> 0, body |-> Nothing]
NoRun ==
  [pc |-> "idle", listed |-> {}, existing |-> {}, started |-> 0,
   entries |-> {}, failed |-> FALSE]

MirrorTypeOK ==
  /\ source \in [FileKeys -> FileContents \cup {Nothing}]
  /\ mirrored \subseteq Address /\ locked \subseteq mirrored
  /\ run \in [pc : {"idle", "plan", "copy", "verify"}, listed : SUBSET FileKeys,
              existing : SUBSET Address, started : 0..Limit,
              entries : SUBSET Address, failed : BOOLEAN]
  /\ copier \in [Copiers -> [pc : {"next", "get", "put", "done"},
                             key : FileKeys \cup {0},
                             body : FileContents \cup {Nothing}]]
  /\ moved \subseteq FileKeys
  /\ covered \subseteq Address /\ lapsed \subseteq Address

MirrorInit ==
  /\ source = [k \in FileKeys |-> Nothing]
  /\ mirrored = {} /\ locked = {}
  /\ run = NoRun
  /\ copier = [w \in Copiers |-> Resting]
  /\ moved = {}
  /\ covered = {} /\ lapsed = {}

(* The application stores, replaces or deletes an object.                  *)
WriteObject ==
  \E k \in FileKeys, c \in FileContents \cup {Nothing} :
    /\ source[k] # c
    /\ source' = [source EXCEPT ![k] = c]
    /\ moved' = IF run.pc \in {"plan", "copy"}
                THEN moved \cup ({k} \cap run.listed) ELSE {}
    /\ UNCHANGED <<heldVars, run, copier, covered>>

(* The listing of production names keys and no digests.                    *)
ListSource ==
  /\ run.pc = "idle" /\ \A w \in Copiers : copier[w].pc = "done"
  /\ run' = [NoRun EXCEPT !.pc = "plan",
                          !.listed = {k \in FileKeys : source[k] # Nothing}]
  /\ moved' = {}
  /\ UNCHANGED <<source, heldVars, copier, covered>>

(* planMirror: an object without a recorded digest is always a candidate.  *)
PlanMirror ==
  /\ run.pc = "plan"
  /\ run' = [run EXCEPT !.pc = "copy", !.existing = mirrored]
  /\ copier' = [w \in Copiers |-> [Resting EXCEPT !.pc = "next"]]
  /\ UNCHANGED <<source, heldVars, moved, covered>>

(* The objects left to take; cursor and started move together up to Limit. *)
Untaken == {k \in run.listed : Cardinality({j \in run.listed : j < k}) >= run.started}

TakeNext(w) ==
  /\ copier[w].pc = "next"
  /\ IF Untaken # {} /\ run.started < Limit
     THEN /\ copier' = [copier EXCEPT ![w] =
                [pc |-> "get", body |-> Nothing,
                 key |-> CHOOSE k \in Untaken : \A j \in Untaken : k <= j]]
          /\ run' = [run EXCEPT !.started = @ + 1]
     ELSE /\ copier' = [copier EXCEPT ![w] = Resting]
          /\ UNCHANGED run
  /\ UNCHANGED <<source, heldVars, moved, covered>>

(* Mutant: an object with any mirrored version is taken to be mirrored.    *)
GetUnlessMirrored(w) ==
  LET k == copier[w].key
      c == source[k]
      known == \E d \in FileContents : <<k, d>> \in run.existing
  IN /\ copier[w].pc = "get"
     /\ IF c = Nothing \/ known
        THEN /\ copier' = [copier EXCEPT ![w] = [Resting EXCEPT !.pc = "next"]]
             /\ run' = IF c = Nothing THEN run
                       ELSE [run EXCEPT !.entries = @ \cup {<<k, c>>}]
        ELSE /\ copier' = [copier EXCEPT ![w].pc = "put", ![w].body = c]
             /\ UNCHANGED run
     /\ UNCHANGED <<source, heldVars, moved, covered>>

(* The bytes are read and hashed; a key that has gone is passed over, and  *)
(* bytes the mirror listed already are recorded and not copied.            *)
GetObject(w) ==
  LET k == copier[w].key
      c == source[k]
  IN /\ copier[w].pc = "get"
     /\ IF c = Nothing \/ <<k, c>> \in run.existing
        THEN /\ copier' = [copier EXCEPT ![w] = [Resting EXCEPT !.pc = "next"]]
             /\ run' = IF c = Nothing THEN run
                       ELSE [run EXCEPT !.entries = @ \cup {<<k, c>>}]
        ELSE /\ copier' = [copier EXCEPT ![w].pc = "put", ![w].body = c]
             /\ UNCHANGED run
     /\ UNCHANGED <<source, heldVars, moved, covered>>

(* A PUT: it refuses an existing address, and what it stores is locked.    *)
Stored(a) ==
  /\ a \notin mirrored
  /\ mirrored' = mirrored \cup {a}
  /\ locked' = locked \cup {a}
  /\ lapsed' = lapsed \ {a}

PutMirror(w) ==
  LET a == <<copier[w].key, copier[w].body>>
  IN /\ copier[w].pc = "put"
     /\ Stored(a)
     /\ run' = [run EXCEPT !.existing = @ \cup {a}, !.entries = @ \cup {a}]
     /\ copier' = [copier EXCEPT ![w] = [Resting EXCEPT !.pc = "next"]]
     /\ UNCHANGED <<source, moved, covered>>

(* A read that failed three times, or a write that failed once, stored or  *)
(* not: the worker stops, and there will be no manifest.                   *)
RequestFails(w) ==
  /\ copier[w].pc \in {"get", "put"}
  /\ \/ copier[w].pc = "put" /\ Stored(<<copier[w].key, copier[w].body>>)
     \/ UNCHANGED heldVars
  /\ run' = [run EXCEPT !.failed = TRUE]
  /\ copier' = [copier EXCEPT ![w] = Resting]
  /\ UNCHANGED <<source, moved, covered>>

(* What a run covers: the versions listed within the limit that nothing    *)
(* changed, or expired, up to the manifest.                                *)
SatStill ==
  {<<k, source[k]>> : k \in {j \in run.listed \ moved :
     Cardinality({i \in run.listed : i < j}) < Limit}}

(* The manifest of a run that did not fail names what it copied or found.  *)
WriteManifest ==
  /\ run.pc = "copy" /\ \A w \in Copiers : copier[w].pc = "done"
  /\ run' = IF run.failed THEN NoRun
            ELSE [NoRun EXCEPT !.pc = "verify", !.entries = run.entries]
  /\ covered' = IF run.failed THEN covered ELSE covered \cup SatStill
  /\ lapsed' = IF run.failed THEN lapsed ELSE lapsed \ SatStill
  /\ moved' = {}
  /\ UNCHANGED <<source, mirrored, locked, copier>>

(* verifyMirror reads back every entry, or a sample, of the manifest.      *)
VerifyMirror ==
  /\ run.pc = "verify"
  /\ run' = NoRun
  /\ UNCHANGED <<source, heldVars, copier, moved, covered>>

(* The runner dies, with whatever its workers had in flight.               *)
RunnerDies ==
  /\ run.pc # "idle"
  /\ run' = NoRun
  /\ copier' = [w \in Copiers |-> Resting]
  /\ moved' = {}
  /\ UNCHANGED <<source, heldVars, covered>>

(* The lock rule protects an object for a time from the PUT that stored it.*)
LockEnds(a) ==
  /\ a \in locked
  /\ locked' = locked \ {a}
  /\ UNCHANGED <<source, mirrored, run, copier, moved, covered, lapsed>>

(* The lifecycle rule removes an object, which a lock outranks.            *)
ExpireMirrored(a) ==
  /\ a \in mirrored \ locked
  /\ mirrored' = mirrored \ {a}
  /\ lapsed' = IF a \in covered THEN lapsed \cup {a} ELSE lapsed
  /\ moved' = IF run.pc = "copy" /\ source[a[1]] = a[2]
              THEN moved \cup ({a[1]} \cap run.listed) ELSE moved
  /\ UNCHANGED <<source, locked, run, copier, covered>>

MirrorNext ==
  \/ WriteObject \/ ListSource \/ PlanMirror
  \/ \E w \in Copiers : TakeNext(w) \/ GetObject(w) \/ PutMirror(w) \/ RequestFails(w)
  \/ WriteManifest \/ VerifyMirror \/ RunnerDies
  \/ \E a \in mirrored : LockEnds(a) \/ ExpireMirrored(a)

(* r2-recover: the versions the mirror holds of a key.                     *)
Versions(k) == {c \in FileContents : <<k, c>> \in mirrored}

(* describeRecovery with the digest of the production bytes.               *)
Superseded(k) == Versions(k) \ {source[k]}

-----------------------------------------------------------------------------
(* A version that was in production, untouched, from the listing of a run  *)
(* to its manifest can be recovered until the bucket's rules remove it,    *)
(* whatever later requests, runs and failures do to the object: nothing    *)
(* else loses it, the rules never do while the lock of its PUT holds, and  *)
(* a later run that covers it again finds or stores it again.  Objects     *)
(* beyond the limit of a run are not promised anything: candidates are     *)
(* counted before they are hashed, so the ones that are already mirrored   *)
(* use the limit up.                                                       *)
CoveredUntilExpiry ==
  \A a \in covered :
    a[2] \in Versions(a[1]) \/ (a \in lapsed /\ a \notin locked)
=============================================================================
