------------------------------ MODULE DurableSave ------------------------------
(***************************************************************************)
(* What a player relies on when the game saves: the session goes on while  *)
(* the files of a save are replaced, and when the save succeeds they are   *)
(* durable together, all the same, each section as it was at some moment   *)
(* since the request.  A save that fails may leave anything in its own     *)
(* files, which is gone with the session or made durable by a later save;  *)
(* a session begins with exactly what a file of the mod holds, or with the *)
(* migration of one from before it.  SaveSystem implements this.           *)
(***************************************************************************)
EXTENDS Integers

CONSTANTS
  Sections,         \* what a save consists of; "main" is the version
  Files,            \* the files of the save data
  CURRENT_VERSION,  \* the version that a session brings its sections to
  Migrated(_),      \* the session that begins with a PlayerWork without custom data
  NoFile, BadFile   \* contents: no such file; a file that cannot be read

VARIABLES
  durable,  \* what outlives the session
  cached,   \* the files as the session sees them
  live,     \* the sections of the session, or Off
  pending   \* the save under way, or NoSave

vars == <<durable, cached, live, pending>>

Off    == [s \in Sections |-> -1]
NoSave == [files |-> {}, asked |-> Off, waits |-> FALSE]

Whole(c) == c \notin {NoFile, BadFile}

\* Every section as it was between the request and now (sections only grow).
Between(c) == \A s \in Sections : pending.asked[s] <= c[s] /\ c[s] <= live[s]

Init ==
  /\ cached = durable
  /\ live = Off
  /\ pending = NoSave

\* A session begins with what a file holds, an older version raised to this one; a
\* file from before the mod is migrated.
Restored(i) ==
  IF i["main"] > 0
    THEN [i EXCEPT !["main"] = IF @ < CURRENT_VERSION THEN CURRENT_VERSION ELSE @]
    ELSE Migrated(i["playerWork"])

Load ==
  /\ live = Off
  /\ \E f \in Files : Whole(cached[f]) /\ live' = Restored(cached[f])
  /\ UNCHANGED <<durable, cached, pending>>

\* Without a file a session begins with the migration of a new PlayerWork, which is
\* one that a second migration would leave alone.
New ==
  /\ live = Off
  /\ cached["Main"] = NoFile
  /\ live' \in [Sections -> Nat]
  /\ live' = Migrated(live'["playerWork"])
  /\ UNCHANGED <<durable, cached, pending>>

\* The session is left for another load, without a save under way.
Leave ==
  /\ live # Off
  /\ pending = NoSave
  /\ live' = Off
  /\ UNCHANGED <<durable, cached, pending>>

\* Sections change, but not while the session waits for its save.
Play ==
  /\ live # Off
  /\ ~pending.waits
  /\ \A s \in Sections : live'[s] >= live[s]
  /\ live'["main"] = live["main"]
  /\ UNCHANGED <<durable, cached, pending>>

Request(files, waits) ==
  /\ live # Off
  /\ pending = NoSave
  /\ pending' = [files |-> files, asked |-> live, waits |-> waits]
  /\ UNCHANGED <<durable, cached, live>>

\* Only the files of the save under way are touched: one is gone, damaged or holds
\* what the session was since the request.
Touch ==
  \A f \in Files :
    \/ cached'[f] = cached[f]
    \/ /\ f \in pending.files
       /\ Whole(cached'[f]) => Between(cached'[f])

Replace == pending # NoSave /\ Touch /\ UNCHANGED <<durable, live, pending>>
Fail    == pending # NoSave /\ Touch /\ pending' = NoSave /\ UNCHANGED <<durable, live>>

\* The whole save becomes durable, and with it what the session sees of other files.
Succeed ==
  /\ pending # NoSave
  /\ \A f, g \in pending.files :
       Whole(cached[f]) /\ Between(cached[f]) /\ cached[f] = cached[g]
  /\ durable' = cached
  /\ pending' = NoSave
  /\ UNCHANGED <<cached, live>>

\* The session ends, at any moment, without warning.
Close ==
  /\ cached' = durable
  /\ live' = Off
  /\ pending' = NoSave
  /\ UNCHANGED durable

Next ==
  \/ Load \/ New \/ Leave \/ Play
  \/ \E files \in (SUBSET Files) \ {{}}, waits \in BOOLEAN : Request(files, waits)
  \/ Replace \/ Fail \/ Succeed
  \/ Close

Spec == Init /\ [][Next]_vars
=============================================================================
