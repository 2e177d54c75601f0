--------------------------- MODULE VaultRotation ----------------------------
(***************************************************************************)
(* Rotation of the vault's root key and its completion at boot:            *)
(* src/src/local/vault_rotate.rs, the custody of the root in vault.rs, the *)
(* recovery wrap in vault_recovery.rs, the vault part of bootstrap in      *)
(* app/lifecycle.rs and the managed open of db.rs.                         *)
(*                                                                         *)
(* Roots are numbered in the order they are minted.  A field, a database   *)
(* or a journal is represented by the root that opens it.  A wrap is the   *)
(* XOR of a user's key with roots: the set of roots XORed into it, so that *)
(* the user's code yields root r exactly when the wrap is {r}.  The empty  *)
(* wrap is one that was never configured.  Every write to disk, keyring or *)
(* database is a step of its own; a crash between two keeps what was       *)
(* written.                                                                *)
(***************************************************************************)
EXTENDS Integers, Sequences

CONSTANTS
    Rows,          \* sealed fields: vault_secrets values, personas columns
    None,          \* no value
    Faults,        \* subset of {"crash", "error", "refuse"}
    MaxRotations,  \* bound on rotations begun
    MaxFaults      \* bound on crashes, failed steps and refused keyring writes

ASSUME VaultRotationAssumption ==
    /\ None \notin Int
    /\ Faults \subseteq {"crash", "error", "refuse"}
    /\ MaxRotations \in Nat /\ MaxFaults \in Nat

Roots == Nat
Maybe == Roots \cup {None}

VARIABLES
    file, ring,    \* vault.key and the keyring entry
    jfile, jring,  \* the root in vault.rotate.json, the rotation keyring entry
    marker,        \* vault.rotate.json says that the keyring holds the root
    db,            \* writ.db
    aside,         \* databases renamed to writ.db.corrupt-*, oldest first
    keyring,       \* config.use_keyring
    pc, booting,   \* the step the process is at, and whether bootstrap runs it
    live, new,     \* the root it loaded, the root of the rotation in hand
    todo,          \* rows the reseal pass has yet to visit
    minted, faults \* counters

durable == <<file, ring, jfile, jring, marker, db, aside>>
vars == <<durable, keyring, pc, booting, live, new, todo, minted, faults>>

\* key: the page key.  rows: who sealed each field, None when there is no row.
\* mnemonic, passphrase: the wraps.  gen, wrapped: CFG_GEN and CFG_REWRAP_GEN.
Database ==
    [key : Roots, rows : [Rows -> Maybe], mnemonic : SUBSET Roots,
     passphrase : SUBSET Roots, gen : Nat, wrapped : Nat]

PC == {"down", "load", "journal", "probe", "open", "up", "hold", "record",
       "reseal", "rewrap", "mark", "rekey", "persist", "erase", "drop",
       "forget"}

TypeOK ==
    /\ file \in Maybe /\ ring \in Maybe /\ jfile \in Maybe /\ jring \in Maybe
    /\ marker \in BOOLEAN /\ keyring \in BOOLEAN /\ booting \in BOOLEAN
    /\ db \in Database /\ aside \in Seq(Database)
    /\ pc \in PC
    /\ live \in Maybe /\ new \in Maybe
    /\ pc \notin {"down", "load"} => live \in Roots
    /\ pc \notin {"down", "load", "journal", "open", "up"} => new \in Roots
    /\ todo \subseteq Rows
    /\ minted \in Nat /\ faults \in 0..MaxFaults

\* The root of the rotation in flight, as read_journal finds it.
Journalled == IF marker THEN jring ELSE jfile

\* The root load_or_create returns: the keyring's before the file's.
Loaded == IF keyring /\ ring # None THEN ring ELSE file

\* A database created under k.
Fresh(k) == [key |-> k, rows |-> [r \in Rows |-> None], mnemonic |-> {},
             passphrase |-> {}, gen |-> 0, wrapped |-> 0]

\* root.xor: both operands cancel what they share.
Xor(a, b) == (a \ b) \cup (b \ a)

\* One installation with data, codes set up or not, in either custody.
Init ==
    /\ keyring \in BOOLEAN
    /\ ring = IF keyring THEN 0 ELSE None
    /\ file = IF keyring THEN None ELSE 0
    /\ jfile = None /\ jring = None /\ marker = FALSE
    /\ \E m, p \in {{}, {0}} :
          db = [Fresh(0) EXCEPT !.rows = [r \in Rows |-> 0],
                                !.mnemonic = m, !.passphrase = p]
    /\ aside = <<>>
    /\ pc = "down" /\ booting = FALSE
    /\ live = None /\ new = None /\ todo = {}
    /\ minted = 0 /\ faults = 0

\* Whether a keyring write is refused, where the model lets it be.
Answers == {TRUE} \cup IF "refuse" \in Faults /\ faults < MaxFaults
                       THEN {FALSE} ELSE {}
Count(ok) == faults' = IF ok THEN faults ELSE faults + 1

-----------------------------------------------------------------------------
(* Faults of the code.                                                     *)

\* The journal goes before the root is persisted.
Rekey_DropsJournal ==
    /\ pc = "rekey"
    /\ db' = [db EXCEPT !.key = new]
    /\ jfile' = None /\ marker' = FALSE
    /\ pc' = "persist"
    /\ UNCHANGED <<file, ring, jring, aside, keyring, booting, live, new,
                   todo, minted, faults>>

\* A boot that finds an old-keyed database abandons the rotation.
Probe_Abandons ==
    /\ pc = "probe"
    /\ IF db.key = new
       THEN pc' = "persist" /\ UNCHANGED <<jfile, marker>>
       ELSE pc' = "open" /\ jfile' = None /\ marker' = FALSE
    /\ UNCHANGED <<file, ring, jring, db, aside, keyring, booting, live, new,
                   todo, minted, faults>>

\* The boot leaves the journal of a finished rotation behind.
Drop_Never ==
    /\ pc = "drop"
    /\ pc' = IF booting THEN "load" ELSE "down"
    /\ UNCHANGED <<durable, keyring, booting, live, new, todo, minted, faults>>

-----------------------------------------------------------------------------
(* Boot.                                                                   *)

\* The service manager starts the daemon.
Start ==
    /\ pc = "down"
    /\ pc' = "load"
    /\ booting' = TRUE
    /\ UNCHANGED <<durable, keyring, live, new, todo, minted, faults>>

\* load_or_create, an existing database: the keyring's root, and vault.key
\* goes only if it holds the same; else the file's, moved to the keyring.
LoadRoot ==
    /\ pc = "load"
    /\ live' = Loaded
    /\ \E ok \in IF keyring /\ ring = None THEN Answers ELSE {TRUE} :
          /\ Count(ok)
          /\ ring' = IF keyring /\ ring = None /\ ok THEN file ELSE ring
          /\ file' = IF keyring /\ file = ring' THEN None ELSE file
    /\ pc' = IF new # None THEN "open" ELSE "journal"
    /\ UNCHANGED <<jfile, jring, marker, db, aside, keyring, booting, new,
                   todo, minted>>

\* read_journal.  A marker without its keyring entry is an error, logged.
ReadJournal ==
    /\ pc = "journal"
    /\ new' = Journalled
    /\ pc' = IF Journalled = None THEN "open" ELSE "probe"
    /\ UNCHANGED <<durable, keyring, booting, live, todo, minted, faults>>

\* Which root opens the database decides how the rotation is completed.
Probe ==
    /\ pc = "probe"
    /\ pc' = CASE db.key = new  -> "persist"
               [] db.key = live -> "reseal"
               [] OTHER         -> "open"
    /\ todo' = Rows
    /\ UNCHANGED <<durable, keyring, booting, live, new, minted, faults>>

\* The newest copy set aside that opens under k.
Adoptable(k) == {i \in 1..Len(aside) : aside[i].key = k}

\* open_managed: a database that does not open is renamed aside, and the
\* newest copy that does, or an empty database, takes its place.
OpenManaged ==
    /\ pc = "open"
    /\ IF db.key = live
       THEN UNCHANGED <<db, aside>>
       ELSE /\ aside' = Append(aside, db)
            /\ db' = IF Adoptable(live) = {}
                     THEN Fresh(live)
                     ELSE aside[CHOOSE i \in Adoptable(live) :
                                    \A j \in Adoptable(live) : j <= i]
    /\ pc' = "up"
    /\ booting' = FALSE
    /\ new' = None
    /\ UNCHANGED <<file, ring, jfile, jring, marker, keyring, live, todo,
                   minted, faults>>

-----------------------------------------------------------------------------
(* Rotation.                                                               *)

\* rotate_root mints a root and records the generation it will have.
Mint ==
    /\ pc = "up" /\ minted < MaxRotations /\ db.key = live
    /\ minted' = minted + 1
    /\ new' = minted + 1
    /\ db' = [db EXCEPT !.gen = @ + 1]
    /\ todo' = Rows
    /\ pc' = IF keyring THEN "hold" ELSE "record"
    /\ UNCHANGED <<file, ring, jfile, jring, marker, aside, keyring, booting,
                   live, faults>>

\* write_journal, first half: the root goes to the keyring where it can.
HoldInKeyring ==
    /\ pc = "hold"
    /\ \E ok \in Answers :
          /\ Count(ok)
          /\ jring' = IF ok THEN new ELSE jring
    /\ pc' = "record"
    /\ UNCHANGED <<file, ring, jfile, marker, db, aside, keyring, booting,
                   live, new, todo, minted>>

\* Second half: the file, with the root itself when the keyring has it not.
RecordJournal ==
    /\ pc = "record"
    /\ marker' = (keyring /\ jring = new)
    /\ jfile' = IF marker' THEN None ELSE new
    /\ pc' = "reseal"
    /\ UNCHANGED <<file, ring, jring, db, aside, keyring, booting, live, new,
                   todo, minted, faults>>

\* The caller of an operation that failed: bootstrap logs it and opens the
\* database, a running daemon goes on as it was.
GiveUp == pc' = IF booting THEN "open" ELSE "up"

\* reseal_all, one row: sealed by neither root, it fails the operation.
Reseal(r) ==
    /\ pc = "reseal" /\ r \in todo
    /\ IF db.rows[r] \in {None, live, new}
       THEN /\ db' = IF db.rows[r] = live
                      THEN [db EXCEPT !.rows[r] = new] ELSE db
            /\ todo' = todo \ {r}
            /\ UNCHANGED pc
       ELSE GiveUp /\ UNCHANGED <<db, todo>>
    /\ UNCHANGED <<file, ring, jfile, jring, marker, aside, keyring, booting,
                   live, new, minted, faults>>

\* rewrap_recovery_idempotent: nothing to do when marked for this generation.
Rewrap ==
    /\ pc = "reseal" /\ todo = {}
    /\ IF db.wrapped = db.gen
       THEN pc' = "rekey" /\ UNCHANGED db
       ELSE /\ db' = [db EXCEPT !.mnemonic =
                         IF @ = {} THEN @ ELSE Xor(@, Xor({live}, {new}))]
            /\ pc' = "mark"
    /\ UNCHANGED <<file, ring, jfile, jring, marker, aside, keyring, booting,
                   live, new, todo, minted, faults>>

MarkWrapped ==
    /\ pc = "mark"
    /\ db' = [db EXCEPT !.wrapped = db.gen]
    /\ pc' = "rekey"
    /\ UNCHANGED <<file, ring, jfile, jring, marker, aside, keyring, booting,
                   live, new, todo, minted, faults>>

\* PRAGMA rekey on a connection of its own; transactional.
Rekey ==
    /\ pc = "rekey"
    /\ db' = [db EXCEPT !.key = new]
    /\ pc' = "persist"
    /\ UNCHANGED <<file, ring, jfile, jring, marker, aside, keyring, booting,
                   live, new, todo, minted, faults>>

\* persist_new_root: the keyring, then vault.key goes; or vault.key.
Persist ==
    /\ pc = "persist"
    /\ \E ok \in IF keyring THEN Answers ELSE {TRUE} :
          /\ Count(ok)
          /\ IF keyring /\ ok
             THEN ring' = new /\ pc' = "erase" /\ UNCHANGED file
             ELSE file' = new /\ pc' = "drop" /\ UNCHANGED ring
    /\ UNCHANGED <<jfile, jring, marker, db, aside, keyring, booting, live,
                   new, todo, minted>>

\* remove_key_file_if_present.
EraseFile ==
    /\ pc = "erase"
    /\ file' = None
    /\ pc' = "drop"
    /\ UNCHANGED <<ring, jfile, jring, marker, db, aside, keyring, booting,
                   live, new, todo, minted, faults>>

\* The journal file goes first.
DropJournal ==
    /\ pc = "drop"
    /\ jfile' = None /\ marker' = FALSE
    /\ pc' = "forget"
    /\ UNCHANGED <<file, ring, jring, db, aside, keyring, booting, live, new,
                   todo, minted, faults>>

\* Then its keyring entry.  Bootstrap reloads the vault; the caller of a
\* rotation must rebuild everything around the new root, as a restart does.
DropKeyringEntry ==
    /\ pc = "forget"
    /\ jring' = None
    /\ pc' = IF booting THEN "load" ELSE "down"
    /\ new' = IF booting THEN new ELSE None
    /\ live' = None /\ todo' = {}
    /\ UNCHANGED <<file, ring, jfile, marker, db, aside, keyring, booting,
                   minted, faults>>

-----------------------------------------------------------------------------
\* The process dies, or the operation at hand returns an error.
Interrupt ==
    \E how \in Faults \ {"refuse"} :
        /\ faults < MaxFaults
        /\ faults' = faults + 1
        /\ IF how = "crash"
           THEN /\ pc # "down"
                /\ pc' = "down" /\ booting' = FALSE
                /\ live' = None /\ new' = None /\ todo' = {}
           ELSE /\ pc \in {"record", "reseal", "mark", "rekey", "persist"}
                /\ GiveUp
                /\ UNCHANGED <<booting, live, new, todo>>
        /\ UNCHANGED <<durable, keyring, minted>>

Step ==
    \/ Start \/ LoadRoot \/ ReadJournal \/ Probe \/ OpenManaged
    \/ HoldInKeyring \/ RecordJournal
    \/ \E r \in Rows : Reseal(r)
    \/ Rewrap \/ MarkWrapped \/ Rekey
    \/ Persist \/ EraseFile \/ DropJournal \/ DropKeyringEntry

Next == Step \/ Mint \/ Interrupt

Spec == Init /\ [][Next]_vars

\* The process runs on, and the service manager starts it again.
FairSpec == Spec /\ WF_vars(Step)

-----------------------------------------------------------------------------
(* A crash at this moment loses nothing (the journal of vault_rotate.rs):  *)
(* the root a boot loads, or the journalled one, opens the database; every *)
(* field opens under the database's root or the journalled one; and no     *)
(* database was set aside.                                                 *)
SurvivesCrash ==
    /\ aside = <<>>
    /\ db.key \in {Loaded, Journalled}
    /\ \A r \in Rows : db.rows[r] \in {None, db.key, Journalled}

(* A daemon that is up and not rotating reads every field and holds the    *)
(* root of its database.                                                   *)
UpReadsAll ==
    pc = "up" => /\ db.key = live
                 /\ \A r \in Rows : db.rows[r] \in {None, live}

(* Every rotation that was journalled is completed, by the daemon or by a  *)
(* later boot: the journal goes, and root, database and fields agree.      *)
RotationCompletes ==
    Journalled # None ~>
        /\ Journalled = None /\ db.key = Loaded
        /\ \A r \in Rows : db.rows[r] = db.key
=============================================================================
