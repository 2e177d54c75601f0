------------------------ MODULE VaultRotation_proofs ------------------------
(***************************************************************************)
(* A rotation of the vault root survives crashes, for any set of rows, any *)
(* number of rotations and any number of crashes, as long as no step fails *)
(* without killing the process and the keyring refuses no write.           *)
(***************************************************************************)
EXTENDS VaultRotation, TLAPS

\* What each step of a rotation may rely on.
AtStep ==
    /\ pc \in {"journal", "probe", "open", "up", "hold", "record", "reseal",
               "mark", "rekey"} => live = Loaded
    /\ pc \in {"open", "up", "hold", "record", "reseal", "mark", "rekey"} =>
          db.key = live
    /\ pc \in {"open", "up", "hold", "record", "forget"} => Journalled = None
    /\ pc \in {"up", "hold", "record", "forget"} => jfile = None /\ ~marker
    /\ marker => jring # None
    /\ pc = "record" /\ keyring => jring = new
    /\ pc = "load" /\ new # None => Journalled = None
    /\ pc = "down" => new = None
    /\ pc \in {"probe", "reseal", "mark", "rekey", "persist", "erase", "drop"}
          => Journalled = new
    /\ pc \in {"persist", "erase", "drop", "forget"} => db.key = new
    /\ pc \in {"erase", "drop", "forget"} => Loaded = new
    /\ pc = "erase" => keyring /\ ring = new
    /\ pc \in {"hold", "record"} => todo = Rows
    /\ pc \in {"probe", "hold", "record", "reseal", "mark", "rekey",
               "persist", "erase", "drop", "forget"} => new # None

\* The rows the pass has been over open under the new root.
Resealed ==
    /\ pc = "reseal" => \A r \in Rows \ todo : db.rows[r] \in {None, new}
    /\ pc \in {"mark", "rekey"} => \A r \in Rows : db.rows[r] \in {None, new}

Inv == TypeOK /\ SurvivesCrash /\ AtStep /\ Resealed

(* Every state the daemon can first be started from satisfies the          *)
(* inductive invariant: one root, no journal, fields sealed under it.      *)
LEMMA InitInv == Init => Inv
<1> SUFFICES ASSUME Init PROVE Inv
    OBVIOUS
<1>1. PICK m \in {{}, {0}}, p \in {{}, {0}} :
         db = [key |-> 0, rows |-> [r \in Rows |-> 0], mnemonic |-> m,
               passphrase |-> p, gen |-> 0, wrapped |-> 0]
    BY DEF Init, Fresh
<1>2. TypeOK
  <2>1. db \in Database
      BY <1>1 DEF Database, Maybe, Roots
  <2>2. aside \in Seq(Database)
      BY DEF Init
  <2>3. file \in Maybe /\ ring \in Maybe
      BY DEF Init, Maybe, Roots
  <2>4. faults \in 0..MaxFaults /\ minted \in Nat
      BY VaultRotationAssumption DEF Init
  <2> QED BY <2>1, <2>2, <2>3, <2>4 DEF Init, TypeOK, PC, Maybe, Roots
<1>3. SurvivesCrash
    BY <1>1, VaultRotationAssumption DEF Init, SurvivesCrash, Loaded, Journalled
<1>4. AtStep /\ Resealed
    BY DEF Init, AtStep, Resealed
<1> QED BY <1>2, <1>3, <1>4 DEF Inv

(* Every step of a boot, of rotate_root and of its resumption preserves it, *)
(* and so does the death of the process between any two of them.           *)
LEMMA StepInv ==
    ASSUME Faults \subseteq {"crash"}, Inv, [Next]_vars
    PROVE  Inv'
<1> USE VaultRotationAssumption
<1>a. Answers = {TRUE}
    BY DEF Answers
<1>b. \A n \in Nat : n # None
    BY VaultRotationAssumption
<1>c. /\ db.key \in Nat /\ db.rows \in [Rows -> Maybe] /\ db.gen \in Nat
      /\ db.mnemonic \in SUBSET Nat /\ db \in Database
    BY DEF Inv, TypeOK, Database, Roots
<1>d. live \in Maybe /\ new \in Maybe
    BY DEF Inv, TypeOK
<1>1. CASE Start
  <2>1. TypeOK'
      BY <1>1, <1>a, <1>b, <1>c DEF Start, Inv, TypeOK, AtStep, PC, Maybe,
         Roots, Count, Journalled, Loaded, durable
  <2>2. SurvivesCrash' /\ AtStep'
      BY <1>1, <1>a, <1>b, <1>c DEF Start, Inv, SurvivesCrash, AtStep, Loaded,
         Journalled, durable
  <2>3. Resealed'
      BY <1>1, <1>b, <1>c DEF Start, Inv, SurvivesCrash, AtStep, Resealed,
         Loaded, Journalled, durable
  <2> QED BY <2>1, <2>2, <2>3 DEF Inv
<1>2. CASE LoadRoot
  <2>1. TypeOK'
      BY <1>2, <1>a, <1>b, <1>c DEF LoadRoot, Inv, TypeOK, AtStep, PC, Maybe,
         Roots, Count, Journalled, Loaded
  <2>2. SurvivesCrash' /\ AtStep'
      BY <1>2, <1>a, <1>b, <1>c DEF LoadRoot, Inv, SurvivesCrash, AtStep,
         Loaded, Journalled
  <2>3. Resealed'
      BY <1>2, <1>b, <1>c DEF LoadRoot, Inv, SurvivesCrash, AtStep, Resealed,
         Loaded, Journalled
  <2> QED BY <2>1, <2>2, <2>3 DEF Inv
<1>3. CASE ReadJournal
  <2>1. TypeOK'
      BY <1>3, <1>a, <1>b, <1>c DEF ReadJournal, Inv, TypeOK, AtStep, PC,
         Maybe, Roots, Count, Journalled, Loaded, durable
  <2>2. SurvivesCrash' /\ AtStep'
      BY <1>3, <1>a, <1>b, <1>c DEF ReadJournal, Inv, SurvivesCrash, AtStep,
         Loaded, Journalled, durable
  <2>3. Resealed'
      BY <1>3, <1>b, <1>c DEF ReadJournal, Inv, SurvivesCrash, AtStep,
         Resealed, Loaded, Journalled, durable
  <2> QED BY <2>1, <2>2, <2>3 DEF Inv
<1>4. CASE Probe
  <2>1. TypeOK'
      BY <1>4, <1>a, <1>b, <1>c DEF Probe, Inv, TypeOK, AtStep, PC, Maybe,
         Roots, Count, Journalled, Loaded, durable
  <2>2. SurvivesCrash' /\ AtStep'
      BY <1>4, <1>a, <1>b, <1>c DEF Probe, Inv, SurvivesCrash, AtStep, Loaded,
         Journalled, durable
  <2>3. Resealed'
      BY <1>4, <1>b, <1>c DEF Probe, Inv, SurvivesCrash, AtStep, Resealed,
         Loaded, Journalled, durable
  <2> QED BY <2>1, <2>2, <2>3 DEF Inv
<1>5. CASE OpenManaged
  <2>1. TypeOK'
      BY <1>5, <1>a, <1>b, <1>c DEF OpenManaged, Inv, TypeOK, AtStep, PC,
         Maybe, Roots, Count, Journalled, Loaded
  <2>2. SurvivesCrash' /\ AtStep'
      BY <1>5, <1>a, <1>b, <1>c DEF OpenManaged, Inv, SurvivesCrash, AtStep,
         Loaded, Journalled
  <2>3. Resealed'
      BY <1>5, <1>b, <1>c DEF OpenManaged, Inv, SurvivesCrash, AtStep,
         Resealed, Loaded, Journalled
  <2> QED BY <2>1, <2>2, <2>3 DEF Inv
<1>6. CASE Mint
  <2>1. /\ db' \in Database
        /\ db'.key = db.key /\ db'.rows = db.rows
      BY <1>6, <1>c DEF Mint, Database
  <2>2. minted' \in Nat /\ new' \in Nat
      BY <1>6 DEF Mint, Inv, TypeOK
  <2>3. TypeOK'
      BY <1>6, <2>1, <2>2 DEF Mint, Inv, TypeOK, AtStep, PC, Maybe, Roots
  <2>4. SurvivesCrash' /\ AtStep'
      BY <1>6, <1>b, <1>c, <2>1, <2>2 DEF Mint, Inv, SurvivesCrash, AtStep,
         Loaded, Journalled
  <2>5. Resealed'
      BY <1>6 DEF Mint, Resealed
  <2> QED BY <2>3, <2>4, <2>5 DEF Inv
<1>7. CASE HoldInKeyring
  <2>1. TypeOK'
      BY <1>7, <1>a, <1>b, <1>c DEF HoldInKeyring, Inv, TypeOK, AtStep, PC,
         Maybe, Roots, Count, Journalled, Loaded
  <2>2. SurvivesCrash' /\ AtStep'
      BY <1>7, <1>a, <1>b, <1>c DEF HoldInKeyring, Inv, SurvivesCrash, AtStep,
         Loaded, Journalled
  <2>3. Resealed'
      BY <1>7, <1>b, <1>c DEF HoldInKeyring, Inv, SurvivesCrash, AtStep,
         Resealed, Loaded, Journalled
  <2> QED BY <2>1, <2>2, <2>3 DEF Inv
<1>8. CASE RecordJournal
  <2>1. TypeOK'
      BY <1>8, <1>a, <1>b, <1>c DEF RecordJournal, Inv, TypeOK, AtStep, PC,
         Maybe, Roots, Count, Journalled, Loaded
  <2>2. SurvivesCrash' /\ AtStep'
      BY <1>8, <1>a, <1>b, <1>c DEF RecordJournal, Inv, SurvivesCrash, AtStep,
         Loaded, Journalled
  <2>3. Resealed'
      BY <1>8, <1>b, <1>c DEF RecordJournal, Inv, SurvivesCrash, AtStep,
         Resealed, Loaded, Journalled
  <2> QED BY <2>1, <2>2, <2>3 DEF Inv
<1>9. ASSUME NEW r \in Rows, Reseal(r) PROVE Inv'
  <2>1. /\ pc = "reseal" /\ live = db.key /\ new \in Nat /\ Journalled = new
        /\ db.rows[r] \in {None, live, new}
      BY <1>9, <1>b, <1>c DEF Reseal, Inv, TypeOK, AtStep, SurvivesCrash,
         Maybe, Roots
  <2>2. /\ db' \in Database
        /\ db'.key = db.key
        /\ db'.rows = [db.rows EXCEPT ![r] = IF @ = live THEN new ELSE @]
      BY <1>9, <1>c, <2>1 DEF Reseal, Database, Maybe, Roots
  <2>3. todo' = todo \ {r} /\ pc' = pc
      BY <1>9, <2>1 DEF Reseal
  <2>4. TypeOK'
      BY <1>9, <2>2, <2>3 DEF Reseal, Inv, TypeOK
  <2>5. SurvivesCrash' /\ AtStep'
      BY <1>9, <1>c, <2>1, <2>2, <2>3 DEF Reseal, Inv, SurvivesCrash, AtStep,
         Loaded, Journalled
  <2>6. Resealed'
      BY <1>9, <1>c, <2>1, <2>2, <2>3 DEF Reseal, Inv, Resealed
  <2> QED BY <2>4, <2>5, <2>6 DEF Inv
<1>10. CASE Rewrap
  <2>1. live \in Nat /\ new \in Nat
      BY <1>10, <1>c, <1>d DEF Rewrap, Inv, TypeOK, AtStep, Maybe, Roots
  <2>2. Xor(db.mnemonic, Xor({live}, {new})) \in SUBSET Nat
      BY <1>c, <2>1 DEF Xor
  <2>3. /\ db' \in Database
        /\ db'.key = db.key /\ db'.rows = db.rows
      BY <1>10, <1>c, <2>2 DEF Rewrap, Database, Roots
  <2>4. TypeOK'
      BY <1>10, <2>1, <2>3 DEF Rewrap, Inv, TypeOK, PC, Roots
  <2>5. SurvivesCrash' /\ AtStep'
      BY <1>10, <2>3 DEF Rewrap, Inv, SurvivesCrash, AtStep, Loaded, Journalled
  <2>6. Resealed'
      BY <1>10, <2>3 DEF Rewrap, Inv, Resealed
  <2> QED BY <2>4, <2>5, <2>6 DEF Inv
<1>11. CASE MarkWrapped
  <2>1. TypeOK'
      BY <1>11, <1>a, <1>b, <1>c DEF MarkWrapped, Inv, TypeOK, AtStep, PC,
         Maybe, Roots, Count, Journalled, Loaded, Database
  <2>2. SurvivesCrash' /\ AtStep'
      BY <1>11, <1>a, <1>b, <1>c DEF MarkWrapped, Inv, SurvivesCrash, AtStep,
         Loaded, Journalled, Database
  <2>3. Resealed'
      BY <1>11, <1>b, <1>c DEF MarkWrapped, Inv, SurvivesCrash, AtStep,
         Resealed, Loaded, Journalled, Database
  <2> QED BY <2>1, <2>2, <2>3 DEF Inv
<1>12. CASE Rekey
  <2>1. /\ db' \in Database
        /\ db'.key = new /\ db'.rows = db.rows
      BY <1>12, <1>c DEF Rekey, Inv, TypeOK, Database
  <2>2. TypeOK'
      BY <1>12, <2>1 DEF Rekey, Inv, TypeOK, PC
  <2>3. SurvivesCrash' /\ AtStep'
      BY <1>12, <2>1 DEF Rekey, Inv, SurvivesCrash, AtStep, Resealed, Loaded,
         Journalled
  <2>4. Resealed'
      BY <1>12 DEF Rekey, Resealed
  <2> QED BY <2>2, <2>3, <2>4 DEF Inv
<1>13. CASE Persist
  <2>1. TypeOK'
      BY <1>13, <1>a, <1>b, <1>c DEF Persist, Inv, TypeOK, AtStep, PC, Maybe,
         Roots, Count, Journalled, Loaded
  <2>2. SurvivesCrash' /\ AtStep'
      BY <1>13, <1>a, <1>b, <1>c DEF Persist, Inv, SurvivesCrash, AtStep,
         Loaded, Journalled
  <2>3. Resealed'
      BY <1>13, <1>b, <1>c DEF Persist, Inv, SurvivesCrash, AtStep, Resealed,
         Loaded, Journalled
  <2> QED BY <2>1, <2>2, <2>3 DEF Inv
<1>14. CASE EraseFile
  <2>1. TypeOK'
      BY <1>14, <1>a, <1>b, <1>c DEF EraseFile, Inv, TypeOK, AtStep, PC,
         Maybe, Roots, Count, Journalled, Loaded
  <2>2. SurvivesCrash' /\ AtStep'
      BY <1>14, <1>a, <1>b, <1>c DEF EraseFile, Inv, SurvivesCrash, AtStep,
         Loaded, Journalled
  <2>3. Resealed'
      BY <1>14, <1>b, <1>c DEF EraseFile, Inv, SurvivesCrash, AtStep,
         Resealed, Loaded, Journalled
  <2> QED BY <2>1, <2>2, <2>3 DEF Inv
<1>15. CASE DropJournal
  <2>1. TypeOK'
      BY <1>15, <1>a, <1>b, <1>c DEF DropJournal, Inv, TypeOK, AtStep, PC,
         Maybe, Roots, Count, Journalled, Loaded
  <2>2. SurvivesCrash' /\ AtStep'
      BY <1>15, <1>a, <1>b, <1>c DEF DropJournal, Inv, SurvivesCrash, AtStep,
         Loaded, Journalled
  <2>3. Resealed'
      BY <1>15, <1>b, <1>c DEF DropJournal, Inv, SurvivesCrash, AtStep,
         Resealed, Loaded, Journalled
  <2> QED BY <2>1, <2>2, <2>3 DEF Inv
<1>16. CASE DropKeyringEntry
  <2>1. TypeOK'
      BY <1>16, <1>a, <1>b, <1>c DEF DropKeyringEntry, Inv, TypeOK, AtStep,
         PC, Maybe, Roots, Count, Journalled, Loaded
  <2>2. SurvivesCrash' /\ AtStep'
      BY <1>16, <1>a, <1>b, <1>c DEF DropKeyringEntry, Inv, SurvivesCrash,
         AtStep, Loaded, Journalled
  <2>3. Resealed'
      BY <1>16, <1>b, <1>c DEF DropKeyringEntry, Inv, SurvivesCrash, AtStep,
         Resealed, Loaded, Journalled
  <2> QED BY <2>1, <2>2, <2>3 DEF Inv
<1>17. CASE Interrupt
  <2>1. /\ pc' = "down" /\ booting' = FALSE
        /\ live' = None /\ new' = None /\ todo' = {}
        /\ faults < MaxFaults /\ faults' = faults + 1
        /\ UNCHANGED <<durable, keyring, minted>>
      BY <1>17 DEF Interrupt
  <2>2. faults' \in 0..MaxFaults
      BY <2>1 DEF Inv, TypeOK
  <2>3. TypeOK'
      BY <2>1, <2>2 DEF Inv, TypeOK, PC, Maybe, durable
  <2>4. SurvivesCrash' /\ AtStep' /\ Resealed'
      BY <2>1 DEF Inv, SurvivesCrash, AtStep, Resealed, Loaded, Journalled,
         durable
  <2> QED BY <2>3, <2>4 DEF Inv
<1>18. CASE UNCHANGED vars
    BY <1>18 DEF vars, durable, Inv, TypeOK, SurvivesCrash, AtStep, Resealed,
       Loaded, Journalled
<1> QED BY <1>1, <1>2, <1>3, <1>4, <1>5, <1>6, <1>7, <1>8, <1>9, <1>10, <1>11,
           <1>12, <1>13, <1>14, <1>15, <1>16, <1>17, <1>18 DEF Next, Step

(* The type invariant of VaultRotation, crashes being the only fault.       *)
THEOREM TypeCorrect ==
    ASSUME Faults \subseteq {"crash"}
    PROVE  Spec => []TypeOK
<1>1. Inv /\ [Next]_vars => Inv'
    BY StepInv
<1>2. Inv => TypeOK
    BY DEF Inv
<1> QED BY InitInv, <1>1, <1>2, PTL DEF Spec

(* With crashes as the only fault, no crash at any moment of any rotation  *)
(* or of any boot that completes one (vault_rotate.rs) loses the root, the *)
(* database or a field.                                                    *)
THEOREM CrashSafety ==
    ASSUME Faults \subseteq {"crash"}
    PROVE  Spec => []SurvivesCrash
<1>1. Inv /\ [Next]_vars => Inv'
    BY StepInv
<1>2. Inv => SurvivesCrash
    BY DEF Inv
<1> QED BY InitInv, <1>1, <1>2, PTL DEF Spec

(* And a daemon that came up reads every field under the root it loaded.   *)
THEOREM ReadsAll ==
    ASSUME Faults \subseteq {"crash"}
    PROVE  Spec => []UpReadsAll
<1>1. Inv /\ [Next]_vars => Inv'
    BY StepInv
<1>2. Inv => UpReadsAll
    BY DEF Inv, UpReadsAll, AtStep, SurvivesCrash
<1> QED BY InitInv, <1>1, <1>2, PTL DEF Spec
=============================================================================
