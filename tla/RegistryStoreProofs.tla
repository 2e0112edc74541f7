------------------------- MODULE RegistryStoreProofs -------------------------
(***************************************************************************)
(* RegistryStore implements AtomicRegistry, for any number of commands and *)
(* transactions.                                                           *)
(***************************************************************************)
EXTENDS RegistryStore, TLAPS

\* The lock is held from Lock to Unlock, and what holds it is in a transaction.
LockHeld ==
    /\ \A c \in Clients :
         /\ pc[c] \in {"body", "unlock"} \cup Writing => txn[c]
         /\ txn[c] /\ pc[c] \notin {"idle", "done"} => lock = c
    /\ lock # None => txn[lock] /\ pc[lock] \notin {"idle", "done"}

\* What instances.json leads to is whole, and is not the temporary file.
FileWhole == json # None => json # tmp /\ contents[json] # Partial

\* An open file is whole and nobody will write to it.
ReaderSafe ==
    \A c \in Clients :
      /\ pc[c] = "open" => json # None
      /\ pc[c] = "parse" =>
           /\ fd[c] \in Inodes /\ fd[c] # tmp
           /\ contents[fd[c]] # Partial
           /\ txn[c] => fd[c] = json

\* A transaction has read the registry it is going to replace.
DraftCurrent ==
    \A c \in Clients :
      /\ pc[c] = "body" => mem[c] = Committed
      /\ pc[c] \in Writing =>
           /\ mem[c] \in Registry
           /\ mem[c].generation = Committed.generation + 1
      /\ pc[c] \in {"write", "replace"} => tmp # None
      /\ pc[c] = "replace" => contents[tmp] = mem[c]

StoreInv == TypeOK /\ LockHeld /\ FileWhole /\ ReaderSafe /\ DraftCurrent
-----------------------------------------------------------------------------
\* StoreInv holds before anything has been written.
LEMMA InitInv == Init => StoreInv
  BY StoreAssumption, ContentsAssumption
     DEF Init, StoreInv, TypeOK, LockHeld, FileWhole, ReaderSafe, DraftCurrent,
         Places, Reading, Writing

\* No step of a command breaks StoreInv.
LEMMA StepInv == ASSUME StoreInv, NEW c \in Clients, Step(c) PROVE StoreInv'
  <1> USE StoreAssumption, ContentsAssumption DEF StoreInv
  <1>1. CASE Lock(c)
    <2>1. TypeOK'
      BY <1>1 DEF Lock, TypeOK, Goto, fileVars, Places, Reading
    <2>2. LockHeld'
      BY <1>1 DEF Lock, TypeOK, LockHeld, Goto
    <2>3. FileWhole'
      BY <1>1 DEF Lock, FileWhole, Goto, fileVars
    <2>4. ReaderSafe'
      BY <1>1 DEF Lock, ReaderSafe, Goto, fileVars
    <2>5. DraftCurrent'
      BY <1>1 DEF Lock, LockHeld, DraftCurrent, Goto, Writing
    <2> QED  BY <2>1, <2>2, <2>3, <2>4, <2>5
  <1>2. CASE Read(c)
    <2>1. TypeOK'
      BY <1>2 DEF Read, TypeOK, Goto, fileVars, Places, Reading
    <2>2. LockHeld'
      BY <1>2 DEF Read, TypeOK, LockHeld, Goto, Writing
    <2>3. FileWhole'
      BY <1>2 DEF Read, FileWhole, Goto, fileVars
    <2>4. ReaderSafe'
      BY <1>2 DEF Read, ReaderSafe, Goto, fileVars
    <2>5. DraftCurrent'
      BY <1>2 DEF Read, DraftCurrent, Committed, Goto, fileVars, Writing
    <2> QED  BY <2>1, <2>2, <2>3, <2>4, <2>5
  <1>3. CASE NoFile(c)
    <2>1. TypeOK'
      BY <1>3
         DEF NoFile, Loaded, Empty, TypeOK, Goto, fileVars, Places,
             Registry
    <2>2. LockHeld'
      BY <1>3 DEF NoFile, Loaded, LockHeld, Goto, Writing
    <2>3. FileWhole'
      BY <1>3 DEF NoFile, Loaded, FileWhole, Goto, fileVars
    <2>4. ReaderSafe'
      BY <1>3 DEF NoFile, Loaded, ReaderSafe, Goto, fileVars
    <2>5. DraftCurrent'
      BY <1>3
         DEF NoFile, Loaded, TypeOK, DraftCurrent, Committed, Goto,
             fileVars, Writing
    <2> QED  BY <2>1, <2>2, <2>3, <2>4, <2>5
  <1>4. CASE FileExists(c)
    <2>1. TypeOK'
      BY <1>4 DEF FileExists, TypeOK, Goto, fileVars, Places, Reading
    <2>2. LockHeld'
      BY <1>4 DEF FileExists, LockHeld, Goto, Writing
    <2>3. FileWhole'
      BY <1>4 DEF FileExists, FileWhole, Goto, fileVars
    <2>4. ReaderSafe'
      BY <1>4 DEF FileExists, ReaderSafe, Goto, fileVars
    <2>5. DraftCurrent'
      BY <1>4 DEF FileExists, DraftCurrent, Committed, Goto, fileVars, Writing
    <2> QED  BY <2>1, <2>2, <2>3, <2>4, <2>5
  <1>5. CASE Open(c)
    <2>1. TypeOK'
      BY <1>5 DEF Open, TypeOK, Goto, fileVars, Places, Reading
    <2>2. LockHeld'
      BY <1>5 DEF Open, LockHeld, Goto, Writing
    <2>3. FileWhole'
      BY <1>5 DEF Open, FileWhole, Goto, fileVars
    <2>4. ReaderSafe'
      BY <1>5 DEF Open, TypeOK, FileWhole, ReaderSafe, Goto, fileVars
    <2>5. DraftCurrent'
      BY <1>5 DEF Open, DraftCurrent, Committed, Goto, fileVars, Writing
    <2> QED  BY <2>1, <2>2, <2>3, <2>4, <2>5
  <1>6. CASE Parse(c)
    <2>1. TypeOK'
      BY <1>6 DEF Parse, Loaded, TypeOK, ReaderSafe, Goto, fileVars, Places
    <2>2. LockHeld'
      BY <1>6 DEF Parse, Loaded, TypeOK, LockHeld, Goto, Writing
    <2>3. FileWhole'
      BY <1>6 DEF Parse, Loaded, FileWhole, Goto, fileVars
    <2>4. ReaderSafe'
      BY <1>6 DEF Parse, Loaded, TypeOK, ReaderSafe, Goto, fileVars
    <2>5. DraftCurrent'
      BY <1>6
         DEF Parse, Loaded, TypeOK, ReaderSafe, DraftCurrent,
             Committed, Goto, fileVars, Writing
    <2> QED  BY <2>1, <2>2, <2>3, <2>4, <2>5
  <1>7. CASE Modify(c)
    <2>1. TypeOK'
      BY <1>7
         DEF Modify, TypeOK, FileWhole, DraftCurrent, Committed, Goto,
             fileVars, Places, Writing, Registry, Empty
    <2>2. LockHeld'
      BY <1>7 DEF Modify, LockHeld, Goto
    <2>3. FileWhole'
      BY <1>7 DEF Modify, FileWhole, Goto, fileVars
    <2>4. ReaderSafe'
      BY <1>7 DEF Modify, ReaderSafe, Goto, fileVars
    <2>5. DraftCurrent'
      BY <1>7
         DEF Modify, TypeOK, FileWhole, DraftCurrent, Committed, Goto,
             fileVars, Registry, Empty
    <2> QED  BY <2>1, <2>2, <2>3, <2>4, <2>5
  <1>8. CASE Raise(c)
    <2>1. TypeOK'
      BY <1>8 DEF Raise, TypeOK, Goto, fileVars, Places
    <2>2. LockHeld'
      BY <1>8 DEF Raise, LockHeld, Goto
    <2>3. FileWhole'
      BY <1>8 DEF Raise, FileWhole, Goto, fileVars
    <2>4. ReaderSafe'
      BY <1>8 DEF Raise, ReaderSafe, Goto, fileVars
    <2>5. DraftCurrent'
      BY <1>8 DEF Raise, TypeOK, LockHeld, DraftCurrent, Goto, Writing
    <2> QED  BY <2>1, <2>2, <2>3, <2>4, <2>5
  <1>9. CASE Create(c)
    <2>1. TypeOK'
      BY <1>9 DEF Create, Unused, TypeOK, Goto, Places, Writing
    <2>2. LockHeld'
      BY <1>9 DEF Create, Unused, LockHeld, Goto, Writing
    <2>3. FileWhole'
      BY <1>9 DEF Create, Unused, FileWhole, Goto
    <2>4. ReaderSafe'
      BY <1>9 DEF Create, Unused, ReaderSafe, Goto
    <2>5. DraftCurrent'
      BY <1>9
         DEF Create, Unused, LockHeld, FileWhole, DraftCurrent,
             Committed, Goto, Writing
    <2> QED  BY <2>1, <2>2, <2>3, <2>4, <2>5
  <1>10. CASE Write(c)
    <2>1. TypeOK'
      BY <1>10 DEF Write, TypeOK, DraftCurrent, Goto, Places, Writing
    <2>2. LockHeld'
      BY <1>10 DEF Write, LockHeld, Goto, Writing
    <2>3. FileWhole'
      BY <1>10 DEF Write, FileWhole, Goto
    <2>4. ReaderSafe'
      BY <1>10 DEF Write, ReaderSafe, Goto
    <2>5. DraftCurrent'
      BY <1>10
         DEF Write, TypeOK, LockHeld, FileWhole, DraftCurrent,
             Committed, Goto, Writing
    <2> QED  BY <2>1, <2>2, <2>3, <2>4, <2>5
  <1>11. CASE Replace(c)
    <2>1. TypeOK'
      BY <1>11 DEF Replace, TypeOK, Goto, Places
    <2>2. LockHeld'
      BY <1>11 DEF Replace, LockHeld, Goto, Writing
    <2>3. FileWhole'
      BY <1>11 DEF Replace, FileWhole, DraftCurrent, Goto, Writing
    <2>4. ReaderSafe'
      BY <1>11 DEF Replace, LockHeld, ReaderSafe, DraftCurrent, Goto, Writing
    <2>5. DraftCurrent'
      BY <1>11 DEF Replace, TypeOK, LockHeld, DraftCurrent, Goto, Writing
    <2> QED  BY <2>1, <2>2, <2>3, <2>4, <2>5
  <1>12. CASE WriteFails(c)
    <2>1. TypeOK'
      BY <1>12 DEF WriteFails, TypeOK, Goto, fileVars, Places
    <2>2. LockHeld'
      BY <1>12 DEF WriteFails, LockHeld, Goto, Writing
    <2>3. FileWhole'
      BY <1>12 DEF WriteFails, FileWhole, Goto, fileVars
    <2>4. ReaderSafe'
      BY <1>12 DEF WriteFails, ReaderSafe, Goto, fileVars
    <2>5. DraftCurrent'
      BY <1>12 DEF WriteFails, TypeOK, LockHeld, DraftCurrent, Goto, Writing
    <2> QED  BY <2>1, <2>2, <2>3, <2>4, <2>5
  <1>13. CASE Unlock(c)
    <2>1. TypeOK'
      BY <1>13 DEF Unlock, TypeOK, Goto, fileVars, Places
    <2>2. LockHeld'
      BY <1>13 DEF Unlock, TypeOK, LockHeld, Goto
    <2>3. FileWhole'
      BY <1>13 DEF Unlock, FileWhole, Goto, fileVars
    <2>4. ReaderSafe'
      BY <1>13 DEF Unlock, ReaderSafe, Goto, fileVars
    <2>5. DraftCurrent'
      BY <1>13 DEF Unlock, LockHeld, DraftCurrent, Goto, Writing
    <2> QED  BY <2>1, <2>2, <2>3, <2>4, <2>5
  <1>14. CASE Return(c)
    <2>1. TypeOK'
      BY <1>14 DEF Return, TypeOK, Goto, fileVars, Places
    <2>2. LockHeld'
      BY <1>14 DEF Return, LockHeld, Goto, Writing
    <2>3. FileWhole'
      BY <1>14 DEF Return, FileWhole, Goto, fileVars
    <2>4. ReaderSafe'
      BY <1>14 DEF Return, ReaderSafe, Goto, fileVars
    <2>5. DraftCurrent'
      BY <1>14 DEF Return, DraftCurrent, Committed, Goto, fileVars, Writing
    <2> QED  BY <2>1, <2>2, <2>3, <2>4, <2>5
  <1>15. CASE Crash(c)
    <2>1. TypeOK'
      BY <1>15 DEF Crash, TypeOK, Goto, fileVars, Places
    <2>2. LockHeld'
      BY <1>15 DEF Crash, TypeOK, LockHeld, Goto, Writing
    <2>3. FileWhole'
      BY <1>15 DEF Crash, FileWhole, Goto, fileVars
    <2>4. ReaderSafe'
      BY <1>15 DEF Crash, TypeOK, ReaderSafe, Goto, fileVars
    <2>5. DraftCurrent'
      BY <1>15
         DEF Crash, TypeOK, DraftCurrent, Committed, Goto, fileVars,
             Writing
    <2> QED  BY <2>1, <2>2, <2>3, <2>4, <2>5
  <1> QED
    BY <1>1, <1>2, <1>3, <1>4, <1>5, <1>6, <1>7, <1>8, <1>9,
       <1>10, <1>11, <1>12, <1>13, <1>14, <1>15 DEF Step
-----------------------------------------------------------------------------
\* The empty registry is the abstract initial state.
LEMMA InitRefines == Init => Atomic!Init
  BY StoreAssumption
     DEF Init, Atomic!Init, Committed, Owner, Draft, Seen, Empty,
         Atomic!Empty

\* A command's step is one of the abstract specification, or none.
LEMMA StepRefines ==
  ASSUME StoreInv, NEW c \in Clients, Step(c)
  PROVE  Atomic!Next \/ UNCHANGED Atomic!vars
  <1> USE StoreAssumption, ContentsAssumption DEF StoreInv
  <1>1. CASE Lock(c)
    BY <1>1
       DEF Lock, Goto, fileVars, Writing, Committed, Owner, Draft, Seen,
           Atomic!vars
  <1>2. CASE Read(c)
    BY <1>2
       DEF Read, LockHeld, Goto, fileVars, Committed, Owner, Draft, Seen,
           Atomic!vars
  <1>3. CASE NoFile(c) /\ txn[c]
    <2>1. Owner = None
      BY <1>3 DEF NoFile, Loaded, LockHeld, Goto, Writing, Owner
    <2>2. Owner' = c
      BY <1>3 DEF NoFile, Loaded, TypeOK, LockHeld, Goto, Owner
    <2>3. Draft' = Committed
      BY <1>3
         DEF NoFile, Loaded, TypeOK, LockHeld, Goto, Committed, Owner,
             Draft
    <2>4. UNCHANGED <<Committed, [d \in Clients |-> Seen(d)]>>
      BY <1>3 DEF NoFile, Loaded, Goto, fileVars, Committed, Seen
    <2> QED  BY <2>1, <2>2, <2>3, <2>4 DEF Atomic!Begin, Atomic!Next
  <1>4. CASE NoFile(c) /\ ~txn[c]
    <2>1. [d \in Clients |-> Seen(d)]' = [[d \in Clients |-> Seen(d)] EXCEPT ![c] = Committed]
      BY <1>4 DEF NoFile, Loaded, TypeOK, Goto, fileVars, Committed, Seen
    <2>2. UNCHANGED <<Committed, Owner, Draft>>
      BY <1>4
         DEF NoFile, Loaded, LockHeld, Goto, fileVars, Committed,
             Owner, Draft
    <2> QED  BY <2>1, <2>2 DEF Atomic!Look, Atomic!Next
  <1>5. CASE FileExists(c)
    BY <1>5
       DEF FileExists, Goto, fileVars, Writing, Committed, Owner, Draft,
           Seen, Atomic!vars
  <1>6. CASE Open(c) /\ txn[c]
    BY <1>6
       DEF Open, Goto, fileVars, Writing, Committed, Owner, Draft, Seen,
           Atomic!vars
  <1>7. CASE Open(c) /\ ~txn[c]
    <2>1. [d \in Clients |-> Seen(d)]' = [[d \in Clients |-> Seen(d)] EXCEPT ![c] = Committed]
      BY <1>7 DEF Open, TypeOK, Goto, fileVars, Committed, Seen
    <2>2. UNCHANGED <<Committed, Owner, Draft>>
      BY <1>7 DEF Open, LockHeld, Goto, fileVars, Committed, Owner, Draft
    <2> QED  BY <2>1, <2>2 DEF Atomic!Look, Atomic!Next
  <1>8. CASE Parse(c) /\ txn[c]
    <2>1. Owner = None
      BY <1>8 DEF Parse, Loaded, LockHeld, Goto, Writing, Owner
    <2>2. Owner' = c
      BY <1>8 DEF Parse, Loaded, TypeOK, LockHeld, ReaderSafe, Goto, Owner
    <2>3. Draft' = Committed
      BY <1>8
         DEF Parse, Loaded, TypeOK, LockHeld, ReaderSafe, Goto,
             Committed, Owner, Draft
    <2>4. UNCHANGED <<Committed, [d \in Clients |-> Seen(d)]>>
      BY <1>8 DEF Parse, Loaded, TypeOK, Goto, fileVars, Committed, Seen
    <2> QED  BY <2>1, <2>2, <2>3, <2>4 DEF Atomic!Begin, Atomic!Next
  <1>9. CASE Parse(c) /\ ~txn[c]
    BY <1>9
       DEF Parse, Loaded, TypeOK, LockHeld, ReaderSafe, Goto, fileVars,
           Committed, Owner, Draft, Seen, Atomic!vars
  <1>10. CASE Modify(c)
    <2>1. Owner = c
      BY <1>10 DEF Modify, LockHeld, Goto, Owner
    <2>2. \E r \in Rows : Draft' = [generation |-> Committed.generation + 1, rows |-> r]
      BY <1>10
         DEF Modify, TypeOK, LockHeld, DraftCurrent, Goto, Writing,
             Owner, Draft
    <2>3. UNCHANGED <<Committed, Owner, [d \in Clients |-> Seen(d)]>>
      BY <1>10 DEF Modify, Goto, fileVars, Writing, Committed, Owner, Seen
    <2> QED  BY <2>1, <2>2, <2>3 DEF Atomic!Edit, Atomic!Next
  <1>11. CASE Raise(c)
    <2>1. Owner = c
      BY <1>11 DEF Raise, LockHeld, Goto, Owner
    <2>2. Owner' = None
      BY <1>11 DEF Raise, TypeOK, LockHeld, Goto, Writing, Owner
    <2>3. Draft' = None
      BY <1>11 DEF Raise, TypeOK, LockHeld, Goto, Writing, Owner, Draft
    <2>4. UNCHANGED <<Committed, [d \in Clients |-> Seen(d)]>>
      BY <1>11 DEF Raise, Goto, fileVars, Committed, Seen
    <2> QED  BY <2>1, <2>2, <2>3, <2>4 DEF Atomic!Abandon, Atomic!Next
  <1>12. CASE Create(c)
    BY <1>12
       DEF Create, Unused, FileWhole, ReaderSafe, Goto, Writing,
           Committed, Owner, Draft, Seen, Atomic!vars
  <1>13. CASE Write(c)
    BY <1>13
       DEF Write, FileWhole, ReaderSafe, Goto, Writing, Committed, Owner,
           Draft, Seen, Atomic!vars
  <1>14. CASE Replace(c)
    <2>1. Owner = c /\ Draft.generation = Committed.generation + 1
      BY <1>14 DEF Replace, LockHeld, DraftCurrent, Goto, Writing, Owner, Draft
    <2>2. Committed' = Draft
      BY <1>14
         DEF Replace, LockHeld, DraftCurrent, Goto, Writing, Committed,
             Owner, Draft
    <2>3. Owner' = None
      BY <1>14 DEF Replace, TypeOK, LockHeld, Goto, Writing, Owner
    <2>4. Draft' = None
      BY <1>14 DEF Replace, TypeOK, LockHeld, Goto, Writing, Owner, Draft
    <2>5. UNCHANGED [d \in Clients |-> Seen(d)]
      BY <1>14 DEF Replace, Goto, Seen
    <2> QED  BY <2>1, <2>2, <2>3, <2>4, <2>5 DEF Atomic!Commit, Atomic!Next
  <1>15. CASE WriteFails(c)
    <2>1. Owner = c
      BY <1>15 DEF WriteFails, LockHeld, Goto, Writing, Owner
    <2>2. Owner' = None
      BY <1>15 DEF WriteFails, TypeOK, LockHeld, Goto, Writing, Owner
    <2>3. Draft' = None
      BY <1>15 DEF WriteFails, TypeOK, LockHeld, Goto, Writing, Owner, Draft
    <2>4. UNCHANGED <<Committed, [d \in Clients |-> Seen(d)]>>
      BY <1>15 DEF WriteFails, LockHeld, Goto, fileVars, Committed, Seen
    <2> QED  BY <2>1, <2>2, <2>3, <2>4 DEF Atomic!Abandon, Atomic!Next
  <1>16. CASE Unlock(c)
    BY <1>16
       DEF Unlock, LockHeld, Goto, fileVars, Writing, Committed, Owner,
           Draft, Seen, Atomic!vars
  <1>17. CASE Return(c) /\ txn[c]
    BY <1>17
       DEF Return, LockHeld, Goto, fileVars, Committed, Owner, Draft,
           Seen, Atomic!vars
  <1>18. CASE Return(c) /\ ~txn[c]
    <2>1. [d \in Clients |-> Seen(d)]' = [[d \in Clients |-> Seen(d)] EXCEPT ![c] = None]
      BY <1>18 DEF Return, TypeOK, Goto, fileVars, Seen
    <2>2. UNCHANGED <<Committed, Owner, Draft>>
      BY <1>18 DEF Return, LockHeld, Goto, fileVars, Committed, Owner, Draft
    <2> QED  BY <2>1, <2>2 DEF Atomic!Forget, Atomic!Next
  <1>19. CASE Crash(c) /\ Owner = c
    <2>1. txn[c]
      BY <1>19 DEF Crash, LockHeld, Goto, Owner
    <2>2. Owner' = None
      BY <1>19, <2>1 DEF Crash, Goto, Owner
    <2>3. Draft' = None
      BY <1>19, <2>1 DEF Crash, Goto, Owner, Draft
    <2>4. UNCHANGED <<Committed, [d \in Clients |-> Seen(d)]>>
      BY <1>19, <2>1 DEF Crash, Goto, fileVars, Committed, Seen
    <2> QED  BY <2>1, <2>2, <2>3, <2>4, <1>19 DEF Atomic!Abandon, Atomic!Next
  <1>20. CASE Crash(c) /\ ~txn[c]
    <2>1. [d \in Clients |-> Seen(d)]' = [[d \in Clients |-> Seen(d)] EXCEPT ![c] = None]
      BY <1>20 DEF Crash, TypeOK, Goto, fileVars, Seen
    <2>2. UNCHANGED <<Committed, Owner, Draft>>
      BY <1>20 DEF Crash, LockHeld, Goto, fileVars, Committed, Owner, Draft
    <2> QED  BY <2>1, <2>2 DEF Atomic!Forget, Atomic!Next
  <1>21. CASE Crash(c) /\ txn[c] /\ Owner # c
    BY <1>21
       DEF Crash, Goto, fileVars, Committed, Owner, Draft, Seen,
           Atomic!vars
  <1> QED
    BY <1>1, <1>2, <1>3, <1>4, <1>5, <1>6, <1>7, <1>8, <1>9, <1>10, <1>11,
       <1>12, <1>13, <1>14, <1>15, <1>16, <1>17, <1>18, <1>19, <1>20, <1>21
       DEF Step

\* A step in which no command moves moves nothing of the abstract state.
LEMMA StutterRefines == UNCHANGED vars => UNCHANGED Atomic!vars
  BY DEF vars, fileVars, Atomic!vars, Committed, Owner, Draft, Seen
-----------------------------------------------------------------------------
\* What the commands' steps keep true of the files, the lock and the drafts.
THEOREM StoreInvariance == Spec => []StoreInv
  <1>1. Init => StoreInv
    BY InitInv
  <1>2. StoreInv /\ [Next]_vars => StoreInv'
    <2> SUFFICES ASSUME StoreInv, [Next]_vars PROVE StoreInv'  OBVIOUS
    <2>1. CASE Next  BY <2>1, StepInv DEF Next
    <2>2. CASE UNCHANGED vars
      BY <2>2 DEF vars, fileVars, StoreInv, TypeOK, LockHeld, FileWhole,
                  ReaderSafe, DraftCurrent, Committed
    <2> QED  BY <2>1, <2>2
  <1> QED  BY <1>1, <1>2, PTL DEF Spec

\* The registry file, the lock and the commands' drafts keep their types, whatever is
\* killed between two steps of a transaction.
THEOREM StoreTypes == Spec => []TypeOK
  <1>1. StoreInv => TypeOK
    BY DEF StoreInv
  <1> QED  BY <1>1, StoreInvariance, PTL

\* Whatever is killed and whoever reads without the lock, nobody finds half a
\* file: NeverCorrupt, for any number of commands.
THEOREM StoreNeverCorrupt == Spec => []NeverCorrupt
  <1>1. StoreInv => NeverCorrupt
    BY DEF StoreInv, ReaderSafe, NeverCorrupt
  <1> QED  BY <1>1, StoreInvariance, PTL

\* A new registry is the successor of the one it replaces: NoLostUpdate.
THEOREM StoreLosesNoUpdate == Spec => NoLostUpdate
  <1> DEFINE Successor ==
               /\ Committed' \in Registry
               /\ Committed'.generation = Committed.generation + 1
  <1>1. StoreInv /\ [Next]_vars => [Committed' # Committed => Successor]_vars
    <2> SUFFICES ASSUME StoreInv, Next, Committed' # Committed
                 PROVE  Successor
      OBVIOUS
    <2>1. PICK c \in Clients : Step(c)  BY DEF Next
    <2>2. Atomic!Next \/ UNCHANGED Atomic!vars  BY <2>1, StepRefines
    <2>3. Committed'.generation = Committed.generation + 1
      BY <2>2 DEF Atomic!vars, Atomic!Next, Atomic!Begin, Atomic!Edit,
                  Atomic!Commit, Atomic!Abandon, Atomic!Look, Atomic!Forget
    <2>4. StoreInv'  BY <2>1, StepInv
    <2>5. Committed' \in Registry
      BY <2>4, StoreAssumption
         DEF StoreInv, TypeOK, FileWhole, Committed, Empty, Registry
    <2> QED  BY <2>3, <2>5
  <1> QED  BY <1>1, StoreInvariance, PTL DEF Spec, NoLostUpdate

\* transaction() and read() are atomic: ImplementsAtomic, for any number of
\* commands, rows and transactions.
THEOREM StoreRefines == Spec => ImplementsAtomic
  <1>1. StoreInv /\ [Next]_vars => [Atomic!Next]_(Atomic!vars)
    <2> SUFFICES ASSUME StoreInv, [Next]_vars
                 PROVE  Atomic!Next \/ UNCHANGED Atomic!vars
      OBVIOUS
    <2>1. CASE Next  BY <2>1, StepRefines DEF Next
    <2>2. CASE UNCHANGED vars  BY <2>2, StutterRefines
    <2> QED  BY <2>1, <2>2
  <1> QED  BY <1>1, InitRefines, StoreInvariance, PTL
           DEF Spec, ImplementsAtomic, Atomic!Spec
=============================================================================
