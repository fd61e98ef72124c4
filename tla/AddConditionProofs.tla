------------------------- MODULE AddConditionProofs -------------------------
(***************************************************************************)
(* Requests that are served one at a time keep conditions.json valid,      *)
(* however many there are, whatever they add and wherever they stop.  The  *)
(* validator stays a black box: no proof opens ValidDocument.              *)
(***************************************************************************)
EXTENDS AddCondition, TLAPS

Functions ==
    /\ pc = [q \in Requests |-> pc[q]]
    /\ handle = [q \in Requests |-> handle[q]]
    /\ disk = [i \in Inodes |-> disk[i]]

\* The temporary file is another one than conditions.json, and so is the file
\* a request writes to; who is about to rename has just validated.
Apart ==
    /\ file \in Inodes
    /\ tmp # None => tmp \in Inodes /\ tmp # file
    /\ \A q \in Requests : pc[q] = "writing" => tmp # None /\ handle[q] = tmp
    /\ \A q \in Requests : pc[q] = "renaming" => Passes

SerialInv == Functions /\ Apart /\ OnlyValidated

\* The first document is the one of the checkout.
LEMMA InitSerial ==
    ASSUME Checkout, Init
    PROVE  SerialInv
<1>1. Functions
  BY DEF Init, Functions
<1>2. Apart
  BY DEF Init, Apart
<1>3. OnlyValidated
  BY DEF Init, Checkout, OnlyValidated
<1> QED
  BY <1>1, <1>2, <1>3 DEF SerialInv

\* A step of the one request that is under way keeps the two files apart: the
\* others neither write nor rename.
LEMMA StepSerial ==
    ASSUME Checkout, SerialInv, NEW q \in Requests, Step(q),
           \A p \in Requests \ {q} : pc[p] \in Ended \union {"start"}
    PROVE  SerialInv'
<1> USE DEF Goto
<1>0. /\ Functions /\ Apart /\ OnlyValidated
      /\ None \notin Inodes
      /\ \A p \in Requests \ {q} : pc[p] # "writing" /\ pc[p] # "renaming"
  BY DEF SerialInv, Ended, Checkout
<1>1. CASE MakeOverlay(q)
  BY <1>0, <1>1 DEF MakeOverlay, SerialInv, Functions, Apart, OnlyValidated, Passes
<1>2. CASE Read(q)
  BY <1>0, <1>2 DEF Read, SerialInv, Functions, Apart, OnlyValidated, Passes
<1>3. CASE OpenTmp(q)
  <2>1. PICK i \in Inodes : /\ i # file
                            /\ tmp' = i
                            /\ handle' = [handle EXCEPT ![q] = i]
                            /\ disk' = [disk EXCEPT ![i] = Partial]
    BY <1>0, <1>3 DEF OpenTmp, Apart
  <2>2. file' = file /\ pc' = [pc EXCEPT ![q] = "writing"]
    BY <1>3 DEF OpenTmp
  <2>3. Functions'
    BY <1>0, <2>1, <2>2 DEF Functions
  <2>4. Apart'
    BY <1>0, <2>1, <2>2 DEF Functions, Apart
  <2>5. disk'[file'] = disk[file]
    BY <1>0, <2>1, <2>2 DEF Functions, Apart
  <2> QED
    BY <1>0, <2>3, <2>4, <2>5 DEF SerialInv, OnlyValidated
<1>4. CASE WriteTmp(q)
  <2>1. /\ handle[q] = tmp /\ tmp # None /\ tmp # file /\ tmp \in Inodes
        /\ disk' = [disk EXCEPT ![tmp] = document[q]]
        /\ pc' = [pc EXCEPT ![q] = "validating"]
        /\ handle' = [handle EXCEPT ![q] = None]
        /\ file' = file /\ tmp' = tmp
    BY <1>0, <1>4 DEF WriteTmp, Apart
  <2>2. Functions'
    BY <1>0, <2>1 DEF Functions
  <2>3. Apart'
    BY <1>0, <2>1 DEF Functions, Apart
  <2>4. disk'[file'] = disk[file]
    BY <1>0, <2>1 DEF Functions, Apart
  <2> QED
    BY <1>0, <2>2, <2>3, <2>4 DEF SerialInv, OnlyValidated
<1>5. CASE Validate(q)
  BY <1>0, <1>5 DEF Validate, SerialInv, Functions, Apart, OnlyValidated, Passes
<1>6. CASE Refuse(q)
  BY <1>0, <1>6 DEF Refuse, SerialInv, Functions, Apart, OnlyValidated, Passes
<1>7. CASE Rename(q)
  <2>1. /\ pc[q] = "renaming" /\ Passes
        /\ disk' = disk /\ handle' = handle
        /\ tmp # None /\ tmp \in Inodes
        /\ pc' = [pc EXCEPT ![q] = "added"]
        /\ file' = tmp /\ tmp' = None
    BY <1>0, <1>7 DEF Rename, Apart, Passes
  <2>2. Functions'
    BY <1>0, <2>1 DEF Functions
  <2>3. Apart'
    BY <1>0, <2>1 DEF Functions, Apart
  <2>4. OnlyValidated'
    BY <2>1 DEF Passes, OnlyValidated
  <2> QED
    BY <2>2, <2>3, <2>4 DEF SerialInv
<1>8. CASE Die(q)
  BY <1>0, <1>8 DEF Die, SerialInv, Functions, Apart, OnlyValidated, Passes
<1> QED
  BY <1>1, <1>2, <1>3, <1>4, <1>5, <1>6, <1>7, <1>8 DEF Step

\* One request at a time, conditions.json is always a document the validator
\* has accepted, as append_condition promises; stops in between do no harm.
THEOREM SerialOnlyValidated ==
    ASSUME Checkout
    PROVE  SerialSpec => []OnlyValidated
<1>1. Init => SerialInv
  BY InitSerial
<1>2. SerialInv /\ [OneAtATime]_vars => SerialInv'
  <2> SUFFICES ASSUME SerialInv, [OneAtATime]_vars
               PROVE  SerialInv'
    OBVIOUS
  <2>1. CASE OneAtATime
    BY <2>1, StepSerial DEF OneAtATime
  <2>2. CASE UNCHANGED vars
    BY <2>2 DEF vars, SerialInv, Functions, Apart, OnlyValidated, Passes
  <2> QED
    BY <2>1, <2>2
<1>3. SerialInv => OnlyValidated
  BY DEF SerialInv
<1> QED
  BY <1>1, <1>2, <1>3, PTL DEF SerialSpec
=============================================================================
