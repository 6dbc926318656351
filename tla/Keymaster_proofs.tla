-------------------------- MODULE Keymaster_proofs ---------------------------
(***************************************************************************)
(* Proofs about Keymaster, for any number of threads and any set of ids.   *)
(*                                                                         *)
(* The inductive invariant says who may touch which object.  A thread that *)
(* makes a key has an id no client knows and no other thread makes; a      *)
(* thread that destroys one has an id whose deletion was asked for; and    *)
(* what a thread has open in the TEE is what its C++ objects will close.   *)
(***************************************************************************)
EXTENDS Keymaster, TLAPS

Outside == {"idle", "initialize", "get_info", "open_primary"}

(* What the TEE has open for a thread, its C++ objects will close.         *)
OwnAt(t) ==
    /\ at[t] \in Outside \cup {"session"} => own[t] = {}
    /\ t \in sessions => "session" \in own[t]
    /\ t \in searching => "session" \in own[t] /\ at[t] \in {"find_public", "find_private"}
    /\ \A c \in Classes : <<t, c>> \in handles => c \in own[t]
    /\ at[t] = "close_public" => "private" \notin own[t]
    /\ at[t] = "close_session" => own[t] \subseteq {"session"}

OwnInv == \A t \in Thread : OwnAt(t)

(* Which operation a label belongs to, and that its id is one.             *)
LabelInv ==
  \A t \in Thread :
    /\ at[t] \notin Outside => op[t] \in Making \cup Using
    /\ at[t] = "session" /\ op[t] \in Making => key[t] \in Id
    /\ at[t] = "generate" => op[t] = "generate"
    /\ at[t] \in {"create_public", "create_private"} => op[t] = "import"
    /\ at[t] \in {"init_public", "find_public", "init_private", "find_private"} => op[t] \in Using
    /\ at[t] \in {"destroy_private", "destroy_public"} => op[t] = "delete"
    /\ at[t] \in {"attribute_sizes", "attribute_values"} => op[t] = "get_public"
    /\ at[t] \in {"sign_init", "sign"} => op[t] = "sign"
    /\ at[t] \in {"verify_init", "verify"} => op[t] = "verify"
    /\ at[t] \in TeeCalls \ {"init_public"} => key[t] \in Id
    /\ at[t] \in Closing /\ ret[t] = "ok" => key[t] \in Id

(* Ids: made by one thread at a time before anybody knows them, used only  *)
(* once a client was given them, destroyed only when that was asked for.   *)
IdInv ==
  /\ issued \subseteq used /\ doomed \subseteq issued /\ gone \subseteq doomed
  /\ \A i \in Id, c \in Classes : <<i, c>> \in token => i \in used
  /\ \A t \in Thread : at[t] \notin Outside =>
       /\ op[t] \in Making => key[t] \in used \ issued
       /\ op[t] \in Using => key[t] \in issued \cup {Malformed}
       /\ op[t] = "delete" => key[t] \in doomed \cup {Malformed}
  /\ \A t, u \in Thread :
       at[t] \notin Outside /\ at[u] \notin Outside /\ op[t] \in Making /\ op[u] \in Making
         /\ key[t] = key[u] => t = u

(* How far each operation has come on the token.                           *)
TokenInv ==
  \A t \in Thread :
    /\ at[t] = "create_private" => <<key[t], "public">> \in token
    /\ at[t] = "destroy_public" => <<key[t], "private">> \notin token
    /\ at[t] \in Closing /\ ret[t] = "ok" /\ op[t] \in Making =>
         <<key[t], "public">> \in token /\ <<key[t], "private">> \in token
    /\ at[t] \in Closing /\ ret[t] = "ok" /\ op[t] = "delete" =>
         <<key[t], "public">> \notin token /\ <<key[t], "private">> \notin token

(* KeysKept and DeletedForGood, object by object.                          *)
KeptInv == \A i \in issued \ doomed : <<i, "public">> \in token /\ <<i, "private">> \in token
GoneInv == \A i \in gone : <<i, "public">> \notin token /\ <<i, "private">> \notin token

(* The device is opened by one thread with every other one idle; while the *)
(* library stands, a thread that calls the TEE has its session.            *)
Opening == {"initialize", "get_info", "open_primary"}

SessionInv ==
  /\ \A t \in Thread : at[t] \in Opening => ~ dev /\ \A u \in Thread \ {t} : at[u] = "idle"
  /\ \A t \in Thread : lib /\ at[t] \in TeeCalls => t \in sessions /\ "session" \in own[t]

IndInv == /\ TypeOK /\ OwnInv /\ LabelInv /\ IdInv /\ TokenInv
          /\ PrivateHasPublic /\ KeptInv /\ GoneInv /\ SessionInv
          /\ LibraryHasOwner /\ FailsOnlyForCause

(* Every step keeps the types; which label follows which needs LabelInv. *)
LEMMA TypeOKStep == ASSUME TypeOK, LabelInv, [Next]_vars PROVE TypeOK'
<1> USE IdAssumption DEF LabelInv, Closing, TeeCalls, TypeOK, Classes, Labels, Making, Using
<1>1. CASE UNCHANGED vars BY <1>1 DEF vars
<1>2. CASE tee_close BY <1>2 DEF tee_close, C_Finalize, threads, history
<1>3. CASE Crash BY <1>3 DEF Crash, C_Finalize, Fresh, history
<1>4. ASSUME NEW t \in Thread, Step(t) PROVE TypeOK'
  <2>1. CASE tee_open(t) BY <2>1 DEF tee_open, Go, tee, history
  <2>2. CASE OpenStep(t) BY <2>2 DEF OpenStep, Go, history
  <2>3. CASE OpenFails(t) BY <2>3 DEF OpenFails, Go, tee, history, C_Finalize
  <2>4. ASSUME NEW o \in Making, NEW k \in Id, generate_random_id(t, o, k) PROVE TypeOK'
    BY <2>4 DEF generate_random_id, Begin, Go, tee
  <2>5. ASSUME NEW o \in Using, NEW k \in Id \cup {Malformed}, WithBlob(t, o, k) PROVE TypeOK'
    BY <2>5 DEF WithBlob, Begin, Go, tee
  <2>6. CASE OpenSubsession(t) BY <2>6 DEF OpenSubsession, FirstCall, Go, history
  <2>7. CASE SubsessionFails(t) BY <2>7 DEF SubsessionFails, FirstCall, C_Finalize, Go, history
  <2>8. CASE C_GenerateKeyPair(t) BY <2>8 DEF C_GenerateKeyPair, Live, Objects, Hold, Result, Go, history
  <2>9. CASE CreatePublic(t) BY <2>9 DEF CreatePublic, Live, Objects, Hold, Go, history
  <2>10. CASE CreatePrivate(t) BY <2>10 DEF CreatePrivate, Live, Objects, Hold, Result, Go, history
  <2>11. CASE keyblob_restore(t) BY <2>11 DEF keyblob_restore, Result, Go, tee, history
  <2>12. ASSUME NEW c \in Classes, FindInit(t, c) PROVE TypeOK'
    BY <2>12 DEF FindInit, InitAt, FindAt, Live, Result, Go, history
  <2>13. ASSUME NEW c \in Classes, FindObjects(t, c) PROVE TypeOK'
    BY <2>13 DEF FindObjects, FindAt, AfterFind, UseAt, Live, Objects, Hold, Result, Go, history
  <2>14. CASE UseObject(t) BY <2>14 DEF UseObject, Live, Result, Go, tee, history
  <2>15. CASE DestroyPrivate(t) BY <2>15 DEF DestroyPrivate, Destroy, Live, Objects, Go, history
  <2>16. CASE DestroyPublic(t) BY <2>16 DEF DestroyPublic, Destroy, Live, Objects, Result, Go, history
  <2>17. CASE CallFails(t) BY <2>17 DEF CallFails, TeeCalls, Result, Go, history
  <2>18. CASE CloseObjectHandle(t) BY <2>18 DEF CloseObjectHandle, Go, history
  <2>19. CASE CloseSession(t) BY <2>19 DEF CloseSession, Go
  <2> HIDE DEF TypeOK
  <2> QED
    BY <1>4, <2>1, <2>2, <2>3, <2>4, <2>5, <2>6, <2>7, <2>8, <2>9, <2>10,
       <2>11, <2>12, <2>13, <2>14, <2>15, <2>16, <2>17, <2>18, <2>19 DEF Step
<1> QED BY <1>1, <1>2, <1>3, <1>4 DEF Next

(* Every step keeps what a thread's C++ objects hold in line with the TEE. *)
LEMMA OwnInvStep == ASSUME TypeOK, OwnInv, [Next]_vars PROVE OwnInv'
<1> SUFFICES ASSUME NEW u \in Thread PROVE OwnAt(u)'
  BY DEF OwnInv
<1>0. OwnAt(u)
  BY DEF OwnInv
<1> USE DEF OwnAt, Outside, TypeOK, Classes, Labels
<1>1. CASE UNCHANGED vars BY <1>0, <1>1 DEF vars
<1>2. CASE tee_close BY <1>0, <1>2 DEF tee_close, C_Finalize, threads
<1>3. CASE Crash BY <1>3 DEF Crash, C_Finalize, Fresh
<1>4. ASSUME NEW t \in Thread, Step(t) PROVE OwnAt(u)'
  <2>1. CASE tee_open(t)
    <3>1. CASE u = t BY <1>0, <2>1, <3>1 DEF tee_open, Go, tee, history
    <3>2. CASE u # t BY <1>0, <2>1, <3>2 DEF tee_open, Go, tee, history
    <3> QED BY <3>1, <3>2
  <2>2. CASE OpenStep(t)
    <3>1. CASE u = t BY <1>0, <2>2, <3>1 DEF OpenStep, Go, history
    <3>2. CASE u # t BY <1>0, <2>2, <3>2 DEF OpenStep, Go, history
    <3> QED BY <3>1, <3>2
  <2>3. CASE OpenFails(t)
    <3>1. CASE u = t BY <1>0, <2>3, <3>1 DEF OpenFails, Go, tee, history, C_Finalize
    <3>2. CASE u # t BY <1>0, <2>3, <3>2 DEF OpenFails, Go, tee, history, C_Finalize
    <3> QED BY <3>1, <3>2
  <2>4. ASSUME NEW o \in Making, NEW k \in Id, generate_random_id(t, o, k) PROVE OwnAt(u)'
    <3>1. CASE u = t BY <1>0, <2>4, <3>1 DEF generate_random_id, Begin, Go, tee
    <3>2. CASE u # t BY <1>0, <2>4, <3>2 DEF generate_random_id, Begin, Go, tee
    <3> QED BY <3>1, <3>2
  <2>5. ASSUME NEW o \in Using, NEW k \in Id \cup {Malformed}, WithBlob(t, o, k) PROVE OwnAt(u)'
    <3>1. CASE u = t BY <1>0, <2>5, <3>1 DEF WithBlob, Begin, Go, tee
    <3>2. CASE u # t BY <1>0, <2>5, <3>2 DEF WithBlob, Begin, Go, tee
    <3> QED BY <3>1, <3>2
  <2>6. CASE OpenSubsession(t)
    <3>1. CASE u = t BY <1>0, <2>6, <3>1 DEF OpenSubsession, FirstCall, Go, history
    <3>2. CASE u # t BY <1>0, <2>6, <3>2 DEF OpenSubsession, FirstCall, Go, history
    <3> QED BY <3>1, <3>2
  <2>7. CASE SubsessionFails(t)
    <3>1. CASE u = t BY <1>0, <2>7, <3>1 DEF SubsessionFails, FirstCall, C_Finalize, Go, history
    <3>2. CASE u # t BY <1>0, <2>7, <3>2 DEF SubsessionFails, FirstCall, C_Finalize, Go, history
    <3> QED BY <3>1, <3>2
  <2>8. CASE C_GenerateKeyPair(t)
    <3>1. CASE u = t BY <1>0, <2>8, <3>1 DEF C_GenerateKeyPair, Live, Objects, Hold, Result, Go, history
    <3>2. CASE u # t BY <1>0, <2>8, <3>2 DEF C_GenerateKeyPair, Live, Objects, Hold, Result, Go, history
    <3> QED BY <3>1, <3>2
  <2>9. CASE CreatePublic(t)
    <3>1. CASE u = t BY <1>0, <2>9, <3>1 DEF CreatePublic, Live, Objects, Hold, Go, history
    <3>2. CASE u # t BY <1>0, <2>9, <3>2 DEF CreatePublic, Live, Objects, Hold, Go, history
    <3> QED BY <3>1, <3>2
  <2>10. CASE CreatePrivate(t)
    <3>1. CASE u = t BY <1>0, <2>10, <3>1 DEF CreatePrivate, Live, Objects, Hold, Result, Go, history
    <3>2. CASE u # t BY <1>0, <2>10, <3>2 DEF CreatePrivate, Live, Objects, Hold, Result, Go, history
    <3> QED BY <3>1, <3>2
  <2>11. CASE keyblob_restore(t)
    <3>1. CASE u = t BY <1>0, <2>11, <3>1 DEF keyblob_restore, Result, Go, tee, history
    <3>2. CASE u # t BY <1>0, <2>11, <3>2 DEF keyblob_restore, Result, Go, tee, history
    <3> QED BY <3>1, <3>2
  <2>12. ASSUME NEW c \in Classes, FindInit(t, c) PROVE OwnAt(u)'
    <3>1. CASE u = t BY <1>0, <2>12, <3>1 DEF FindInit, InitAt, FindAt, Live, Result, Go, history
    <3>2. CASE u # t BY <1>0, <2>12, <3>2 DEF FindInit, InitAt, FindAt, Live, Result, Go, history
    <3> QED BY <3>1, <3>2
  <2>13. ASSUME NEW c \in Classes, FindObjects(t, c) PROVE OwnAt(u)'
    <3>1. CASE u = t BY <1>0, <2>13, <3>1 DEF FindObjects, FindAt, AfterFind, UseAt, Live, Objects, Hold, Result, Go, history
    <3>2. CASE u # t BY <1>0, <2>13, <3>2 DEF FindObjects, FindAt, AfterFind, UseAt, Live, Objects, Hold, Result, Go, history
    <3> QED BY <3>1, <3>2
  <2>14. CASE UseObject(t)
    <3>1. CASE u = t BY <1>0, <2>14, <3>1 DEF UseObject, Live, Result, Go, tee, history
    <3>2. CASE u # t BY <1>0, <2>14, <3>2 DEF UseObject, Live, Result, Go, tee, history
    <3> QED BY <3>1, <3>2
  <2>15. CASE DestroyPrivate(t)
    <3>1. CASE u = t BY <1>0, <2>15, <3>1 DEF DestroyPrivate, Destroy, Live, Objects, Go, history
    <3>2. CASE u # t BY <1>0, <2>15, <3>2 DEF DestroyPrivate, Destroy, Live, Objects, Go, history
    <3> QED BY <3>1, <3>2
  <2>16. CASE DestroyPublic(t)
    <3>1. CASE u = t BY <1>0, <2>16, <3>1 DEF DestroyPublic, Destroy, Live, Objects, Result, Go, history
    <3>2. CASE u # t BY <1>0, <2>16, <3>2 DEF DestroyPublic, Destroy, Live, Objects, Result, Go, history
    <3> QED BY <3>1, <3>2
  <2>17. CASE CallFails(t)
    <3>1. CASE u = t BY <1>0, <2>17, <3>1 DEF CallFails, TeeCalls, Result, Go, history
    <3>2. CASE u # t BY <1>0, <2>17, <3>2 DEF CallFails, TeeCalls, Result, Go, history
    <3> QED BY <3>1, <3>2
  <2>18. CASE CloseObjectHandle(t)
    <3>1. CASE u = t BY <1>0, <2>18, <3>1 DEF CloseObjectHandle, Go, history
    <3>2. CASE u # t BY <1>0, <2>18, <3>2 DEF CloseObjectHandle, Go, history
    <3> QED BY <3>1, <3>2
  <2>19. CASE CloseSession(t)
    <3>1. CASE u = t BY <1>0, <2>19, <3>1 DEF CloseSession, Go
    <3>2. CASE u # t BY <1>0, <2>19, <3>2 DEF CloseSession, Go
    <3> QED BY <3>1, <3>2
  <2> QED
    BY <1>4, <2>1, <2>2, <2>3, <2>4, <2>5, <2>6, <2>7, <2>8, <2>9, <2>10,
       <2>11, <2>12, <2>13, <2>14, <2>15, <2>16, <2>17, <2>18, <2>19 DEF Step
<1> QED BY <1>1, <1>2, <1>3, <1>4 DEF Next

(* Every step keeps a thread at a call of the operation it is in. *)
LEMMA LabelInvStep == ASSUME TypeOK, LabelInv, [Next]_vars PROVE LabelInv'
<1> USE IdAssumption DEF LabelInv, Outside, Closing, TeeCalls, TypeOK, Classes, Labels, Making, Using
<1>1. CASE UNCHANGED vars BY <1>1 DEF vars
<1>2. CASE tee_close BY <1>2 DEF tee_close, C_Finalize, threads, history
<1>3. CASE Crash BY <1>3 DEF Crash, C_Finalize, Fresh, history
<1>4. ASSUME NEW t \in Thread, Step(t) PROVE LabelInv'
  <2>1. CASE tee_open(t) BY <2>1 DEF tee_open, Go, tee, history
  <2>2. CASE OpenStep(t) BY <2>2 DEF OpenStep, Go, history
  <2>3. CASE OpenFails(t) BY <2>3 DEF OpenFails, Go, tee, history, C_Finalize
  <2>4. ASSUME NEW o \in Making, NEW k \in Id, generate_random_id(t, o, k) PROVE LabelInv'
    BY <2>4 DEF generate_random_id, Begin, Go, tee
  <2>5. ASSUME NEW o \in Using, NEW k \in Id \cup {Malformed}, WithBlob(t, o, k) PROVE LabelInv'
    BY <2>5 DEF WithBlob, Begin, Go, tee
  <2>6. CASE OpenSubsession(t) BY <2>6 DEF OpenSubsession, FirstCall, Go, history
  <2>7. CASE SubsessionFails(t) BY <2>7 DEF SubsessionFails, FirstCall, C_Finalize, Go, history
  <2>8. CASE C_GenerateKeyPair(t) BY <2>8 DEF C_GenerateKeyPair, Live, Objects, Hold, Result, Go, history
  <2>9. CASE CreatePublic(t) BY <2>9 DEF CreatePublic, Live, Objects, Hold, Go, history
  <2>10. CASE CreatePrivate(t) BY <2>10 DEF CreatePrivate, Live, Objects, Hold, Result, Go, history
  <2>11. CASE keyblob_restore(t) BY <2>11 DEF keyblob_restore, Result, Go, tee, history
  <2>12. ASSUME NEW c \in Classes, FindInit(t, c) PROVE LabelInv'
    BY <2>12 DEF FindInit, InitAt, FindAt, Live, Result, Go, history
  <2>13. ASSUME NEW c \in Classes, FindObjects(t, c) PROVE LabelInv'
    BY <2>13 DEF FindObjects, FindAt, AfterFind, UseAt, Live, Objects, Hold, Result, Go, history
  <2>14. CASE UseObject(t) BY <2>14 DEF UseObject, Live, Result, Go, tee, history
  <2>15. CASE DestroyPrivate(t) BY <2>15 DEF DestroyPrivate, Destroy, Live, Objects, Go, history
  <2>16. CASE DestroyPublic(t) BY <2>16 DEF DestroyPublic, Destroy, Live, Objects, Result, Go, history
  <2>17. CASE CallFails(t) BY <2>17 DEF CallFails, TeeCalls, Result, Go, history
  <2>18. CASE CloseObjectHandle(t) BY <2>18 DEF CloseObjectHandle, Go, history
  <2>19. CASE CloseSession(t) BY <2>19 DEF CloseSession, Go
  <2> HIDE DEF LabelInv
  <2> QED
    BY <1>4, <2>1, <2>2, <2>3, <2>4, <2>5, <2>6, <2>7, <2>8, <2>9, <2>10,
       <2>11, <2>12, <2>13, <2>14, <2>15, <2>16, <2>17, <2>18, <2>19 DEF Step
<1> QED BY <1>1, <1>2, <1>3, <1>4 DEF Next

(* Every step keeps the ids of running operations drawn, unissued or issued as
   their operation requires. *)
LEMMA IdInvStep == ASSUME TypeOK, LabelInv, IdInv, [Next]_vars PROVE IdInv'
<1> USE IdAssumption DEF IdInv, LabelInv, Outside, Closing, TeeCalls, TypeOK, Classes, Labels, Making, Using
<1>1. CASE UNCHANGED vars BY <1>1 DEF vars
<1>2. CASE tee_close BY <1>2 DEF tee_close, C_Finalize, threads, history
<1>3. CASE Crash BY <1>3 DEF Crash, C_Finalize, Fresh, history
<1>4. ASSUME NEW t \in Thread, Step(t) PROVE IdInv'
  <2>1. CASE tee_open(t) BY <2>1 DEF tee_open, Go, tee, history
  <2>2. CASE OpenStep(t) BY <2>2 DEF OpenStep, Go, history
  <2>3. CASE OpenFails(t) BY <2>3 DEF OpenFails, Go, tee, history, C_Finalize
  <2>4. ASSUME NEW o \in Making, NEW k \in Id, generate_random_id(t, o, k) PROVE IdInv'
    BY <2>4 DEF generate_random_id, Begin, Go, tee
  <2>5. ASSUME NEW o \in Using, NEW k \in Id \cup {Malformed}, WithBlob(t, o, k) PROVE IdInv'
    BY <2>5 DEF WithBlob, Begin, Go, tee
  <2>6. CASE OpenSubsession(t) BY <2>6 DEF OpenSubsession, FirstCall, Go, history
  <2>7. CASE SubsessionFails(t) BY <2>7 DEF SubsessionFails, FirstCall, C_Finalize, Go, history
  <2>8. CASE C_GenerateKeyPair(t) BY <2>8 DEF C_GenerateKeyPair, Live, Objects, Hold, Result, Go, history
  <2>9. CASE CreatePublic(t) BY <2>9 DEF CreatePublic, Live, Objects, Hold, Go, history
  <2>10. CASE CreatePrivate(t) BY <2>10 DEF CreatePrivate, Live, Objects, Hold, Result, Go, history
  <2>11. CASE keyblob_restore(t) BY <2>11 DEF keyblob_restore, Result, Go, tee, history
  <2>12. ASSUME NEW c \in Classes, FindInit(t, c) PROVE IdInv'
    BY <2>12 DEF FindInit, InitAt, FindAt, Live, Result, Go, history
  <2>13. ASSUME NEW c \in Classes, FindObjects(t, c) PROVE IdInv'
    BY <2>13 DEF FindObjects, FindAt, AfterFind, UseAt, Live, Objects, Hold, Result, Go, history
  <2>14. CASE UseObject(t) BY <2>14 DEF UseObject, Live, Result, Go, tee, history
  <2>15. CASE DestroyPrivate(t) BY <2>15 DEF DestroyPrivate, Destroy, Live, Objects, Go, history
  <2>16. CASE DestroyPublic(t) BY <2>16 DEF DestroyPublic, Destroy, Live, Objects, Result, Go, history
  <2>17. CASE CallFails(t) BY <2>17 DEF CallFails, TeeCalls, Result, Go, history
  <2>18. CASE CloseObjectHandle(t) BY <2>18 DEF CloseObjectHandle, Go, history
  <2>19. CASE CloseSession(t) BY <2>19 DEF CloseSession, Go
  <2> HIDE DEF IdInv
  <2> QED
    BY <1>4, <2>1, <2>2, <2>3, <2>4, <2>5, <2>6, <2>7, <2>8, <2>9, <2>10,
       <2>11, <2>12, <2>13, <2>14, <2>15, <2>16, <2>17, <2>18, <2>19 DEF Step
<1> QED BY <1>1, <1>2, <1>3, <1>4 DEF Next

(* Every step keeps the token in line with how far each operation has come. *)
LEMMA TokenInvStep == ASSUME TypeOK, LabelInv, IdInv, TokenInv, [Next]_vars PROVE TokenInv'
<1> USE IdAssumption DEF TokenInv, IdInv, LabelInv, Outside, Closing, TeeCalls, TypeOK, Classes, Labels, Making, Using
<1>1. CASE UNCHANGED vars BY <1>1 DEF vars
<1>2. CASE tee_close BY <1>2 DEF tee_close, C_Finalize, threads, history
<1>3. CASE Crash BY <1>3 DEF Crash, C_Finalize, Fresh, history
<1>4. ASSUME NEW t \in Thread, Step(t) PROVE TokenInv'
  <2>1. CASE tee_open(t) BY <2>1 DEF tee_open, Go, tee, history
  <2>2. CASE OpenStep(t) BY <2>2 DEF OpenStep, Go, history
  <2>3. CASE OpenFails(t) BY <2>3 DEF OpenFails, Go, tee, history, C_Finalize
  <2>4. ASSUME NEW o \in Making, NEW k \in Id, generate_random_id(t, o, k) PROVE TokenInv'
    BY <2>4 DEF generate_random_id, Begin, Go, tee
  <2>5. ASSUME NEW o \in Using, NEW k \in Id \cup {Malformed}, WithBlob(t, o, k) PROVE TokenInv'
    BY <2>5 DEF WithBlob, Begin, Go, tee
  <2>6. CASE OpenSubsession(t) BY <2>6 DEF OpenSubsession, FirstCall, Go, history
  <2>7. CASE SubsessionFails(t) BY <2>7 DEF SubsessionFails, FirstCall, C_Finalize, Go, history
  <2>8. CASE C_GenerateKeyPair(t) BY <2>8 DEF C_GenerateKeyPair, Live, Objects, Hold, Result, Go, history
  <2>9. CASE CreatePublic(t) BY <2>9 DEF CreatePublic, Live, Objects, Hold, Go, history
  <2>10. CASE CreatePrivate(t) BY <2>10 DEF CreatePrivate, Live, Objects, Hold, Result, Go, history
  <2>11. CASE keyblob_restore(t) BY <2>11 DEF keyblob_restore, Result, Go, tee, history
  <2>12. ASSUME NEW c \in Classes, FindInit(t, c) PROVE TokenInv'
    BY <2>12 DEF FindInit, InitAt, FindAt, Live, Result, Go, history
  <2>13. ASSUME NEW c \in Classes, FindObjects(t, c) PROVE TokenInv'
    BY <2>13 DEF FindObjects, FindAt, AfterFind, UseAt, Live, Objects, Hold, Result, Go, history
  <2>14. CASE UseObject(t) BY <2>14 DEF UseObject, Live, Result, Go, tee, history
  <2>15. CASE DestroyPrivate(t) BY <2>15 DEF DestroyPrivate, Destroy, Live, Objects, Go, history
  <2>16. CASE DestroyPublic(t) BY <2>16 DEF DestroyPublic, Destroy, Live, Objects, Result, Go, history
  <2>17. CASE CallFails(t) BY <2>17 DEF CallFails, TeeCalls, Result, Go, history
  <2>18. CASE CloseObjectHandle(t) BY <2>18 DEF CloseObjectHandle, Go, history
  <2>19. CASE CloseSession(t) BY <2>19 DEF CloseSession, Go
  <2> HIDE DEF TokenInv
  <2> QED
    BY <1>4, <2>1, <2>2, <2>3, <2>4, <2>5, <2>6, <2>7, <2>8, <2>9, <2>10,
       <2>11, <2>12, <2>13, <2>14, <2>15, <2>16, <2>17, <2>18, <2>19 DEF Step
<1> QED BY <1>1, <1>2, <1>3, <1>4 DEF Next

(* No step creates a private object first or destroys a public one first. *)
LEMMA PrivateHasPublicStep ==
  ASSUME TypeOK, LabelInv, IdInv, TokenInv, PrivateHasPublic, [Next]_vars
  PROVE PrivateHasPublic'
<1> USE IdAssumption DEF PrivateHasPublic, TokenInv, IdInv, LabelInv, Outside, TeeCalls, TypeOK, Classes, Labels, Making, Using
<1>1. CASE UNCHANGED vars BY <1>1 DEF vars
<1>2. CASE tee_close BY <1>2 DEF tee_close, C_Finalize, threads, history
<1>3. CASE Crash BY <1>3 DEF Crash, C_Finalize, Fresh, history
<1>4. ASSUME NEW t \in Thread, Step(t) PROVE PrivateHasPublic'
  <2>1. CASE tee_open(t) BY <2>1 DEF tee_open, Go, tee, history
  <2>2. CASE OpenStep(t) BY <2>2 DEF OpenStep, Go, history
  <2>3. CASE OpenFails(t) BY <2>3 DEF OpenFails, Go, tee, history, C_Finalize
  <2>4. ASSUME NEW o \in Making, NEW k \in Id, generate_random_id(t, o, k) PROVE PrivateHasPublic'
    BY <2>4 DEF generate_random_id, Begin, Go, tee
  <2>5. ASSUME NEW o \in Using, NEW k \in Id \cup {Malformed}, WithBlob(t, o, k) PROVE PrivateHasPublic'
    BY <2>5 DEF WithBlob, Begin, Go, tee
  <2>6. CASE OpenSubsession(t) BY <2>6 DEF OpenSubsession, FirstCall, Go, history
  <2>7. CASE SubsessionFails(t) BY <2>7 DEF SubsessionFails, FirstCall, C_Finalize, Go, history
  <2>8. CASE C_GenerateKeyPair(t) BY <2>8 DEF C_GenerateKeyPair, Live, Objects, Hold, Result, Go, history
  <2>9. CASE CreatePublic(t) BY <2>9 DEF CreatePublic, Live, Objects, Hold, Go, history
  <2>10. CASE CreatePrivate(t) BY <2>10 DEF CreatePrivate, Live, Objects, Hold, Result, Go, history
  <2>11. CASE keyblob_restore(t) BY <2>11 DEF keyblob_restore, Result, Go, tee, history
  <2>12. ASSUME NEW c \in Classes, FindInit(t, c) PROVE PrivateHasPublic'
    BY <2>12 DEF FindInit, InitAt, FindAt, Live, Result, Go, history
  <2>13. ASSUME NEW c \in Classes, FindObjects(t, c) PROVE PrivateHasPublic'
    BY <2>13 DEF FindObjects, FindAt, AfterFind, UseAt, Live, Objects, Hold, Result, Go, history
  <2>14. CASE UseObject(t) BY <2>14 DEF UseObject, Live, Result, Go, tee, history
  <2>15. CASE DestroyPrivate(t) BY <2>15 DEF DestroyPrivate, Destroy, Live, Objects, Go, history
  <2>16. CASE DestroyPublic(t) BY <2>16 DEF DestroyPublic, Destroy, Live, Objects, Result, Go, history
  <2>17. CASE CallFails(t) BY <2>17 DEF CallFails, TeeCalls, Result, Go, history
  <2>18. CASE CloseObjectHandle(t) BY <2>18 DEF CloseObjectHandle, Go, history
  <2>19. CASE CloseSession(t) BY <2>19 DEF CloseSession, Go
  <2> HIDE DEF PrivateHasPublic
  <2> QED
    BY <1>4, <2>1, <2>2, <2>3, <2>4, <2>5, <2>6, <2>7, <2>8, <2>9, <2>10,
       <2>11, <2>12, <2>13, <2>14, <2>15, <2>16, <2>17, <2>18, <2>19 DEF Step
<1> QED BY <1>1, <1>2, <1>3, <1>4 DEF Next

(* A key whose deletion was asked for may lose its objects. *)
LEMMA KeptWithout ==
  ASSUME KeptInv, NEW c, NEW k \in doomed, token' = token \ {<<k, c>>},
         issued' = issued, doomed' = doomed
  PROVE  KeptInv'
BY DEF KeptInv

(* No step takes an object of a key nobody asked to delete. *)
LEMMA KeptInvStep == ASSUME TypeOK, LabelInv, IdInv, TokenInv, KeptInv, [Next]_vars PROVE KeptInv'
<1> USE IdAssumption DEF KeptInv, TokenInv, IdInv, LabelInv, Outside, Closing, TeeCalls, TypeOK, Classes, Labels, Making, Using
<1>1. CASE UNCHANGED vars BY <1>1 DEF vars
<1>2. CASE tee_close BY <1>2 DEF tee_close, C_Finalize, threads, history
<1>3. CASE Crash BY <1>3 DEF Crash, C_Finalize, Fresh, history
<1>4. ASSUME NEW t \in Thread, Step(t) PROVE KeptInv'
  <2>1. CASE tee_open(t) BY <2>1 DEF tee_open, Go, tee, history
  <2>2. CASE OpenStep(t) BY <2>2 DEF OpenStep, Go, history
  <2>3. CASE OpenFails(t) BY <2>3 DEF OpenFails, Go, tee, history, C_Finalize
  <2>4. ASSUME NEW o \in Making, NEW k \in Id, generate_random_id(t, o, k) PROVE KeptInv'
    BY <2>4 DEF generate_random_id, Begin, Go, tee
  <2>5. ASSUME NEW o \in Using, NEW k \in Id \cup {Malformed}, WithBlob(t, o, k) PROVE KeptInv'
    BY <2>5 DEF WithBlob, Begin, Go, tee
  <2>6. CASE OpenSubsession(t) BY <2>6 DEF OpenSubsession, FirstCall, Go, history
  <2>7. CASE SubsessionFails(t) BY <2>7 DEF SubsessionFails, FirstCall, C_Finalize, Go, history
  <2>8. CASE C_GenerateKeyPair(t) BY <2>8 DEF C_GenerateKeyPair, Live, Objects, Hold, Result, Go, history
  <2>9. CASE CreatePublic(t) BY <2>9 DEF CreatePublic, Live, Objects, Hold, Go, history
  <2>10. CASE CreatePrivate(t) BY <2>10 DEF CreatePrivate, Live, Objects, Hold, Result, Go, history
  <2>11. CASE keyblob_restore(t) BY <2>11 DEF keyblob_restore, Result, Go, tee, history
  <2>12. ASSUME NEW c \in Classes, FindInit(t, c) PROVE KeptInv'
    BY <2>12 DEF FindInit, InitAt, FindAt, Live, Result, Go, history
  <2>13. ASSUME NEW c \in Classes, FindObjects(t, c) PROVE KeptInv'
    BY <2>13 DEF FindObjects, FindAt, AfterFind, UseAt, Live, Objects, Hold, Result, Go, history
  <2>14. CASE UseObject(t) BY <2>14 DEF UseObject, Live, Result, Go, tee, history
  <2>15. CASE DestroyPrivate(t)
    <3>1. key[t] \in doomed
      BY <2>15 DEF DestroyPrivate
    <3>2. /\ token' = token \ {<<key[t], "private">>}
          /\ issued' = issued /\ doomed' = doomed
      BY <2>15 DEF DestroyPrivate, Destroy, Objects, history
    <3> HIDE DEF KeptInv, TokenInv, IdInv, LabelInv, TypeOK
    <3> QED BY <3>1, <3>2, KeptWithout
  <2>16. CASE DestroyPublic(t)
    BY <2>16, ZenonT(30) DEF DestroyPublic, Destroy, Live, Objects, Result, Go, history
  <2>17. CASE CallFails(t) BY <2>17 DEF CallFails, TeeCalls, Result, Go, history
  <2>18. CASE CloseObjectHandle(t) BY <2>18 DEF CloseObjectHandle, Go, history
  <2>19. CASE CloseSession(t) BY <2>19 DEF CloseSession, Go
  <2> HIDE DEF KeptInv
  <2> QED
    BY <1>4, <2>1, <2>2, <2>3, <2>4, <2>5, <2>6, <2>7, <2>8, <2>9, <2>10,
       <2>11, <2>12, <2>13, <2>14, <2>15, <2>16, <2>17, <2>18, <2>19 DEF Step
<1> QED BY <1>1, <1>2, <1>3, <1>4 DEF Next

(* No step brings back an object of a deleted key. *)
LEMMA GoneInvStep == ASSUME TypeOK, LabelInv, IdInv, TokenInv, GoneInv, [Next]_vars PROVE GoneInv'
<1> USE IdAssumption DEF GoneInv, TokenInv, IdInv, LabelInv, Outside, Closing, TeeCalls, TypeOK, Classes, Labels, Making, Using
<1>1. CASE UNCHANGED vars BY <1>1 DEF vars
<1>2. CASE tee_close BY <1>2 DEF tee_close, C_Finalize, threads, history
<1>3. CASE Crash BY <1>3 DEF Crash, C_Finalize, Fresh, history
<1>4. ASSUME NEW t \in Thread, Step(t) PROVE GoneInv'
  <2>1. CASE tee_open(t) BY <2>1 DEF tee_open, Go, tee, history
  <2>2. CASE OpenStep(t) BY <2>2 DEF OpenStep, Go, history
  <2>3. CASE OpenFails(t) BY <2>3 DEF OpenFails, Go, tee, history, C_Finalize
  <2>4. ASSUME NEW o \in Making, NEW k \in Id, generate_random_id(t, o, k) PROVE GoneInv'
    BY <2>4 DEF generate_random_id, Begin, Go, tee
  <2>5. ASSUME NEW o \in Using, NEW k \in Id \cup {Malformed}, WithBlob(t, o, k) PROVE GoneInv'
    BY <2>5 DEF WithBlob, Begin, Go, tee
  <2>6. CASE OpenSubsession(t)
    <3>1. token' = token /\ gone' = gone
      BY <2>6 DEF OpenSubsession, history
    <3> QED BY <3>1
  <2>7. CASE SubsessionFails(t)
    <3>1. token' = token /\ gone' = gone
      BY <2>7 DEF SubsessionFails, history
    <3> QED BY <3>1
  <2>8. CASE C_GenerateKeyPair(t)
    <3>1. key[t] \notin gone
      BY <2>8 DEF C_GenerateKeyPair
    <3>2. token' = token \cup {<<key[t], "public">>, <<key[t], "private">>} /\ gone' = gone
      BY <2>8 DEF C_GenerateKeyPair, Objects, history
    <3> QED BY <3>1, <3>2
  <2>9. CASE CreatePublic(t)
    <3>1. key[t] \notin gone
      BY <2>9 DEF CreatePublic
    <3>2. token' = token \cup {<<key[t], "public">>} /\ gone' = gone
      BY <2>9 DEF CreatePublic, Objects, history
    <3> QED BY <3>1, <3>2
  <2>10. CASE CreatePrivate(t)
    <3>1. key[t] \notin gone
      BY <2>10 DEF CreatePrivate
    <3>2. token' = token \cup {<<key[t], "private">>} /\ gone' = gone
      BY <2>10 DEF CreatePrivate, Objects, history
    <3> QED BY <3>1, <3>2
  <2>11. CASE keyblob_restore(t)
    <3>1. token' = token /\ gone' = gone
      BY <2>11 DEF keyblob_restore, tee, history
    <3> QED BY <3>1
  <2>12. ASSUME NEW c \in Classes, FindInit(t, c) PROVE GoneInv'
    <3>1. token' = token /\ gone' = gone
      BY <2>12 DEF FindInit, history
    <3> QED BY <3>1
  <2>13. ASSUME NEW c \in Classes, FindObjects(t, c) PROVE GoneInv'
    <3>1. token' = token /\ gone' = gone
      BY <2>13 DEF FindObjects, history
    <3> QED BY <3>1
  <2>14. CASE UseObject(t)
    <3>1. token' = token /\ gone' = gone
      BY <2>14 DEF UseObject, tee, history
    <3> QED BY <3>1
  <2>15. CASE DestroyPrivate(t)
    <3>1. token' \subseteq token /\ gone' = gone
      BY <2>15 DEF DestroyPrivate, Destroy, history
    <3> QED BY <3>1
  <2>16. CASE DestroyPublic(t)
    <3>1. token' \subseteq token /\ gone' = gone
      BY <2>16 DEF DestroyPublic, Destroy, history
    <3> QED BY <3>1
  <2>17. CASE CallFails(t)
    <3>1. token' = token /\ gone' = gone
      BY <2>17 DEF CallFails, history
    <3> QED BY <3>1
  <2>18. CASE CloseObjectHandle(t)
    <3>1. token' = token /\ gone' = gone
      BY <2>18 DEF CloseObjectHandle, history
    <3> QED BY <3>1
  <2>19. CASE CloseSession(t) BY <2>19 DEF CloseSession, Go
  <2> HIDE DEF GoneInv
  <2> QED
    BY <1>4, <2>1, <2>2, <2>3, <2>4, <2>5, <2>6, <2>7, <2>8, <2>9, <2>10,
       <2>11, <2>12, <2>13, <2>14, <2>15, <2>16, <2>17, <2>18, <2>19 DEF Step
<1> QED BY <1>1, <1>2, <1>3, <1>4 DEF Next

(* No step leaves the library initialised with nobody to finalise it. *)
LEMMA LibraryHasOwnerStep == ASSUME TypeOK, LibraryHasOwner, [Next]_vars PROVE LibraryHasOwner'
<1> USE IdAssumption DEF LibraryHasOwner, TypeOK, Classes, Labels, Making, Using
<1>1. CASE UNCHANGED vars BY <1>1 DEF vars
<1>2. CASE tee_close BY <1>2 DEF tee_close, C_Finalize, threads, history
<1>3. CASE Crash BY <1>3 DEF Crash, C_Finalize, Fresh, history
<1>4. ASSUME NEW t \in Thread, Step(t) PROVE LibraryHasOwner'
  <2>1. CASE tee_open(t) BY <2>1 DEF tee_open, Go, tee, history
  <2>2. CASE OpenStep(t) BY <2>2 DEF OpenStep, Go, history
  <2>3. CASE OpenFails(t) BY <2>3 DEF OpenFails, Go, tee, history, C_Finalize
  <2>4. ASSUME NEW o \in Making, NEW k \in Id, generate_random_id(t, o, k) PROVE LibraryHasOwner'
    BY <2>4 DEF generate_random_id, Begin, Go, tee
  <2>5. ASSUME NEW o \in Using, NEW k \in Id \cup {Malformed}, WithBlob(t, o, k) PROVE LibraryHasOwner'
    BY <2>5 DEF WithBlob, Begin, Go, tee
  <2>6. CASE OpenSubsession(t) BY <2>6 DEF OpenSubsession, FirstCall, Go, history
  <2>7. CASE SubsessionFails(t) BY <2>7 DEF SubsessionFails, FirstCall, C_Finalize, Go, history
  <2>8. CASE C_GenerateKeyPair(t) BY <2>8 DEF C_GenerateKeyPair, Live, Objects, Hold, Result, Go, history
  <2>9. CASE CreatePublic(t) BY <2>9 DEF CreatePublic, Live, Objects, Hold, Go, history
  <2>10. CASE CreatePrivate(t) BY <2>10 DEF CreatePrivate, Live, Objects, Hold, Result, Go, history
  <2>11. CASE keyblob_restore(t) BY <2>11 DEF keyblob_restore, Result, Go, tee, history
  <2>12. ASSUME NEW c \in Classes, FindInit(t, c) PROVE LibraryHasOwner'
    BY <2>12 DEF FindInit, InitAt, FindAt, Live, Result, Go, history
  <2>13. ASSUME NEW c \in Classes, FindObjects(t, c) PROVE LibraryHasOwner'
    BY <2>13 DEF FindObjects, FindAt, AfterFind, UseAt, Live, Objects, Hold, Result, Go, history
  <2>14. CASE UseObject(t) BY <2>14 DEF UseObject, Live, Result, Go, tee, history
  <2>15. CASE DestroyPrivate(t) BY <2>15 DEF DestroyPrivate, Destroy, Live, Objects, Go, history
  <2>16. CASE DestroyPublic(t) BY <2>16 DEF DestroyPublic, Destroy, Live, Objects, Result, Go, history
  <2>17. CASE CallFails(t) BY <2>17 DEF CallFails, TeeCalls, Result, Go, history
  <2>18. CASE CloseObjectHandle(t) BY <2>18 DEF CloseObjectHandle, Go, history
  <2>19. CASE CloseSession(t) BY <2>19 DEF CloseSession, Go
  <2> HIDE DEF LibraryHasOwner
  <2> QED
    BY <1>4, <2>1, <2>2, <2>3, <2>4, <2>5, <2>6, <2>7, <2>8, <2>9, <2>10,
       <2>11, <2>12, <2>13, <2>14, <2>15, <2>16, <2>17, <2>18, <2>19 DEF Step
<1> QED BY <1>1, <1>2, <1>3, <1>4 DEF Next

(* No step takes the session from a thread that calls the TEE, but one that
   finalises the library, and nobody works while the device is opened. *)
LEMMA SessionInvStep == ASSUME TypeOK, SessionInv, [Next]_vars PROVE SessionInv'
<1> USE IdAssumption DEF SessionInv, Opening, TeeCalls, TypeOK, Classes, Labels, Making, Using
<1>1. CASE UNCHANGED vars BY <1>1 DEF vars
<1>2. CASE tee_close BY <1>2 DEF tee_close, C_Finalize, threads, history
<1>3. CASE Crash BY <1>3 DEF Crash, C_Finalize, Fresh, history
<1>4. ASSUME NEW t \in Thread, Step(t) PROVE SessionInv'
  <2>1. CASE tee_open(t) BY <2>1 DEF tee_open, Go, tee, history
  <2>2. CASE OpenStep(t) BY <2>2 DEF OpenStep, Go, history
  <2>3. CASE OpenFails(t) BY <2>3 DEF OpenFails, Go, tee, history, C_Finalize
  <2>4. ASSUME NEW o \in Making, NEW k \in Id, generate_random_id(t, o, k) PROVE SessionInv'
    BY <2>4 DEF generate_random_id, Begin, Go, tee
  <2>5. ASSUME NEW o \in Using, NEW k \in Id \cup {Malformed}, WithBlob(t, o, k) PROVE SessionInv'
    BY <2>5 DEF WithBlob, Begin, Go, tee
  <2>6. CASE OpenSubsession(t) BY <2>6 DEF OpenSubsession, FirstCall, Go, history
  <2>7. CASE SubsessionFails(t) BY <2>7 DEF SubsessionFails, FirstCall, C_Finalize, Go, history
  <2>8. CASE C_GenerateKeyPair(t) BY <2>8 DEF C_GenerateKeyPair, Live, Objects, Hold, Result, Go, history
  <2>9. CASE CreatePublic(t) BY <2>9 DEF CreatePublic, Live, Objects, Hold, Go, history
  <2>10. CASE CreatePrivate(t) BY <2>10 DEF CreatePrivate, Live, Objects, Hold, Result, Go, history
  <2>11. CASE keyblob_restore(t) BY <2>11 DEF keyblob_restore, Result, Go, tee, history
  <2>12. ASSUME NEW c \in Classes, FindInit(t, c) PROVE SessionInv'
    BY <2>12 DEF FindInit, InitAt, FindAt, Live, Result, Go, history
  <2>13. ASSUME NEW c \in Classes, FindObjects(t, c) PROVE SessionInv'
    BY <2>13 DEF FindObjects, FindAt, AfterFind, UseAt, Live, Objects, Hold, Result, Go, history
  <2>14. CASE UseObject(t) BY <2>14 DEF UseObject, Live, Result, Go, tee, history
  <2>15. CASE DestroyPrivate(t) BY <2>15 DEF DestroyPrivate, Destroy, Live, Objects, Go, history
  <2>16. CASE DestroyPublic(t) BY <2>16 DEF DestroyPublic, Destroy, Live, Objects, Result, Go, history
  <2>17. CASE CallFails(t) BY <2>17 DEF CallFails, TeeCalls, Result, Go, history
  <2>18. CASE CloseObjectHandle(t) BY <2>18 DEF CloseObjectHandle, Go, history
  <2>19. CASE CloseSession(t) BY <2>19 DEF CloseSession, Go
  <2> HIDE DEF SessionInv
  <2> QED
    BY <1>4, <2>1, <2>2, <2>3, <2>4, <2>5, <2>6, <2>7, <2>8, <2>9, <2>10,
       <2>11, <2>12, <2>13, <2>14, <2>15, <2>16, <2>17, <2>18, <2>19 DEF Step
<1> QED BY <1>1, <1>2, <1>3, <1>4 DEF Next

(* FailsOnlyForCause for one thread.                                       *)
HonestAt(u) ==
  at[u] \in Closing /\ ret[u] = "failed" /\ ~ cause[u] =>
    ~ lib \/ (op[u] \in Using /\ key[u] \in doomed \cup {Malformed})

(* What a thread's step may do to another one: ask for a deletion, or take *)
(* the library away; it is initialised again only when the other is idle.  *)
Bystander(u) ==
  /\ at'[u] = at[u] /\ op'[u] = op[u] /\ key'[u] = key[u]
  /\ ret'[u] = ret[u] /\ cause'[u] = cause[u]
  /\ doomed \subseteq doomed' /\ (lib' = lib \/ ~ lib' \/ at[u] = "idle")

(* Every step of one thread leaves another's operation where it was.       *)
LEMMA BystanderStep ==
  ASSUME TypeOK, SessionInv, NEW t \in Thread, Step(t), NEW u \in Thread \ {t}
  PROVE  Bystander(u)
<1> USE DEF Bystander, SessionInv, Opening, TypeOK
<1>1. CASE tee_open(t) BY <1>1 DEF tee_open, Go, tee, history
<1>2. CASE OpenStep(t) BY <1>2 DEF OpenStep, Go, history
<1>3. CASE OpenFails(t) BY <1>3 DEF OpenFails, Go, tee, history, C_Finalize
<1>4. ASSUME NEW o \in Making, NEW k \in Id, generate_random_id(t, o, k) PROVE Bystander(u)
  BY <1>4 DEF generate_random_id, Begin, Go, tee
<1>5. ASSUME NEW o \in Using, NEW k \in Id \cup {Malformed}, WithBlob(t, o, k) PROVE Bystander(u)
  BY <1>5 DEF WithBlob, Begin, Go, tee
<1>6. CASE OpenSubsession(t) BY <1>6 DEF OpenSubsession, Go, history
<1>7. CASE SubsessionFails(t) BY <1>7 DEF SubsessionFails, C_Finalize, Go, history
<1>8. CASE C_GenerateKeyPair(t) BY <1>8 DEF C_GenerateKeyPair, Hold, Result, Go, history
<1>9. CASE CreatePublic(t) BY <1>9 DEF CreatePublic, Hold, Go, history
<1>10. CASE CreatePrivate(t) BY <1>10 DEF CreatePrivate, Hold, Result, Go, history
<1>11. CASE keyblob_restore(t) BY <1>11 DEF keyblob_restore, Result, Go, tee, history
<1>12. ASSUME NEW c \in Classes, FindInit(t, c) PROVE Bystander(u)
  BY <1>12 DEF FindInit, Result, Go, history
<1>13. ASSUME NEW c \in Classes, FindObjects(t, c) PROVE Bystander(u)
  BY <1>13 DEF FindObjects, Hold, Result, Go, history
<1>14. CASE UseObject(t) BY <1>14 DEF UseObject, Result, Go, tee, history
<1>15. CASE DestroyPrivate(t) BY <1>15 DEF DestroyPrivate, Destroy, Go, history
<1>16. CASE DestroyPublic(t) BY <1>16 DEF DestroyPublic, Destroy, Result, Go, history
<1>17. CASE CallFails(t) BY <1>17 DEF CallFails, Result, Go, history
<1>18. CASE CloseObjectHandle(t) BY <1>18 DEF CloseObjectHandle, Go, history
<1>19. CASE CloseSession(t) BY <1>19 DEF CloseSession, Go
<1> QED
  BY <1>1, <1>2, <1>3, <1>4, <1>5, <1>6, <1>7, <1>8, <1>9, <1>10,
     <1>11, <1>12, <1>13, <1>14, <1>15, <1>16, <1>17, <1>18, <1>19 DEF Step

(* No step of a thread fails its own operation without a refusal, a bad    *)
(* blob, a deletion or a lost library.                                     *)
LEMMA HonestStep ==
  ASSUME TypeOK, OwnInv, LabelInv, IdInv, KeptInv, SessionInv, NEW t \in Thread, HonestAt(t), Step(t)
  PROVE  HonestAt(t)'
<1> USE DEF HonestAt, Closing, TypeOK
<1>1. CASE tee_open(t) BY <1>1 DEF tee_open, Go, tee, history
<1>2. CASE OpenStep(t) BY <1>2 DEF OpenStep, Go, history
<1>3. CASE OpenFails(t) BY <1>3 DEF OpenFails, Go, tee, history, C_Finalize
<1>4. ASSUME NEW o \in Making, NEW k \in Id, generate_random_id(t, o, k) PROVE HonestAt(t)'
  BY <1>4 DEF generate_random_id, Begin, Go, tee
<1>5. ASSUME NEW o \in Using, NEW k \in Id \cup {Malformed}, WithBlob(t, o, k) PROVE HonestAt(t)'
  BY <1>5 DEF WithBlob, Begin, Go, tee
<1>6. CASE OpenSubsession(t) BY <1>6 DEF OpenSubsession, FirstCall, Go, history
<1>7. CASE SubsessionFails(t) BY <1>7 DEF SubsessionFails, FirstCall, C_Finalize, Go, history
<1>8. CASE C_GenerateKeyPair(t) BY <1>8 DEF C_GenerateKeyPair, Hold, Result, Go, history
<1>9. CASE CreatePublic(t) BY <1>9 DEF CreatePublic, Hold, Go, history
<1>10. CASE CreatePrivate(t) BY <1>10 DEF CreatePrivate, Hold, Result, Go, history
<1>11. CASE keyblob_restore(t)
  <2>1. op[t] \in Using /\ key[t] = Malformed /\ op' = op /\ key' = key
    BY <1>11 DEF keyblob_restore, LabelInv
  <2> QED BY <2>1
<1>12. ASSUME NEW c \in Classes, FindInit(t, c) PROVE HonestAt(t)'
  <2>1. at[t] \in {"init_public", "init_private"} /\ at[t] = InitAt(c)
    BY <1>12 DEF FindInit, InitAt
  <2>2. t \notin searching
    BY <2>1 DEF OwnInv, OwnAt
  <2>3. at' = [at EXCEPT ![t] = FindAt(c)]
    BY <1>12, <2>2 DEF FindInit, Go
  <2>4. at'[t] \notin Closing
    BY <2>3 DEF FindAt
  <2> QED BY <2>4
<1>13. ASSUME NEW c \in Classes, FindObjects(t, c) PROVE HonestAt(t)'
  <2>1. CASE key[t] \in doomed
    <3>1. op[t] \in Using
      BY <1>13 DEF FindObjects, FindAt, LabelInv
    <3> QED BY <1>13, <2>1, <3>1 DEF FindObjects, FindAt, AfterFind, UseAt, Hold, Result, Go, history
  <2>2. CASE key[t] \notin doomed
    <3>1. op[t] \in Using /\ key[t] \in issued
      BY <1>13, <2>2, IdAssumption DEF FindObjects, FindAt, IdInv, LabelInv, Outside, TeeCalls
    <3>2. <<key[t], c>> \in token
      BY <2>2, <3>1 DEF KeptInv, Classes
    <3>3. Objects(t, {c}) \subseteq token
      BY <3>2 DEF Objects
    <3> QED BY <1>13, <3>3 DEF FindObjects, AfterFind, UseAt, Go, history
  <2> QED BY <2>1, <2>2
<1>14. CASE UseObject(t) BY <1>14 DEF UseObject, Result, Go, tee, history
<1>15. CASE DestroyPrivate(t) BY <1>15 DEF DestroyPrivate, Destroy, Go, history
<1>16. CASE DestroyPublic(t) BY <1>16 DEF DestroyPublic, Destroy, Result, Go, history
<1>17. CASE CallFails(t)
  <2>1. /\ at[t] \in TeeCalls /\ lib' = lib /\ op' = op /\ key' = key /\ doomed' = doomed
        /\ cause' = IF Served(t) THEN [cause EXCEPT ![t] = TRUE] ELSE cause
    BY <1>17 DEF CallFails, history
  <2>2. CASE Served(t)
    <3>1. cause'[t]
      BY <2>1, <2>2
    <3> QED BY <3>1
  <2>3. CASE ~ Live(t)
    <3>1. ~ lib
      BY <2>1, <2>3 DEF SessionInv, Live
    <3> QED BY <2>1, <3>1
  <2>4. CASE ~ (Objects(t, Needs(t)) \subseteq token)
    <3>1. PICK c \in Needs(t) : <<key[t], c>> \notin token
      BY <2>4 DEF Objects
    <3>2. c \in Classes /\ op[t] \in Using /\ key[t] \in Id
      BY <2>1, <3>1 DEF Needs, Wanted, LabelInv, Classes, Using, TeeCalls
    <3>3. key[t] \in issued
      BY <2>1, <3>2, IdAssumption DEF IdInv, TeeCalls, Outside
    <3>4. key[t] \in doomed
      BY <3>1, <3>2, <3>3 DEF KeptInv, Classes
    <3> QED BY <2>1, <3>2, <3>4
  <2> QED BY <2>2, <2>3, <2>4 DEF Served
<1>18. CASE CloseObjectHandle(t) BY <1>18 DEF CloseObjectHandle, Go, history
<1>19. CASE CloseSession(t) BY <1>19 DEF CloseSession, Go
<1> QED
  BY <1>1, <1>2, <1>3, <1>4, <1>5, <1>6, <1>7, <1>8, <1>9, <1>10,
     <1>11, <1>12, <1>13, <1>14, <1>15, <1>16, <1>17, <1>18, <1>19 DEF Step

(* No step of anybody does. *)
LEMMA FailsOnlyForCauseStep ==
  ASSUME TypeOK, OwnInv, LabelInv, IdInv, KeptInv, SessionInv, FailsOnlyForCause, [Next]_vars
  PROVE FailsOnlyForCause'
<1> SUFFICES ASSUME NEW u \in Thread PROVE HonestAt(u)'
  BY DEF FailsOnlyForCause, HonestAt
<1>0. HonestAt(u)
  BY DEF FailsOnlyForCause, HonestAt
<1>1. CASE UNCHANGED vars BY <1>0, <1>1 DEF vars, HonestAt
<1>2. CASE tee_close BY <1>2 DEF tee_close, C_Finalize, HonestAt
<1>3. CASE Crash BY <1>3 DEF Crash, C_Finalize, HonestAt
<1>4. ASSUME NEW t \in Thread, Step(t) PROVE HonestAt(u)'
  <2>1. CASE u = t
    BY <1>0, <1>4, <2>1, HonestStep
  <2>2. CASE u # t
    <3>1. Bystander(u)
      BY <1>4, <2>2, BystanderStep
    <3> QED BY <1>0, <3>1 DEF HonestAt, Bystander, Closing
  <2> QED BY <2>1, <2>2
<1> QED BY <1>1, <1>2, <1>3, <1>4 DEF Next

(* The initial state satisfies the inductive invariant. *)
LEMMA InitInv == Init => IndInv
BY IdAssumption, ZenonT(30) DEF Init, Fresh, IndInv, TypeOK, OwnInv, OwnAt, LabelInv, IdInv, TokenInv,
  PrivateHasPublic, KeptInv, GoneInv, SessionInv, LibraryHasOwner, FailsOnlyForCause,
  Opening, Outside, Closing, TeeCalls, Classes, Labels, Making, Using

(* Every step preserves the inductive invariant. *)
LEMMA StepInv == IndInv /\ [Next]_vars => IndInv'
BY TypeOKStep, OwnInvStep, LabelInvStep, IdInvStep, TokenInvStep, PrivateHasPublicStep,
   KeptInvStep, GoneInvStep, SessionInvStep, LibraryHasOwnerStep, FailsOnlyForCauseStep DEF IndInv

(* The inductive invariant holds in every reachable state. *)
LEMMA Invariance == Spec => []IndInv
BY InitInv, StepInv, PTL DEF Spec

(* Every variable keeps its kind, with any threads and any ids.            *)
THEOREM TypeCorrect == Spec => []TypeOK
<1>1. IndInv => TypeOK BY DEF IndInv
<1> QED BY <1>1, Invariance, PTL

(* No refused call and no death of the process leaves a private key        *)
(* without its public key (tee_import_keypair, tee_delete_keypair).        *)
THEOREM RemnantSafe == Spec => []PrivateHasPublic
<1>1. IndInv => PrivateHasPublic BY DEF IndInv
<1> QED BY <1>1, Invariance, PTL

(* A key the client has a blob of stays complete until somebody asks for   *)
(* its deletion (tee_generate_keypair, tee_import_keypair).                *)
THEOREM KeysSafe == Spec => []KeysKept
<1>1. IndInv => KeysKept BY DEF IndInv, KeptInv, KeysKept, Classes
<1> QED BY <1>1, Invariance, PTL

(* A deletion that returned 0 left nothing and nothing comes back          *)
(* (tee_delete_keypair).                                                   *)
THEOREM DeletionSafe == Spec => []DeletedForGood
<1>1. IndInv => DeletedForGood BY DEF IndInv, GoneInv, DeletedForGood, Classes
<1> QED BY <1>1, Invariance, PTL

(* An operation that returned has nothing open in the TEE                  *)
(* (~CryptoSession, ~ObjectHandle).                                        *)
THEOREM CloseSafe == Spec => []NothingLeftOpen
<1>1. IndInv => NothingLeftOpen
  BY DEF IndInv, OwnInv, OwnAt, NothingLeftOpen, Outside, Classes
<1> QED BY <1>1, Invariance, PTL

(* A failed opening leaves the library ready for the next one (tee_open).  *)
THEOREM OpenSafe == Spec => []LibraryHasOwner
<1>1. IndInv => LibraryHasOwner BY DEF IndInv
<1> QED BY <1>1, Invariance, PTL

(* Neither an operation nor an opening strands anything in the TEE.        *)
THEOREM StrandsNothing == Spec => []NothingStranded
BY CloseSafe, OpenSafe, PTL DEF NothingStranded

(* While no refused subsession has finalised the library, an operation on  *)
(* a key nobody deletes fails only if the TEE refused it a call it could   *)
(* have served: no other thread takes its session, its objects or its      *)
(* search from it (find_single_object, keyblob_restore, CryptoSession()).  *)
THEOREM FailureHonest == Spec => []FailsOnlyForCause
<1>1. IndInv => FailsOnlyForCause BY DEF IndInv
<1> QED BY <1>1, Invariance, PTL
-------------------------------------------------------------------------------
(* The refinement of KeyLife.                                              *)

Untouched == UNCHANGED <<token, used, issued, doomed, gone>>

(* A step that leaves the token and the history alone is none of a life.   *)
LEMMA NoLifeStep == ASSUME Untouched PROVE UNCHANGED Life!vars
BY DEF Untouched, Life!vars, Stages, Stage

(* One key moves on when its stage changes and no other does.              *)
LEMMA MoveStep ==
  ASSUME NEW i \in Id, NEW from, NEW to, Stage(i) = from, Stage(i)' = to, token' = token,
         \A k \in Id \ {i} : Stage(k)' = Stage(k)
  PROVE  Life!Move(i, from, to)
<1>1. Stages[i] = from
  BY DEF Stages
<1>2. Stages' = [k \in Id |-> Stage(k)']
  BY DEF Stages
<1>3. Stages' = [Stages EXCEPT ![i] = to]
  BY <1>2 DEF Stages
<1> QED BY <1>1, <1>3 DEF Life!Move

(* An id is drawn: a life begins.                                          *)
LEMMA DrawnLife ==
  ASSUME IndInv, NEW t \in Thread, NEW o \in Making, NEW k \in Id, generate_random_id(t, o, k)
  PROVE  Life!Begin(k)
<1>1. /\ k \notin used /\ used' = used \cup {k} /\ token' = token
      /\ issued' = issued /\ doomed' = doomed /\ gone' = gone
  BY DEF generate_random_id, Begin
<1>2. issued \subseteq used /\ doomed \subseteq issued /\ gone \subseteq doomed
  BY DEF IndInv, IdInv
<1>3. Stage(k) = "unborn" /\ Stage(k)' = "making"
  BY <1>1, <1>2 DEF Stage
<1>4. \A i \in Id \ {k} : Stage(i)' = Stage(i)
  BY <1>1 DEF Stage
<1> QED BY <1>1, <1>3, <1>4, MoveStep DEF Life!Begin

(* A deletion is asked for: the key is condemned, if it was not already.   *)
LEMMA AskedLife ==
  ASSUME IndInv, NEW t \in Thread, NEW o \in Using, NEW k \in Id \cup {Malformed}, WithBlob(t, o, k)
  PROVE  (k \in Id /\ Life!Ask(k)) \/ Untouched
<1>1. /\ k \in issued \cup {Malformed} /\ used' = used /\ token' = token
      /\ issued' = issued /\ gone' = gone
      /\ doomed' = IF o = "delete" THEN doomed \cup ({k} \cap Id) ELSE doomed
  BY DEF WithBlob, Begin
<1>2. gone \subseteq doomed
  BY DEF IndInv, IdInv
<1>3. CASE k \in Id /\ k \notin doomed /\ o = "delete"
  <2>1. k \in issued /\ doomed' = doomed \cup {k}
    BY <1>1, <1>3, IdAssumption
  <2>2. Stage(k) = "given" /\ Stage(k)' = "condemned"
    BY <1>1, <1>2, <1>3, <2>1 DEF Stage
  <2>3. \A i \in Id \ {k} : Stage(i)' = Stage(i)
    BY <1>1, <2>1 DEF Stage
  <2> QED BY <1>1, <1>3, <2>2, <2>3, MoveStep DEF Life!Ask
<1>4. CASE ~ (k \in Id /\ k \notin doomed /\ o = "delete")
  <2>1. doomed' = doomed
    BY <1>1, <1>4
  <2> QED BY <1>1, <2>1 DEF Untouched
<1> QED BY <1>3, <1>4

(* An operation returns: a key that was made is given, a deletion that     *)
(* succeeded is reported.                                                  *)
LEMMA ReturnedLife ==
  ASSUME IndInv, NEW t \in Thread, CloseSession(t)
  PROVE  (key[t] \in Id /\ (Life!Give(key[t]) \/ Life!Report(key[t]))) \/ Untouched
<1> DEFINE k == key[t]
<1>1. /\ at[t] = "close_session" /\ token' = token /\ used' = used /\ doomed' = doomed
      /\ issued' = IF ret[t] = "ok" /\ op[t] \in Making THEN issued \cup {k} ELSE issued
      /\ gone' = IF ret[t] = "ok" /\ op[t] = "delete" THEN gone \cup {k} ELSE gone
  BY DEF CloseSession
<1>2. issued \subseteq used /\ doomed \subseteq issued /\ gone \subseteq doomed
  BY DEF IndInv, IdInv
<1>3. ret[t] = "ok" => k \in Id
  BY <1>1 DEF IndInv, LabelInv, Closing
<1>4. CASE ret[t] = "ok" /\ op[t] \in Making
  <2>1. /\ k \in used \ issued /\ <<k, "public">> \in token /\ <<k, "private">> \in token
    BY <1>1, <1>4 DEF IndInv, IdInv, TokenInv, Outside, Closing
  <2>2. op[t] # "delete" /\ gone' = gone /\ issued' = issued \cup {k}
    BY <1>1, <1>4 DEF Making
  <2> HIDE DEF k
  <2>3. PICK j \in Id : j = k
    BY <1>3, <1>4
  <2>4. Stage(j) = "making" /\ Stage(j)' = "given" /\ \A i \in Id \ {j} : Stage(i)' = Stage(i)
    BY <1>1, <1>2, <2>1, <2>2, <2>3 DEF Stage
  <2>5. Life!Give(j)
    BY <1>1, <2>1, <2>3, <2>4, MoveStep DEF Life!Give, Life!Whole
  <2> QED BY <2>3, <2>5 DEF k
<1>5. CASE ret[t] = "ok" /\ op[t] = "delete" /\ k \notin gone
  <2>0. k \in Id /\ op[t] \notin Making /\ op[t] \in Using
    BY <1>3, <1>5 DEF Making, Using
  <2>1. k \in doomed /\ <<k, "public">> \notin token /\ <<k, "private">> \notin token
    BY <1>1, <1>5, <2>0, IdAssumption DEF IndInv, IdInv, TokenInv, Outside, Closing
  <2>2. issued' = issued /\ gone' = gone \cup {k}
    BY <1>1, <1>5, <2>0
  <2> HIDE DEF k
  <2>3. PICK j \in Id : j = k
    BY <2>0
  <2>4. Stage(j) = "condemned" /\ Stage(j)' = "deleted" /\ \A i \in Id \ {j} : Stage(i)' = Stage(i)
    BY <1>1, <1>5, <2>1, <2>2, <2>3 DEF Stage
  <2>5. Life!Report(j)
    BY <1>1, <2>1, <2>3, <2>4, MoveStep DEF Life!Report, Life!Whole
  <2> QED BY <2>3, <2>5 DEF k
<1>6. CASE /\ ~ (ret[t] = "ok" /\ op[t] \in Making)
           /\ ~ (ret[t] = "ok" /\ op[t] = "delete" /\ k \notin gone)
  <2>1. issued' = issued
    BY <1>1, <1>6
  <2>2. gone' = gone
    BY <1>1, <1>6
  <2> QED BY <1>1, <2>1, <2>2 DEF Untouched
<1> QED BY <1>4, <1>5, <1>6

(* Objects are created: the key is being made.                             *)
LEMMA CreatedLife ==
  ASSUME IndInv, NEW t \in Thread,
         C_GenerateKeyPair(t) \/ CreatePublic(t) \/ CreatePrivate(t)
  PROVE  key[t] \in Id /\ Life!Create(key[t])
<1> DEFINE k == key[t]
<1>1. /\ used' = used /\ issued' = issued /\ doomed' = doomed /\ gone' = gone
      /\ at[t] \in {"generate", "create_public", "create_private"}
  BY DEF C_GenerateKeyPair, CreatePublic, CreatePrivate, history
<1>2. Stages' = Stages
  BY <1>1 DEF Stages, Stage
<1>3. k \in Id /\ op[t] \in Making
  BY <1>1 DEF IndInv, LabelInv, TeeCalls, Making
<1>4. k \in used \ issued /\ doomed \subseteq issued /\ gone \subseteq doomed
  BY <1>1, <1>3 DEF IndInv, IdInv, Outside
<1>5. Stages[k] = "making"
  BY <1>3, <1>4 DEF Stages, Stage
<1>6. CASE C_GenerateKeyPair(t)
  <2>1. token' = token \cup {<<k, "public">>, <<k, "private">>}
    BY <1>6 DEF C_GenerateKeyPair, Objects, Classes
  <2> QED BY <1>2, <1>3, <1>5, <2>1 DEF Life!Create, Life!Whole
<1>7. CASE CreatePublic(t)
  <2>1. token' = token \cup {<<k, "public">>}
    BY <1>7 DEF CreatePublic, Objects
  <2> QED BY <1>2, <1>3, <1>5, <2>1 DEF Life!Create, Life!Whole
<1>8. CASE CreatePrivate(t)
  <2>1. token' = token \cup {<<k, "private">>} /\ at[t] = "create_private"
    BY <1>8 DEF CreatePrivate, Objects
  <2>2. <<k, "public">> \in token
    BY <2>1 DEF IndInv, TokenInv
  <2>3. token' = token \cup {<<k, "public">>, <<k, "private">>}
    BY <2>1, <2>2
  <2> QED BY <1>2, <1>3, <1>5, <2>3 DEF Life!Create, Life!Whole
<1> QED BY <1>6, <1>7, <1>8

(* Objects are destroyed: the key was condemned and not yet reported.      *)
LEMMA DestroyedLife ==
  ASSUME IndInv, NEW t \in Thread, DestroyPrivate(t) \/ DestroyPublic(t)
  PROVE  key[t] \in Id /\ Life!Destroy(key[t])
<1> DEFINE k == key[t]
<1>1. /\ used' = used /\ issued' = issued /\ doomed' = doomed /\ gone' = gone
      /\ at[t] \in {"destroy_private", "destroy_public"}
  BY DEF DestroyPrivate, DestroyPublic, Destroy, history
<1>2. Stages' = Stages
  BY <1>1 DEF Stages, Stage
<1>3. k \in Id /\ op[t] = "delete"
  BY <1>1 DEF IndInv, LabelInv, TeeCalls
<1>4. k \in doomed
  BY <1>1, <1>3, IdAssumption DEF IndInv, IdInv, Outside
<1>5. k \notin gone
  BY <1>3 DEF IndInv, GoneInv, DestroyPrivate, DestroyPublic, Destroy, Objects
<1>6. Stages[k] = "condemned"
  BY <1>3, <1>4, <1>5 DEF Stages, Stage
<1>7. CASE DestroyPrivate(t)
  <2>1. token' = token \ {<<k, "private">>}
    BY <1>7 DEF DestroyPrivate, Destroy, Objects
  <2> QED BY <1>2, <1>3, <1>6, <2>1 DEF Life!Destroy
<1>8. CASE DestroyPublic(t)
  <2>1. token' = token \ {<<k, "public">>} /\ at[t] = "destroy_public"
    BY <1>8 DEF DestroyPublic, Destroy, Objects
  <2>2. <<k, "private">> \notin token
    BY <2>1 DEF IndInv, TokenInv
  <2> QED BY <1>2, <1>3, <1>6, <2>1, <2>2 DEF Life!Destroy
<1> QED BY <1>7, <1>8

LEMMA LifeInit == Init => Life!Init
BY DEF Init, Life!Init, Stages, Stage

LEMMA LifeStep == IndInv /\ [Next]_vars => [Life!Next]_(Life!vars)
<1> SUFFICES ASSUME IndInv, [Next]_vars PROVE Life!Next \/ UNCHANGED Life!vars
  OBVIOUS
<1>1. CASE UNCHANGED vars
  BY <1>1, NoLifeStep DEF vars, Untouched
<1>2. CASE tee_close \/ Crash
  BY <1>2, NoLifeStep DEF tee_close, Crash, history, Untouched
<1>3. ASSUME NEW t \in Thread, Step(t) PROVE Life!Next \/ UNCHANGED Life!vars
  <2>1. ASSUME NEW o \in Making, NEW k \in Id, generate_random_id(t, o, k) PROVE Life!Next
    BY <2>1, DrawnLife DEF Life!Next
  <2>2. ASSUME NEW o \in Using, NEW k \in Id \cup {Malformed}, WithBlob(t, o, k)
        PROVE  Life!Next \/ UNCHANGED Life!vars
    BY <2>2, AskedLife, NoLifeStep DEF Life!Next
  <2>3. CASE C_GenerateKeyPair(t) \/ CreatePublic(t) \/ CreatePrivate(t)
    BY <2>3, CreatedLife DEF Life!Next
  <2>4. CASE DestroyPrivate(t) \/ DestroyPublic(t)
    BY <2>4, DestroyedLife DEF Life!Next
  <2>5. CASE CloseSession(t)
    BY <2>5, ReturnedLife, NoLifeStep DEF Life!Next
  <2>6. CASE tee_open(t) \/ OpenStep(t) \/ OpenFails(t) \/ OpenSubsession(t) \/ SubsessionFails(t)
             \/ keyblob_restore(t) \/ UseObject(t) \/ CallFails(t) \/ CloseObjectHandle(t)
    BY <2>6, NoLifeStep
    DEF tee_open, OpenStep, OpenFails, OpenSubsession, SubsessionFails, keyblob_restore,
        UseObject, CallFails, CloseObjectHandle, history, Untouched
  <2>7. ASSUME NEW c \in Classes, FindInit(t, c) \/ FindObjects(t, c) PROVE UNCHANGED Life!vars
    BY <2>7, NoLifeStep DEF FindInit, FindObjects, history, Untouched
  <2> QED
    BY <1>3, <2>1, <2>2, <2>3, <2>4, <2>5, <2>6, <2>7 DEF Step
<1> QED BY <1>1, <1>2, <1>3 DEF Next

(* The keymaster implements the life of a key: for any threads and ids,    *)
(* whatever call the TEE refuses and wherever the process dies, each step  *)
(* of tee_generate_keypair, tee_import_keypair, tee_delete_keypair and the *)
(* rest is a step of KeyLife on one key, or none.                          *)
THEOREM KeysLiveAsPromised == Spec => KeysLive
BY LifeInit, LifeStep, Invariance, PTL DEF Spec, KeysLive, Life!Spec
===============================================================================
