------------------------------ MODULE Keymaster -------------------------------
(***************************************************************************)
(* The keymaster HAL (keymaster/keymaster_grouper.cpp): RSA keys kept as   *)
(* objects on the token of the Trusted Execution Environment (TEE), a      *)
(* public and a private one under one random id; the key blob a client     *)
(* keeps names that id.                                                    *)
(*                                                                         *)
(* Every operation opens a subsession, makes its PKCS#11 calls one after   *)
(* the other, and lets the destructors of its ObjectHandles and of its     *)
(* CryptoSession close what it opened.  Any call but those that close may  *)
(* be refused, operations of several threads interleave between the calls  *)
(* (there is no lock), and the process may die anywhere: the token         *)
(* outlives it.                                                            *)
(*                                                                         *)
(* Key material, signatures and attribute lists are abstracted.  An        *)
(* operation that rejects its arguments before it opens a session changes  *)
(* nothing and has no action.  The TEE's library is external.              *)
(***************************************************************************)
EXTENDS FiniteSets

CONSTANTS
    Thread,     \* threads of the process that uses the HAL
    Id,         \* random key ids; each is drawn at most once (bound)
    Malformed   \* a blob that is null, too short or of another version

ASSUME IdAssumption == Malformed \notin Id

Classes == {"public", "private"}        \* CKO_PUBLIC_KEY, CKO_PRIVATE_KEY
Making  == {"generate", "import"}
Using   == {"get_public", "delete", "sign", "verify"}

VARIABLES
    token,      \* objects on the token, <<id, class>>
    lib,        \* the process's PKCS#11 library is initialised
    dev,        \* a keymaster device is open
    sessions,   \* threads whose subsession the TEE has open
    handles,    \* object handles the TEE has open, <<thread, class>>
    searching,  \* threads whose subsession has a search active
    at,         \* the call a thread makes next
    op, key,    \* its operation and the id it is about
    own,        \* its C++ objects that hold a valid handle
    ret,        \* what it will return
    cause,      \* a call it could have served was refused that operation (history)
    used,       \* ids drawn
    issued,     \* ids of the blobs returned to the client
    doomed,     \* ids whose deletion was asked for (history)
    gone        \* ids whose deletion returned 0 (history)

tee     == <<lib, sessions, handles, searching>>
threads == <<at, op, key, own, ret, cause>>
history == <<used, issued, doomed, gone>>
vars    == <<token, lib, dev, sessions, handles, searching,
             at, op, key, own, ret, cause, used, issued, doomed, gone>>

Labels == {"idle", "initialize", "get_info", "open_primary", "session",
           "generate", "create_public", "create_private",
           "init_public", "find_public", "init_private", "find_private",
           "attribute_sizes", "attribute_values", "sign_init", "sign",
           "verify_init", "verify", "destroy_private", "destroy_public",
           "close_private", "close_public", "close_session"}
Closing == {"close_private", "close_public", "close_session"}

Fresh(v) == [t \in Thread |-> v]

Init ==
  /\ token = {} /\ lib = FALSE /\ dev = FALSE
  /\ sessions = {} /\ handles = {} /\ searching = {}
  /\ at = Fresh("idle") /\ op = Fresh("none") /\ key = Fresh(Malformed)
  /\ own = Fresh({}) /\ ret = Fresh("none") /\ cause = Fresh(FALSE)
  /\ used = {} /\ issued = {} /\ doomed = {} /\ gone = {}

Go(t, label) == at' = [at EXCEPT ![t] = label]

(* The operation's result is decided; the destructors run next.            *)
Result(t, r) == /\ Go(t, "close_private")
                /\ ret' = [ret EXCEPT ![t] = r]

(* C_Finalize: the library drops every session of the process.             *)
C_Finalize == lib' = FALSE /\ sessions' = {} /\ handles' = {} /\ searching' = {}

-------------------------------------------------------------------------------
(* The device.                                                             *)

tee_open(t) ==
  /\ ~ dev /\ \A u \in Thread : at[u] = "idle"
  /\ Go(t, "initialize")
  /\ UNCHANGED <<token, tee, dev, op, key, own, ret, cause, history>>

(* C_Initialize, C_GetInfo and C_OpenSession succeed.  A library that is   *)
(* already initialised refuses to be initialised again.                    *)
OpenStep(t) ==
  /\ \/ at[t] = "initialize" /\ ~ lib /\ lib' = TRUE /\ Go(t, "get_info") /\ UNCHANGED dev
     \/ at[t] = "get_info" /\ Go(t, "open_primary") /\ UNCHANGED <<lib, dev>>
     \/ at[t] = "open_primary" /\ dev' = TRUE /\ Go(t, "idle") /\ UNCHANGED lib
  /\ UNCHANGED <<token, sessions, handles, searching, op, key, own, ret, cause, history>>

(* Mutant: the library stays initialised when the device cannot be opened. *)
OpenFails_NoFinalize(t) ==
  /\ at[t] \in {"initialize", "get_info", "open_primary"}
  /\ Go(t, "idle")
  /\ UNCHANGED <<token, tee, dev, op, key, own, ret, cause, history>>

OpenFails(t) ==
  /\ \/ at[t] = "initialize" /\ UNCHANGED tee
     \/ at[t] \in {"get_info", "open_primary"} /\ C_Finalize
  /\ Go(t, "idle")
  /\ UNCHANGED <<token, dev, op, key, own, ret, cause, history>>

(* The client closes the device when none of its calls is running.         *)
tee_close ==
  /\ dev /\ \A t \in Thread : at[t] = "idle"
  /\ dev' = FALSE /\ C_Finalize
  /\ UNCHANGED <<token, threads, history>>

(* The process dies.  The TEE closes its sessions; the token stays.        *)
Crash ==
  /\ lib \/ dev \/ \E t \in Thread : at[t] # "idle"
  /\ dev' = FALSE /\ C_Finalize
  /\ at' = Fresh("idle") /\ op' = Fresh("none") /\ key' = Fresh(Malformed)
  /\ own' = Fresh({}) /\ ret' = Fresh("none") /\ cause' = Fresh(FALSE)
  /\ UNCHANGED <<token, history>>

-------------------------------------------------------------------------------
(* An operation begins: a new id is drawn, or the client gives a blob.     *)
Begin(t, o, k) ==
  /\ dev /\ at[t] = "idle"
  /\ Go(t, "session")
  /\ op' = [op EXCEPT ![t] = o]
  /\ key' = [key EXCEPT ![t] = k]
  /\ ret' = [ret EXCEPT ![t] = "none"]
  /\ cause' = [cause EXCEPT ![t] = FALSE]
  /\ UNCHANGED <<token, tee, dev, own, issued, gone>>

(* Mutant: an id that was drawn before may be drawn again.                 *)
generate_random_id_Repeats(t, o, k) ==
  /\ Begin(t, o, k)
  /\ used' = used \cup {k}
  /\ UNCHANGED doomed

generate_random_id(t, o, k) ==
  /\ k \notin used
  /\ Begin(t, o, k)
  /\ used' = used \cup {k}
  /\ UNCHANGED doomed

WithBlob(t, o, k) ==
  /\ k \in issued \cup {Malformed}
  /\ Begin(t, o, k)
  /\ doomed' = IF o = "delete" THEN doomed \cup ({k} \cap Id) ELSE doomed
  /\ UNCHANGED used

(* CryptoSession(): when the subsession cannot be opened the library is    *)
(* finalised, under every other thread too, and the operation goes on with *)
(* an invalid handle.  A finalised library opens no subsession.            *)
FirstCall(o) == IF o = "generate" THEN "generate"
                ELSE IF o = "import" THEN "create_public" ELSE "init_public"

OpenSubsession(t) ==
  /\ at[t] = "session" /\ lib
  /\ sessions' = sessions \cup {t}
  /\ own' = [own EXCEPT ![t] = {"session"}]
  /\ Go(t, FirstCall(op[t]))
  /\ UNCHANGED <<token, lib, dev, handles, searching, op, key, ret, cause, history>>

SubsessionFails(t) ==
  /\ at[t] = "session"
  /\ C_Finalize
  /\ cause' = IF lib THEN [cause EXCEPT ![t] = TRUE] ELSE cause
  /\ Go(t, FirstCall(op[t]))
  /\ UNCHANGED <<token, dev, op, key, own, ret, history>>

-------------------------------------------------------------------------------
(* PKCS#11 calls on the subsession.                                        *)

(* The TEE knows the session t passes.                                     *)
Live(t) == t \in sessions /\ "session" \in own[t]

(* t holds a new handle for the object of the given class.                 *)
Hold(t, cs) == /\ handles' = handles \cup {<<t, c>> : c \in cs}
               /\ own' = [own EXCEPT ![t] = @ \cup cs]

Objects(t, cs) == {<<key[t], c>> : c \in cs}

(* Mutant: the private key is not a token object (CKA_TOKEN missing).      *)
C_GenerateKeyPair_NotOnToken(t) ==
  /\ at[t] = "generate" /\ Live(t)
  /\ token' = token \cup Objects(t, {"public"})
  /\ Hold(t, Classes)
  /\ Result(t, "ok")
  /\ UNCHANGED <<lib, dev, sessions, searching, op, key, cause, history>>

(* Both objects or none.                                                   *)
C_GenerateKeyPair(t) ==
  /\ at[t] = "generate" /\ Live(t)
  /\ token' = token \cup Objects(t, Classes)
  /\ Hold(t, Classes)
  /\ Result(t, "ok")
  /\ UNCHANGED <<lib, dev, sessions, searching, op, key, cause, history>>

(* tee_import_keypair() creates the public object, then the private one.   *)
CreatePublic(t) ==
  /\ at[t] = "create_public" /\ Live(t)
  /\ token' = token \cup Objects(t, {"public"})
  /\ Hold(t, {"public"})
  /\ Go(t, "create_private")
  /\ UNCHANGED <<lib, dev, sessions, searching, op, key, ret, cause, history>>

CreatePrivate(t) ==
  /\ at[t] = "create_private" /\ Live(t)
  /\ token' = token \cup Objects(t, {"private"})
  /\ Hold(t, {"private"})
  /\ Result(t, "ok")
  /\ UNCHANGED <<lib, dev, sessions, searching, op, key, cause, history>>

(* keyblob_restore(): the blob's version and length, then the two objects. *)
keyblob_restore(t) ==
  /\ at[t] = "init_public" /\ key[t] = Malformed
  /\ Result(t, "failed")
  /\ UNCHANGED <<token, tee, dev, op, key, own, cause, history>>

InitAt(c) == IF c = "public" THEN "init_public" ELSE "init_private"
FindAt(c) == IF c = "public" THEN "find_public" ELSE "find_private"

(* C_FindObjectsInit: a session has one search at a time.                  *)
FindInit(t, c) ==
  /\ at[t] = InitAt(c) /\ key[t] # Malformed /\ Live(t)
  /\ IF t \in searching THEN Result(t, "failed") /\ UNCHANGED searching
     ELSE searching' = searching \cup {t} /\ Go(t, FindAt(c)) /\ UNCHANGED ret
  /\ UNCHANGED <<token, lib, dev, sessions, handles, op, key, own, cause, history>>

UseAt(o) == IF o = "get_public" THEN "attribute_sizes"
            ELSE IF o = "delete" THEN "destroy_private"
            ELSE IF o = "sign" THEN "sign_init" ELSE "verify_init"

AfterFind(o, c) == IF c = "public" THEN "init_private" ELSE UseAt(o)

(* Mutant: the search is not ended when the object was found.              *)
FindObjects_NoFinal(t, c) ==
  /\ at[t] = FindAt(c) /\ Live(t)
  /\ IF Objects(t, {c}) \subseteq token
     THEN Hold(t, {c}) /\ Go(t, AfterFind(op[t], c)) /\ UNCHANGED <<ret, searching>>
     ELSE Result(t, "failed") /\ searching' = searching \ {t} /\ UNCHANGED <<handles, own>>
  /\ UNCHANGED <<token, lib, dev, sessions, op, key, cause, history>>

(* C_FindObjects and, found or not, C_FindObjectsFinal.                    *)
FindObjects(t, c) ==
  /\ at[t] = FindAt(c) /\ Live(t)
  /\ searching' = searching \ {t}
  /\ IF Objects(t, {c}) \subseteq token
     THEN Hold(t, {c}) /\ Go(t, AfterFind(op[t], c)) /\ UNCHANGED ret
     ELSE Result(t, "failed") /\ UNCHANGED <<handles, own>>
  /\ UNCHANGED <<token, lib, dev, sessions, op, key, cause, history>>

-------------------------------------------------------------------------------
(* What the operations do with the objects they found.                     *)

(* tee_get_keypair_public(), tee_sign_data(), tee_verify_data(): two calls *)
(* each, on the public or the private object.                              *)
Wanted(o) == IF o = "sign" THEN "private" ELSE "public"

UseObject(t) ==
  /\ Live(t) /\ Objects(t, {Wanted(op[t])}) \subseteq token
  /\ \/ at[t] = "attribute_sizes" /\ Go(t, "attribute_values") /\ UNCHANGED ret
     \/ at[t] = "sign_init" /\ Go(t, "sign") /\ UNCHANGED ret
     \/ at[t] = "verify_init" /\ Go(t, "verify") /\ UNCHANGED ret
     \/ at[t] \in {"attribute_values", "sign", "verify"} /\ Result(t, "ok")
  /\ UNCHANGED <<token, tee, dev, op, key, own, cause, history>>

(* C_DestroyObject on the object of class c; its handle goes with it.      *)
Destroy(t, c) ==
  /\ Live(t) /\ Objects(t, {c}) \subseteq token
  /\ token' = token \ Objects(t, {c})
  /\ handles' = handles \ {<<t, c>>}
  /\ UNCHANGED <<lib, dev, sessions, searching, op, key, own, cause, history>>

(* Mutant: the public object is destroyed first.                           *)
DestroyPrivate_PublicFirst(t) ==
  /\ at[t] = "destroy_private" /\ Destroy(t, "public")
  /\ Go(t, "destroy_public") /\ UNCHANGED ret

(* Mutant: the deletion ends with the private object.                      *)
DestroyPrivate_Only(t) ==
  /\ at[t] = "destroy_private" /\ Destroy(t, "private")
  /\ Result(t, "ok")

(* tee_delete_keypair(): the private object goes before the public one.    *)
DestroyPrivate(t) ==
  /\ at[t] = "destroy_private" /\ Destroy(t, "private")
  /\ Go(t, "destroy_public") /\ UNCHANGED ret

DestroyPublic(t) ==
  /\ at[t] = "destroy_public" /\ Destroy(t, "public")
  /\ Result(t, "ok")

TeeCalls == {"generate", "create_public", "create_private",
             "init_public", "find_public", "init_private", "find_private",
             "attribute_sizes", "attribute_values", "sign_init", "sign",
             "verify_init", "verify", "destroy_private", "destroy_public"}

(* The objects the next call of t is about, through handles found before.  *)
Needs(t) ==
  IF at[t] = "destroy_private" THEN {"private"}
  ELSE IF at[t] = "destroy_public" THEN {"public"}
  ELSE IF at[t] \in {"attribute_sizes", "attribute_values", "sign_init", "sign",
                     "verify_init", "verify"} THEN {Wanted(op[t])}
  ELSE {}

(* The TEE still has the session and the objects that call passes.         *)
Served(t) == Live(t) /\ Objects(t, Needs(t)) \subseteq token

(* A call fails: the TEE refuses it, its session or its object is gone, or *)
(* the code returns -1 between two calls (a number that cannot be          *)
(* converted, unsupported parameters).  Only a call the TEE could have     *)
(* served counts as a cause of its own.  A search that was begun is ended. *)
CallFails(t) ==
  /\ at[t] \in TeeCalls
  /\ cause' = IF Served(t) THEN [cause EXCEPT ![t] = TRUE] ELSE cause
  /\ searching' = IF at[t] \in {"find_public", "find_private"} THEN searching \ {t} ELSE searching
  /\ Result(t, "failed")
  /\ UNCHANGED <<token, lib, dev, sessions, handles, op, key, own, history>>

-------------------------------------------------------------------------------
(* The destructors, in the reverse order of construction.                  *)

(* Mutant: the private object's handle is forgotten.                       *)
CloseObjectHandle_PublicOnly(t) ==
  \/ /\ at[t] = "close_private" /\ Go(t, "close_public")
     /\ UNCHANGED <<token, tee, dev, op, key, own, ret, cause, history>>
  \/ /\ at[t] = "close_public" /\ Go(t, "close_session")
     /\ handles' = handles \ {<<t, "public">>}
     /\ own' = [own EXCEPT ![t] = @ \ {"public"}]
     /\ UNCHANGED <<token, lib, dev, sessions, searching, op, key, ret, cause, history>>

(* ~ObjectHandle, for the private key and then the public key.             *)
CloseObjectHandle(t) ==
  /\ \E c \in Classes :
       /\ at[t] = IF c = "private" THEN "close_private" ELSE "close_public"
       /\ handles' = IF c \in own[t] THEN handles \ {<<t, c>>} ELSE handles
       /\ own' = [own EXCEPT ![t] = @ \ {c}]
       /\ Go(t, IF c = "private" THEN "close_public" ELSE "close_session")
  /\ UNCHANGED <<token, lib, dev, sessions, searching, op, key, ret, cause, history>>

(* Mutant: every session of the process is closed (C_CloseAllSessions).    *)
CloseSession_All(t) ==
  /\ at[t] = "close_session"
  /\ sessions' = {}
  /\ searching' = IF "session" \in own[t] THEN searching \ {t} ELSE searching
  /\ own' = [own EXCEPT ![t] = {}]
  /\ Go(t, "idle")
  /\ issued' = IF ret[t] = "ok" /\ op[t] \in Making THEN issued \cup {key[t]} ELSE issued
  /\ gone' = IF ret[t] = "ok" /\ op[t] = "delete" THEN gone \cup {key[t]} ELSE gone
  /\ op' = [op EXCEPT ![t] = "none"] /\ key' = [key EXCEPT ![t] = Malformed]
  /\ ret' = [ret EXCEPT ![t] = "none"] /\ cause' = [cause EXCEPT ![t] = FALSE]
  /\ UNCHANGED <<token, lib, dev, handles, used, doomed>>

(* ~CryptoSession; then the caller has the result and the operation's own  *)
(* state is no more.                                                       *)
CloseSession(t) ==
  /\ at[t] = "close_session"
  /\ sessions' = IF "session" \in own[t] THEN sessions \ {t} ELSE sessions
  /\ searching' = IF "session" \in own[t] THEN searching \ {t} ELSE searching
  /\ own' = [own EXCEPT ![t] = {}]
  /\ Go(t, "idle")
  /\ issued' = IF ret[t] = "ok" /\ op[t] \in Making THEN issued \cup {key[t]} ELSE issued
  /\ gone' = IF ret[t] = "ok" /\ op[t] = "delete" THEN gone \cup {key[t]} ELSE gone
  /\ op' = [op EXCEPT ![t] = "none"] /\ key' = [key EXCEPT ![t] = Malformed]
  /\ ret' = [ret EXCEPT ![t] = "none"] /\ cause' = [cause EXCEPT ![t] = FALSE]
  /\ UNCHANGED <<token, lib, dev, handles, used, doomed>>

-------------------------------------------------------------------------------
(* One disjunct per operation's entry, then the steps they share.          *)
Step(t) ==
  \/ tee_open(t) \/ OpenStep(t) \/ OpenFails(t)
  \/ \E o \in Making, k \in Id : generate_random_id(t, o, k)
  \/ \E o \in Using, k \in Id \cup {Malformed} : WithBlob(t, o, k)
  \/ OpenSubsession(t) \/ SubsessionFails(t)
  \/ C_GenerateKeyPair(t) \/ CreatePublic(t) \/ CreatePrivate(t)
  \/ keyblob_restore(t) \/ \E c \in Classes : FindInit(t, c) \/ FindObjects(t, c)
  \/ UseObject(t) \/ DestroyPrivate(t) \/ DestroyPublic(t)
  \/ CallFails(t)
  \/ CloseObjectHandle(t) \/ CloseSession(t)

Next == tee_close \/ Crash \/ \E t \in Thread : Step(t)

Spec == Init /\ [][Next]_vars

-------------------------------------------------------------------------------
(* Every variable holds a value of its kind.                               *)
TypeOK ==
  /\ token \subseteq Id \X Classes
  /\ lib \in BOOLEAN /\ dev \in BOOLEAN
  /\ sessions \subseteq Thread /\ searching \subseteq Thread
  /\ handles \subseteq Thread \X Classes
  /\ at \in [Thread -> Labels]
  /\ op \in [Thread -> Making \cup Using \cup {"none"}]
  /\ key \in [Thread -> Id \cup {Malformed}]
  /\ own \in [Thread -> SUBSET (Classes \cup {"session"})]
  /\ ret \in [Thread -> {"none", "ok", "failed"}]
  /\ cause \in [Thread -> BOOLEAN]
  /\ used \subseteq Id /\ issued \subseteq Id /\ doomed \subseteq Id /\ gone \subseteq Id

(* A private key is never on the token without its public key, whatever    *)
(* call is refused and wherever the process dies: what tee_import_keypair  *)
(* or tee_delete_keypair leaves behind is at worst a public object, since  *)
(* one creates it first and the other destroys it last.                    *)
PrivateHasPublic ==
  \A i \in Id : <<i, "private">> \in token => <<i, "public">> \in token

(* A key whose blob the client was given has both its objects until a      *)
(* deletion of that key is asked for: no operation on another key, no      *)
(* failure and no restart loses it (tee_generate_keypair,                  *)
(* tee_import_keypair, tee_delete_keypair).                                *)
KeysKept == \A i \in issued \ doomed, c \in Classes : <<i, c>> \in token

(* When tee_delete_keypair has returned 0 nothing of the key is left on    *)
(* the token, and nothing of it comes back.                                *)
DeletedForGood == \A i \in gone, c \in Classes : <<i, c>> \notin token

(* An operation that has returned has no session, no search and no object  *)
(* handle open in the TEE, by whichever return it left                     *)
(* (~CryptoSession, ~ObjectHandle).                                        *)
NothingLeftOpen ==
  \A t \in Thread : at[t] = "idle" =>
    t \notin sessions \cup searching /\ \A c \in Classes : <<t, c>> \notin handles

(* The library is initialised only for a device that is open or being      *)
(* opened: an opening that fails half-way can be tried again (tee_open).   *)
LibraryHasOwner ==
  lib => dev \/ \E t \in Thread : at[t] \in {"get_info", "open_primary"}

(* Nothing is stranded in the TEE: neither an operation's nor an opening's *)
(* leavings, wherever it broke off.                                        *)
NothingStranded == NothingLeftOpen /\ LibraryHasOwner

(* An operation fails only if the TEE refused it a call it could have      *)
(* served, its blob was malformed, somebody asked for the key's deletion,  *)
(* or a refused subsession finalised the library under it, its own or      *)
(* another thread's (CryptoSession(), line 129).  Apart from that one, no  *)
(* other thread's work on other keys makes it fail: neither its session    *)
(* nor the objects behind the handles it found are lost to it, and the     *)
(* searches of find_single_object do not get in each other's way.          *)
FailsOnlyForCause ==
  \A t \in Thread : at[t] \in Closing /\ ret[t] = "failed" /\ ~ cause[t] =>
    ~ lib \/ (op[t] \in Using /\ key[t] \in doomed \cup {Malformed})

(* The stage of a key's life, read off what was drawn, given out, asked to *)
(* be deleted and reported deleted.                                        *)
Stage(i) ==
  IF i \in gone THEN "deleted" ELSE IF i \in doomed THEN "condemned"
  ELSE IF i \in issued THEN "given" ELSE IF i \in used THEN "making" ELSE "unborn"
Stages == [i \in Id |-> Stage(i)]

Life == INSTANCE KeyLife WITH stage <- Stages

(* The keys of every client live as KeyLife promises: each call of each    *)
(* operation is a step of one key's life or of none, whatever the TEE      *)
(* refuses, however the operations interleave and wherever the process     *)
(* dies.  Above all nothing of a key comes back once its deletion has      *)
(* begun (tee_generate_keypair, tee_import_keypair and tee_delete_keypair  *)
(* take no lock).                                                          *)
KeysLive == Life!Spec
===============================================================================
