------------------------------- MODULE KeyMemory ------------------------------
(***************************************************************************)
(* Who owns what in the keymaster HAL (keymaster/keymaster_grouper.cpp).   *)
(* An operation keeps its OpenSSL structures and byte arrays in scoped     *)
(* pointers: whichever return it leaves by, their destructors run in the   *)
(* reverse order of construction.  Some objects outlive their pointer: an  *)
(* RSA passes to the EVP_PKEY it is assigned to, a result to the client.   *)
(*                                                                         *)
(* What the calls do to the token is in Keymaster; here a call of the TEE  *)
(* or of OpenSSL succeeds or fails.  Objects live on the stack or on the   *)
(* heap; of a key's numbers only the lengths matter.  `new' does not fail. *)
(***************************************************************************)
EXTENDS Integers, Sequences, SequencesExt

CONSTANTS
    Actual,     \* the lengths of a key's modulus and exponent, by name
    Slack,      \* by how much the TEE may overstate a length
    MaxResults  \* results given to the client in all (bound)

ASSUME KeyMemoryAssumption ==
  /\ Actual \in [{"modulus", "exponent"} -> Nat] /\ Slack \subseteq Nat
  /\ MaxResults \in Nat

Number == {"modulus", "exponent"}
Crt    == <<"prime1", "prime2", "exp1", "exp2", "coeff">>
Heap   == {"pkcs8", "pkey", "rsa", "objId", "privateExponent", "privateKeyTemplate",
           "wrapper", "blob", "key", "finalSignature"} \cup Number \cup ToSet(Crt)
Result == {"blob", "key", "finalSignature"}     \* what a client is given

PRIV_ATTRIB_NORMAL_NUM   == 4 + 2 + 3
PRIV_ATTRIB_EXTENDED_NUM == PRIV_ATTRIB_NORMAL_NUM + 5

VARIABLES
    refs,       \* references to each object of the heap
    scope,      \* the running call's scoped pointers, oldest first
    inside,     \* the EVP_PKEY holds a reference to the RSA
    path,       \* what the running call still has to do, in order
    attrs,      \* what each attribute of privateKeyTemplate points to
    slots,      \* how many attributes it has room for
    ulValueLen, \* the lengths the TEE reports
    bytes,      \* tee_get_keypair_public's two ByteArrays
    given,      \* results the client has and has not freed
    results,    \* how many it has been given
    died        \* the process has gone through a null pointer

call    == <<scope, inside, path, attrs, slots, ulValueLen, bytes>>
keyVars == <<refs, call, given, results, died>>

-------------------------------------------------------------------------------
(* ByteArray: a buffer and the length it is said to have.                  *)
ByteArray(len) == [mLength |-> len, room |-> len]

(* Mutant: the length found first is kept. *)
setLength_Kept(array, length) == array

setLength(array, length) == [array EXCEPT !.mLength = length]

(* What the operations do, step by step.                                   *)
tee_generate_keypair == <<"objId", "C_GenerateKeyPair", "blob">>

tee_import_keypair(has_extra_data) ==
  <<"pkcs8", "pkey", "get1_RSA", "modulus", "exponent", "objId", "C_CreateObject",
    "privateExponent", IF has_extra_data THEN "extended" ELSE "normal">>
  \o (IF has_extra_data THEN Crt ELSE <<>>) \o <<"C_CreatePrivate", "blob">>

tee_get_keypair_public ==
  <<"sizes", "values", "RSA_new", "BN_bin2bn_n", "BN_bin2bn_e", "pkey_new",
    "assign_RSA", "i2d_length", "key", "i2d">>

tee_sign_data == <<"C_SignInit", "C_Sign", "finalSignature">>

NoCall == path = <<>> /\ scope = <<>>

KeyInit ==
  /\ refs = [o \in Heap |-> 0]
  /\ scope = <<>> /\ inside = FALSE /\ path = <<>>
  /\ attrs = <<>> /\ slots = 0
  /\ ulValueLen = [n \in Number |-> 0] /\ bytes = [n \in Number |-> ByteArray(0)]
  /\ given = {} /\ results = 0 /\ died = FALSE

Begin(steps) ==
  /\ NoCall /\ results < MaxResults /\ given = {}
  /\ path' = steps
  /\ attrs' = <<>> /\ slots' = 0 /\ inside' = FALSE
  /\ UNCHANGED <<refs, scope, ulValueLen, bytes, given, results, died>>

-------------------------------------------------------------------------------
(* A scoped pointer is constructed for a new reference.                    *)
Own(o) == scope' = Append(scope, o) /\ refs' = [refs EXCEPT ![o] = @ + 1]

Done == path' = Tail(path)

At(s) == path # <<>> /\ Head(path) = s

(* Objects that nothing else is told of.                                   *)
Allocate(o) ==
  /\ At(o) /\ Own(o) /\ Done
  /\ UNCHANGED <<inside, attrs, slots, ulValueLen, bytes, given, results, died>>

(* bignum_to_array: a ByteArray as long as the number.                     *)
bignum_to_array(o) ==
  /\ o \in Number \cup {"privateExponent"}
  /\ Allocate(o)

(* EVP_PKCS82PKEY makes an EVP_PKEY with an RSA in it; get1 counts another *)
(* reference to that RSA; RSA_new and EVP_PKEY_new make empty ones.        *)
EvpKey ==
  /\ \/ /\ At("pkey")
        /\ scope' = Append(scope, "pkey")
        /\ refs' = [refs EXCEPT !["pkey"] = @ + 1, !["rsa"] = @ + 1]
        /\ inside' = TRUE
     \/ At("get1_RSA") /\ Own("rsa") /\ UNCHANGED inside
     \/ At("RSA_new") /\ Own("rsa") /\ UNCHANGED inside
     \/ At("pkey_new") /\ Own("pkey") /\ UNCHANGED inside
  /\ Done
  /\ UNCHANGED <<attrs, slots, ulValueLen, bytes, given, results, died>>

(* Mutant: the scoped pointer keeps the RSA that was assigned. *)
OWNERSHIP_TRANSFERRED_Kept(o) == UNCHANGED scope

(* The scoped pointer lets go of what somebody else now owns.              *)
OWNERSHIP_TRANSFERRED(o) == \E i \in DOMAIN scope : scope[i] = o /\ scope' = RemoveAt(scope, i)

(* EVP_PKEY_assign_RSA: the EVP_PKEY takes the caller's reference.         *)
AssignRsa ==
  /\ At("assign_RSA")
  /\ inside' = TRUE
  /\ OWNERSHIP_TRANSFERRED("rsa")
  /\ Done
  /\ UNCHANGED <<refs, attrs, slots, ulValueLen, bytes, given, results, died>>

(* set_attribute fills in the next attribute of the private key's          *)
(* template: nine of them, four of which point to arrays of this call.     *)
set_attribute(list, value) == Append(list, value)

PrivateKeyTemplate ==
  /\ \E s \in {"normal", "extended"} :
       /\ At(s)
       /\ slots' = IF s = "extended" THEN PRIV_ATTRIB_EXTENDED_NUM ELSE PRIV_ATTRIB_NORMAL_NUM
  /\ Own("privateKeyTemplate")
  /\ attrs' = <<"objId", "stack", "stack", "stack", "stack", "stack", "modulus", "exponent",
                "privateExponent">>
  /\ Done
  /\ UNCHANGED <<inside, ulValueLen, bytes, given, results, died>>

(* Mutant: the numbers' pointers belong to the block that fills them in. *)
ExtraData_Block(o) ==
  /\ At(o) /\ o \in ToSet(Crt)
  /\ attrs' = set_attribute(attrs, o)
  /\ IF o = "coeff" THEN /\ refs' = [p \in Heap |-> IF p \in ToSet(Crt) THEN 0 ELSE refs[p]]
                         /\ scope' = SelectSeq(scope, LAMBDA p : p \notin ToSet(Crt))
     ELSE Own(o)
  /\ Done
  /\ UNCHANGED <<inside, slots, ulValueLen, bytes, given, results, died>>

(* The pointers of the extra numbers are declared before the block that    *)
(* fills them in, and outlive it.                                          *)
ExtraData(o) ==
  /\ At(o) /\ o \in ToSet(Crt)
  /\ Own(o)
  /\ attrs' = set_attribute(attrs, o)
  /\ Done
  /\ UNCHANGED <<inside, slots, ulValueLen, bytes, given, results, died>>

(* Calls that allocate nothing.                                            *)
Call(s) ==
  /\ At(s)
  /\ s \in {"C_GenerateKeyPair", "C_CreateObject", "C_CreatePrivate", "BN_bin2bn_n",
            "BN_bin2bn_e", "i2d_length", "C_SignInit", "C_Sign"}
  /\ Done
  /\ UNCHANGED <<refs, scope, inside, attrs, slots, ulValueLen, bytes, given, results, died>>

(* C_GetAttributeValue: the first call tells the lengths, which may be too *)
(* large, and the arrays are made for them; the second fills them in and   *)
(* tells the lengths as they are.                                          *)
C_GetAttributeValue ==
  \/ /\ At("sizes")
     /\ \E more \in [Number -> Slack] :
          ulValueLen' = [n \in Number |-> Actual[n] + more[n]]
     /\ bytes' = [n \in Number |-> ByteArray(ulValueLen'[n])]
     /\ scope' = scope \o <<"modulus", "exponent">>
     /\ refs' = [o \in Heap |-> IF o \in Number THEN refs[o] + 1 ELSE refs[o]]
     /\ Done
     /\ UNCHANGED <<inside, attrs, slots, given, results, died>>
  \/ /\ At("values")
     /\ ulValueLen' = Actual
     /\ bytes' = [n \in Number |-> setLength(bytes[n], ulValueLen'[n])]
     /\ Done
     /\ UNCHANGED <<refs, scope, inside, attrs, slots, given, results, died>>

(* A result is released to the client, and the call returns 0.  The blob   *)
(* is a ByteArray's buffer: release() gives up the ByteArray itself, which *)
(* nobody frees.                                                           *)
Hand(o) ==
  /\ given' = given \cup {o} /\ results' = results + 1

keyblob_save ==
  /\ At("blob")
  /\ refs' = [refs EXCEPT !["blob"] = @ + 1, !["wrapper"] = @ + 1]
  /\ Hand("blob") /\ Done
  /\ UNCHANGED <<scope, inside, attrs, slots, ulValueLen, bytes, died>>

Signature ==
  /\ At("finalSignature")
  /\ refs' = [refs EXCEPT !["finalSignature"] = @ + 1]
  /\ Hand("finalSignature") /\ Done
  /\ UNCHANGED <<scope, inside, attrs, slots, ulValueLen, bytes, died>>

PublicKey ==
  /\ At("i2d")
  /\ OWNERSHIP_TRANSFERRED("key")
  /\ Hand("key") /\ Done
  /\ UNCHANGED <<refs, inside, attrs, slots, ulValueLen, bytes, died>>

(* The call returns -1: something failed that is looked at.  The extra     *)
(* numbers are looked at through the pointer that would be null.           *)
CanFail(s) == s \notin {"normal", "extended", "blob", "finalSignature"}

Fail ==
  /\ path # <<>> /\ CanFail(Head(path))
  /\ path' = <<>>
  /\ died' = (Head(path) \in ToSet(Crt))
  /\ UNCHANGED <<refs, scope, inside, attrs, slots, ulValueLen, bytes, given, results>>

-------------------------------------------------------------------------------
(* Mutant: an EVP_PKEY keeps the RSA in it alive. *)
EVP_PKEY_free_Shell == {"pkey"}

(* The references that go when a scoped pointer's object is freed.         *)
EVP_PKEY_free == IF inside THEN {"pkey", "rsa"} ELSE {"pkey"}

Delete(o) == IF o = "pkey" THEN EVP_PKEY_free ELSE {o}

(* The destructors, one after the other.                                   *)
Destroy ==
  /\ path = <<>> /\ scope # <<>>
  /\ refs' = [o \in Heap |-> IF o \in Delete(Last(scope)) THEN refs[o] - 1 ELSE refs[o]]
  /\ scope' = Front(scope)
  /\ UNCHANGED <<inside, path, attrs, slots, ulValueLen, bytes, given, results, died>>

(* The client frees a result.                                              *)
ClientFrees(o) ==
  /\ NoCall /\ o \in given
  /\ given' = given \ {o}
  /\ refs' = [refs EXCEPT ![o] = @ - 1]
  /\ UNCHANGED <<call, results, died>>

KeyNext ==
  /\ ~ died
  /\ \/ Begin(tee_generate_keypair) \/ Begin(tee_get_keypair_public) \/ Begin(tee_sign_data)
     \/ \E has_extra_data \in BOOLEAN : Begin(tee_import_keypair(has_extra_data))
     \/ \E o \in {"pkcs8", "objId", "key"} : Allocate(o)
     \/ \E o \in Heap : bignum_to_array(o) \/ ExtraData(o)
     \/ EvpKey \/ AssignRsa \/ PrivateKeyTemplate \/ C_GetAttributeValue
     \/ path # <<>> /\ Call(Head(path))
     \/ keyblob_save \/ Signature \/ PublicKey
     \/ Fail \/ Destroy \/ \E o \in Result : ClientFrees(o)

-------------------------------------------------------------------------------
(* Types of this module.                                                   *)
KeyTypeOK ==
  /\ refs \in [Heap -> Int]
  /\ scope \in Seq(Heap) /\ inside \in BOOLEAN
  /\ attrs \in Seq(Heap \cup {"stack"})
  /\ slots \in {0, PRIV_ATTRIB_NORMAL_NUM, PRIV_ATTRIB_EXTENDED_NUM}
  /\ ulValueLen \in [Number -> Nat]
  /\ bytes \in [Number -> [mLength : Nat, room : Nat]]
  /\ given \subseteq Result /\ results \in 0 .. MaxResults
  /\ died \in BOOLEAN

(* Nothing is freed twice, by whichever return a call leaves: not the RSA  *)
(* that two structures point to, nor the result the client has             *)
(* (OWNERSHIP_TRANSFERRED, the UniquePtr deleters).                        *)
FreedOnce == \A o \in Heap : refs[o] >= 0

(* A call that has returned leaves nothing on the heap but what the client *)
(* was given, and the ByteArray around each blob, which keyblob_save gives *)
(* up with the blob.                                                       *)
NothingLost ==
  NoCall /\ ~ died => \A o \in Heap \ {"wrapper"} : refs[o] = IF o \in given THEN 1 ELSE 0

(* The template that tee_import_keypair passes to the TEE is full, never   *)
(* written past its end, and points to nothing that was freed.             *)
TemplateSound ==
  /\ Len(attrs) <= slots
  /\ At("C_CreatePrivate") =>
       Len(attrs) = slots /\ \A v \in ToSet(attrs) : v = "stack" \/ refs[v] > 0

(* The public key that tee_get_keypair_public builds has the lengths of    *)
(* the key, though the TEE overstates them when it is first asked, and is  *)
(* read within its buffers.                                                *)
LengthsTrue ==
  At("BN_bin2bn_n") \/ At("BN_bin2bn_e") =>
    \A n \in Number : bytes[n].mLength = Actual[n] /\ bytes[n].mLength <= bytes[n].room

(* By whichever return a call leaves, what it took from the heap is freed  *)
(* once or handed over, and what the TEE and OpenSSL are given is whole.   *)
MemorySound == FreedOnce /\ NothingLost /\ TemplateSound /\ LengthsTrue
===============================================================================
