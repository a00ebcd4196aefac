------------------------------ MODULE Signing ------------------------------
(***************************************************************************)
(* Openssl_digest_sign, calculate_hmac_base64, pkey_from_file and digest   *)
(* (src/imp/crypto): the resources of OpenSSL they hold and the signature  *)
(* they make.                                                              *)
(*                                                                         *)
(* A signer lives in one scope of one thread: it is constructed, updated,  *)
(* finished and read, and destroyed when the scope ends, be it by an       *)
(* exception.  The key is read from a file before, and may be released     *)
(* while the signer lives: its context has a reference of its own; digests *)
(* are made at any time, on other threads as well.  Any call of OpenSSL    *)
(* may fail.  The memory is that of the process: what is not freed stays.  *)
(***************************************************************************)
EXTENDS Naturals, Sequences

CONSTANTS
    Chunk,         \* what update is given
    Key,           \* private keys
    MaxLength,     \* the signature length OpenSSL announces for a key
    MinLength,     \* the shortest signature a key may give
    Asserts,       \* the build keeps assert (NDEBUG is not defined)
    MaxChunks,     \* bound on the updates of one signer
    MaxFailures,   \* bound on the failures that lose memory
    None           \* no buffer, no result

ASSUME SigningAssumption ==
    /\ MaxLength \in [Key -> Nat] /\ MinLength \in [Key -> Nat]
    /\ \A k \in Key : 0 < MinLength[k] /\ MinLength[k] <= MaxLength[k]
    /\ Asserts \in BOOLEAN
    /\ {MaxChunks, MaxFailures} \subseteq Nat

(* None is none of the things it stands for the absence of. *)
Signed == [data : Seq(Chunk), length : Nat]

ASSUME NoneAssumption ==
    /\ None \notin Key
    /\ None \notin Signed
    /\ None \notin [size : Nat, signed : Signed \cup {None}]

VARIABLES
    state,      \* "none", "open", "unwinding" after an exception, "aborted"
    scope,      \* who owns the signer: "caller" or calculate_"hmac"_base64
    key,        \* the key of the signer
    fed,        \* what m_ctx has hashed
    given,      \* history: what the caller passed to update
    finished,   \* m_finished
    length,     \* m_result_length
    signature,  \* m_signresult: None, or a buffer with what was written to it
    obtained,   \* what the caller got last from get_result
    contexts,   \* EVP_MD_CTX allocated in the process
    buffers,    \* signature buffers allocated in the process
    lost,       \* history: failures that could not free a context
    held,       \* the key a caller has from pkey_from_file, or None
    loading,    \* pkey_from_file: "no", "open", "read" or "failed"
    files,      \* FILE open in the process
    keys        \* EVP_PKEY of pkey_from_file not yet freed

signerVars == <<state, scope, key, fed, given, finished, length, signature, obtained,
                contexts, buffers, lost>>
keyVars == <<held, loading, files, keys>>
vars == <<signerVars, keyVars>>

Init ==
    /\ state = "none"
    /\ scope = "caller" /\ key \in Key
    /\ fed = <<>> /\ given = <<>>
    /\ finished = FALSE
    /\ length = 0
    /\ signature = None
    /\ obtained = None
    /\ contexts = 0 /\ buffers = 0
    /\ lost = 0
    /\ held = None /\ loading = "no" /\ files = 0 /\ keys = 0

(***************************************************************************)
(* pkey_from_file.  The file and the key are unique_ptr: both go when the  *)
(* scope ends, the key only if it is not returned.                         *)
(***************************************************************************)
OpenKeyFile ==
    /\ loading = "no" /\ held = None
    /\ loading' = "open"
    /\ files' = files + 1
    /\ UNCHANGED <<signerVars, held, keys>>

(* Not a key, or an encrypted one: the password is empty, and nullptr makes
   OpenSSL ask the terminal for one. *)
ReadKey == \E k \in Key :
    /\ loading = "open"
    /\ loading' = "read"
    /\ held' = k
    /\ keys' = keys + 1
    /\ UNCHANGED <<signerVars, files>>

ReadKeyFails ==
    /\ loading = "open"
    /\ loading' = "failed"
    /\ UNCHANGED <<signerVars, held, files, keys>>

(* Mutant: fclose only behind the last statement. *)
CloseAfterKey ==
    /\ loading \in {"read", "failed"}
    /\ loading' = "no"
    /\ files' = IF loading = "read" THEN files - 1 ELSE files
    /\ UNCHANGED <<signerVars, held, keys>>

LeaveLoading ==
    /\ loading \in {"read", "failed"}
    /\ loading' = "no"
    /\ files' = files - 1
    /\ UNCHANGED <<signerVars, held, keys>>

ReleaseKey ==
    /\ held # None /\ loading = "no"
    /\ held' = None
    /\ keys' = keys - 1
    /\ UNCHANGED <<signerVars, loading, files>>

(***************************************************************************)
(* The signer.  The asserts on m_finished state an order of calls: update,  *)
(* then finish once, then get_result.  It is the caller's duty, which every *)
(* caller in the repository keeps, and a guard here in both kinds of build: *)
(* what a build without asserts does with other calls is not modelled.     *)
(***************************************************************************)
(* A constructor that throws runs no destructor: the context it has made
   by then stays allocated. *)
Construct == \E k \in Key, failing \in {"no", "key", "create", "md", "init"} :
    /\ state = "none" /\ loading = "no"
    /\ IF held = None THEN failing = "key" ELSE k = held /\ failing # "key"
    /\ failing \in {"md", "init"} => lost < MaxFailures
    /\ scope' \in IF held = None THEN {"caller"} ELSE {"caller", "hmac"}
    /\ key' = k
    /\ state' = IF failing = "no" THEN "open" ELSE "none"
    /\ contexts' = IF failing \in {"key", "create"} THEN contexts ELSE contexts + 1
    /\ lost' = IF failing \in {"md", "init"} THEN lost + 1 ELSE lost
    /\ fed' = <<>> /\ given' = <<>>
    /\ finished' = FALSE
    /\ length' = 0
    /\ signature' = None
    /\ obtained' = None
    /\ UNCHANGED <<buffers, keyVars>>

Update == \E c \in Chunk, fails \in BOOLEAN :
    /\ state = "open"
    /\ ~finished
    /\ Len(given) < IF scope = "hmac" THEN 1 ELSE MaxChunks
    /\ given' = Append(given, c)
    /\ fed' = IF fails THEN fed ELSE Append(fed, c)
    /\ state' = IF fails THEN "unwinding" ELSE "open"
    /\ UNCHANGED <<scope, key, finished, length, signature, obtained, contexts,
                   buffers, lost, keyVars>>

(* calculate_hmac_base64 updates once, with all of its string, gets the result
   once, and leaves. *)
HmacUpdated == scope = "hmac" => given # <<>>
HmacDone == (scope = "hmac" /\ state = "open") => obtained # None

(* The length is asked for first, which gives the largest possible one;
   the second call writes the signature and its true length. *)
FinishFails == \E failing \in {"length", "malloc", "final"} :
    /\ state = "open" /\ HmacUpdated
    /\ ~finished
    /\ finished' = TRUE
    /\ length' = IF failing = "length" THEN length ELSE MaxLength[key]
    /\ signature' = IF failing = "final" THEN [size |-> MaxLength[key], signed |-> None]
                    ELSE signature
    /\ buffers' = IF failing = "final" THEN buffers + 1 ELSE buffers
    /\ state' = "unwinding"
    /\ UNCHANGED <<scope, key, fed, given, obtained, contexts, lost, keyVars>>

(* Mutant: the announced length is kept. *)
AnnouncedLength(n) == MaxLength[key]

ResultLength(n) == n

Finish == \E n \in MinLength[key]..MaxLength[key] :
    /\ state = "open" /\ HmacUpdated
    /\ ~finished
    /\ finished' = TRUE
    /\ length' = ResultLength(n)
    /\ signature' = [size |-> MaxLength[key], signed |-> [data |-> fed, length |-> n]]
    /\ buffers' = buffers + 1
    /\ state' = IF Asserts /\ n # MaxLength[key] THEN "aborted" ELSE "open"
    /\ UNCHANGED <<scope, key, fed, given, obtained, contexts, lost, keyVars>>

(* The first m_result_length bytes of the buffer. *)
GetResult ==
    /\ state = "open"
    /\ finished
    /\ obtained' = [bytes |-> length, signed |-> signature.signed]
    /\ UNCHANGED <<state, scope, key, fed, given, finished, length, signature, contexts,
                   buffers, lost, keyVars>>

(* Mutant: only the context is freed, and only after a result. *)
DestroyLazily ==
    /\ state \in {"open", "unwinding"} /\ HmacDone
    /\ contexts' = IF state = "open" THEN contexts - 1 ELSE contexts
    /\ buffers' = IF signature # None THEN buffers - 1 ELSE buffers
    /\ state' = "none"
    /\ UNCHANGED <<scope, key, fed, given, finished, length, signature, obtained, lost, keyVars>>

(* The scope of the signer ends. *)
Destroy ==
    /\ state \in {"open", "unwinding"} /\ HmacDone
    /\ contexts' = contexts - 1
    /\ buffers' = IF signature # None THEN buffers - 1 ELSE buffers
    /\ state' = "none"
    /\ UNCHANGED <<scope, key, fed, given, finished, length, signature, obtained, lost, keyVars>>

(***************************************************************************)
(* digest: the context is destroyed on the way out of a successful call    *)
(* only.                                                                   *)
(***************************************************************************)
Digest == \E failing \in {"no", "create", "md", "init", "update", "final"} :
    /\ state # "aborted"
    /\ failing \notin {"no", "create"} => lost < MaxFailures
    /\ contexts' = IF failing \in {"no", "create"} THEN contexts ELSE contexts + 1
    /\ lost' = IF failing \in {"no", "create"} THEN lost ELSE lost + 1
    /\ UNCHANGED <<state, scope, key, fed, given, finished, length, signature, obtained, buffers,
                   keyVars>>

Next ==
    \/ OpenKeyFile \/ ReadKey \/ ReadKeyFails \/ LeaveLoading \/ ReleaseKey
    \/ Construct \/ Update \/ FinishFails \/ Finish \/ GetResult \/ Destroy \/ Digest

Spec == Init /\ [][Next]_vars

(***************************************************************************)
(* Properties.                                                             *)
(***************************************************************************)
(* A signature handed out covers everything the caller passed to update, in
   order and once, and is as long as OpenSSL made it: no byte of the buffer
   beyond the signature is sent along (finish, get_result). *)
SignatureOfAllGiven ==
    obtained # None =>
        /\ obtained.signed # None
        /\ obtained.signed.data = given
        /\ obtained.bytes = obtained.signed.length

(* Outside a signer's life the process holds no signature buffer, and one
   context for every failure inside a constructor or digest, none for any
   other failure (~Openssl_digest_sign, digest). *)
MemoryAccountedFor ==
    /\ contexts = lost + (IF state = "none" THEN 0 ELSE 1)
    /\ state = "none" => buffers = 0

(* Once pkey_from_file has returned or thrown, its file is closed, and the
   process holds the key the caller was given and no other: a file that is
   no key, or a password that is missing, leaves nothing behind. *)
KeyAccountedFor ==
    /\ loading = "no" => files = 0
    /\ keys = IF held = None THEN 0 ELSE 1

(* assert(m_result_length == vlen) at the end of finish holds. *)
AssertionHolds == state # "aborted"
=============================================================================
