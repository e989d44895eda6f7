-------------------------------- MODULE TlsGen --------------------------------
(***************************************************************************)
(* `kubergrunt tls gen` (src/tls/gencmd.go): a run makes a key pair, of a  *)
(* CA or signed by the CA that a Secret holds, and stores it as a Secret.  *)
(* Runs overlap, and operators import and delete Secrets beside them.  A   *)
(* key is named after the run that made it.                                *)
(***************************************************************************)
EXTENDS Functions

CONSTANTS Run, Name

None == "none"
Algorithm == {"ECDSA", "RSA"}

VARIABLES
    secrets,    \* the Secrets there are, by name
    request,    \* the options of a run
    step,       \* where a run is, or how it ended
    loaded,     \* the Secrets copied into workspaces, by run
    pair        \* the key pairs in workspaces, by run
vars == <<secrets, request, step, loaded, pair>>

External == "external"
Key == Run \cup {External}
Certificate == [key : Key, signer : Key]
Pair(key, signer, algorithm) ==
    [crt |-> [key |-> key, signer |-> signer], algorithm |-> algorithm]

(* A map with the entry x set to y, as by Go's m[x] = y, and one without.  *)
Empty == [x \in {} |-> x]
Put(f, x, y) == [z \in DOMAIN f \cup {x} |-> IF z = x THEN y ELSE f[z]]
Without(f, x) == Restrict(f, DOMAIN f \ {x})

(* --ca-secret-name (none: --ca), --secret-annotation, ...                 *)
Request ==
    [name : Name, ca : Name \cup {None}, algorithm : Algorithm,
     annotations : {Empty, Put(Empty, "algorithm", "RSA")}]
GenCA(p) == request[p].ca = None
FilenameBase(p) == IF GenCA(p) THEN "ca" ELSE "tls"

(* A CA of another origin, labelled well, wrongly, in part or not at all.  *)
Imported ==
    {[annotations |-> a, pairs |-> Put(Empty, "ca", Pair(External, External, "RSA")), trust |-> {}] :
        a \in {Empty, Put(Empty, "base", "ca")}
              \cup {Put(Put(Empty, "base", "ca"), "algorithm", alg) : alg \in Algorithm}}

Made(secret) == \E b \in DOMAIN secret.pairs : secret.pairs[b].crt.key \in Run

TypeOK ==
    /\ DOMAIN secrets \subseteq Name
    /\ \A n \in DOMAIN secrets :
          /\ DOMAIN secrets[n].annotations \subseteq {"base", "algorithm"}
          /\ \A b \in DOMAIN secrets[n].pairs :
                secrets[n].pairs[b] \in [crt : Certificate, algorithm : Algorithm]
          /\ secrets[n].trust \subseteq Certificate
    /\ request \in [Run -> Request]
    /\ step \in [Run -> {"start", "sign", "store", "ok", "error", "panicked"}]

Init ==
    /\ secrets = Empty
    /\ request \in [Run -> Request]
    /\ step = [p \in Run |-> "start"]
    /\ loaded = Empty
    /\ pair = Empty

Goto(p, s) == step' = [step EXCEPT ![p] = s]

(* However a run ends, its workspace is removed.                           *)
End(p, s) ==
    /\ Goto(p, s)
    /\ loaded' = Without(loaded, p)
    /\ pair' = Without(pair, p)

-----------------------------------------------------------------------------
(* The file that the annotation names; it may be missing.                  *)
HasPair(secret) ==
    "base" \in DOMAIN secret.annotations /\ secret.annotations["base"] \in DOMAIN secret.pairs
CAPair(secret) == secret.pairs[secret.annotations["base"]]
KnownAlgorithm(secret) ==
    "algorithm" \in DOMAIN secret.annotations /\ secret.annotations["algorithm"] \in Algorithm

generateCAKeyPair(p) ==
    /\ step[p] = "start" /\ GenCA(p)
    /\ pair' = Put(pair, p, Pair(p, p, request[p].algorithm))
    /\ Goto(p, "store")
    /\ UNCHANGED <<secrets, request, loaded>>

loadCAKeyPair(p) ==
    /\ step[p] = "start" /\ ~GenCA(p)
    /\ request[p].ca \in DOMAIN secrets
    /\ loaded' = Put(loaded, p, secrets[request[p].ca])
    /\ Goto(p, "sign")
    /\ UNCHANGED <<secrets, request, pair>>

(* A missing file decodes to no block, which is dereferenced; the error of *)
(* a key of the other algorithm is overwritten, and a nil key signs.       *)
Panics(secret) ==
    \/ ~HasPair(secret)
    \/ KnownAlgorithm(secret) /\ CAPair(secret).algorithm # secret.annotations["algorithm"]

generateSignedTLSKeyPair(p) ==
    /\ step[p] = "sign"
    /\ \/ Panics(loaded[p]) /\ End(p, "panicked")
       \/ ~Panics(loaded[p]) /\ ~KnownAlgorithm(loaded[p]) /\ End(p, "error")
       \/ /\ ~Panics(loaded[p]) /\ KnownAlgorithm(loaded[p])
          /\ pair' = Put(pair, p, Pair(p, CAPair(loaded[p]).crt.key, request[p].algorithm))
          /\ Goto(p, "store")
          /\ UNCHANGED loaded
    /\ UNCHANGED <<secrets, request>>

(* Mutant: the annotations that were asked for win. *)
Annotations_RequestedWin(p) ==
    LET own == Put(Put(Empty, "base", FilenameBase(p)), "algorithm", request[p].algorithm)
    IN  [x \in DOMAIN own |->
            IF x \in DOMAIN request[p].annotations THEN request[p].annotations[x] ELSE own[x]]
Annotations(p) ==
    Put(Put(request[p].annotations, "base", FilenameBase(p)), "algorithm", request[p].algorithm)

(* Mutant: ca.crt is read again from the Secret. *)
CACertificate_Reread(p) ==
    {CAPair(secrets[n]).crt : n \in {m \in DOMAIN secrets \cap {request[p].ca} : HasPair(secrets[m])}}
CACertificate(p) == IF GenCA(p) THEN {} ELSE {CAPair(loaded[p]).crt}

NewSecret(p) ==
    [annotations |-> Annotations(p), pairs |-> Put(Empty, FilenameBase(p), pair[p]), trust |-> CACertificate(p)]

Absent(p) == request[p].name \notin DOMAIN secrets

(* The answer to a creation that took effect may be lost.                  *)
StoreCertificateKeyPairAsKubernetesSecret(p) ==
    /\ step[p] = "store" /\ Absent(p)
    /\ secrets' = Put(secrets, request[p].name, NewSecret(p))
    /\ \E s \in {"ok", "error"} : End(p, s)
    /\ UNCHANGED request

(* No CA Secret, a Secret that exists, an API or a disk error.             *)
Fails(p) ==
    /\ step[p] \in {"start", "sign", "store"}
    /\ End(p, "error")
    /\ UNCHANGED <<secrets, request>>

GenerateAndStoreAsK8SSecret(p) ==
    \/ generateCAKeyPair(p)
    \/ loadCAKeyPair(p)
    \/ generateSignedTLSKeyPair(p)
    \/ StoreCertificateKeyPairAsKubernetesSecret(p)
    \/ Fails(p)

ImportSecret(n) ==
    /\ n \notin DOMAIN secrets
    /\ \E secret \in Imported : secrets' = Put(secrets, n, secret)
    /\ UNCHANGED <<request, step, loaded, pair>>

DeleteSecret(n) ==
    /\ n \in DOMAIN secrets
    /\ secrets' = Without(secrets, n)
    /\ UNCHANGED <<request, step, loaded, pair>>

Next ==
    \/ \E p \in Run : GenerateAndStoreAsK8SSecret(p)
    \/ \E n \in Name : ImportSecret(n) \/ DeleteSecret(n)

Spec == Init /\ [][Next]_vars

-----------------------------------------------------------------------------
(* The certificate of a signed pair verifies against the ca.crt stored     *)
(* with it, also when the CA was replaced while the run was under way      *)
(* (gencmd_test.go:83, "validate we can verify the signature").            *)
ChainVerifies ==
    \A n \in DOMAIN secrets : "tls" \in DOMAIN secrets[n].pairs =>
        \E ca \in secrets[n].trust : ca.key = secrets[n].pairs["tls"].crt.signer

(* Only a Secret of another origin makes a run panic: whatever annotations *)
(* were asked for, a pair stored by `tls gen` can be loaded and can sign   *)
(* ("assumes the CA key pair was created using the `tls gen` command",     *)
(* gencmd.go:167-169).                                                     *)
OwnSecretsSign ==
    [][\A p \in Run : step[p] = "sign" /\ step'[p] = "panicked" => ~Made(loaded[p])]_vars
=============================================================================
