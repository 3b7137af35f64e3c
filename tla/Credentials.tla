---------------------------- MODULE Credentials -----------------------------
(***************************************************************************)
(* The connector credentials of one workspace: storage/credentials.py over *)
(* the versioned keyring of security/secrets.py.  A ciphertext is named by *)
(* the secret in it and the key version it was sealed under, the version   *)
(* being part of its authenticated data.  The API runs in one process:     *)
(* configuring the keyring restarts it.  Workers only resolve.  The        *)
(* operator follows docs/SECRET_HANDLING.md.                               *)
(***************************************************************************)
EXTENDS ApiRequests, Naturals, FiniteSets

CONSTANTS
  Credentials, Names,
  MaxSecret,  \* bound on the secrets that are given
  MaxKey      \* bound on key versions

ASSUME CredentialsAssumption ==
  /\ MaxSecret \in Nat \ {0} /\ MaxKey \in Nat \ {0}
  /\ None \notin Credentials \cup Names

VARIABLES
  row,         \* connector_credentials: None or the row
  keys,        \* the keyring's versions; the active one is the largest
  use,         \* what a database session has read and not yet committed
  latest,      \* history: credential -> the secret committed last
  given,       \* history: the number of secrets given
  overlapped   \* history: credentials whose secret changed under a rotation

credentialHistory == <<latest, given, overlapped>>
credentialVars == <<row, keys, use, credentialHistory>>

NoUse == [op |-> "idle"]
Secret == 1..MaxSecret
KeyVersion == 1..MaxKey
Sealed == [secret : Secret, under : KeyVersion]
Row == [name : Names, cipher : Sealed, keyVersion : KeyVersion]

\* Rows have their types and distinct names; the keyring is never empty.
CredentialTypeOK ==
  /\ \A c \in Credentials : row[c] = None \/ row[c] \in Row
  /\ \A c, d \in Credentials : c # d /\ row[c] # None /\ row[d] # None => row[c].name # row[d].name
  /\ keys # {} /\ keys \subseteq KeyVersion
  /\ \A r \in Requests : use[r].op \in {"idle", "create", "replace", "rotate", "resolve"}
  /\ given \in 0..MaxSecret /\ overlapped \subseteq Credentials

CredentialInit ==
  /\ row = [c \in Credentials |-> None]
  /\ keys = {1}
  /\ use = [r \in Requests |-> NoUse]
  /\ latest = [c \in Credentials |-> None] /\ given = 0 /\ overlapped = {}

UseTo(r, local) == use' = [use EXCEPT ![r] = local]
UseDone(r) == UseTo(r, NoUse)

Active == CHOOSE k \in keys : \A j \in keys : j =< k
Encrypt(secret) == [secret |-> secret, under |-> Active]

\* decrypt: the key is that of the recorded version, which the ciphertext authenticates.
Decrypts(read) == read.keyVersion \in keys /\ read.cipher.under = read.keyVersion

NameTaken(n, c) == \E d \in Credentials \ {c} : row[d] # None /\ row[d].name = n

\* Mutant: there is no unique constraint, only the check that the code makes before.
NoConstraint(n, c) == FALSE

\* The unique constraint on workspace and name.
Conflicts(n, c) == NameTaken(n, c)

\* An UPDATE writes the columns that differ from what the session read; a row that another
\* session has deleted is not there to be updated.
Updated(c, read, new) ==
  [row EXCEPT ![c] = [f \in DOMAIN new |-> IF new[f] = read[f] THEN @[f] ELSE new[f]]]

-----------------------------------------------------------------------------

\* create up to its commit; the name is checked, and the unique constraint checks it again.
CreateRead(r, c, n) ==
  /\ use[r] = NoUse /\ given < MaxSecret
  /\ row[c] = None /\ latest[c] = None /\ ~NameTaken(n, c)
  /\ given' = given + 1
  /\ UseTo(r, [op |-> "create", id |-> c, name |-> n, secret |-> given'])
  /\ UNCHANGED <<row, keys, latest, overlapped>>

CreateCommit(r) ==
  LET c == use[r] IN
  /\ c.op = "create"
  /\ IF row[c.id] # None \/ latest[c.id] # None \/ Conflicts(c.name, c.id) THEN UNCHANGED <<row, latest>>
     ELSE /\ row' = [row EXCEPT ![c.id] = [name |-> c.name, cipher |-> Encrypt(c.secret), keyVersion |-> Active]]
          /\ latest' = [latest EXCEPT ![c.id] = c.secret]
  /\ UseDone(r)
  /\ UNCHANGED <<keys, given, overlapped>>

\* replace: a new secret, and a new name if it is free.
ReplaceRead(r, c, n) ==
  /\ use[r] = NoUse /\ given < MaxSecret
  /\ row[c] # None /\ (n # row[c].name => ~NameTaken(n, c))
  /\ given' = given + 1
  /\ UseTo(r, [op |-> "replace", id |-> c, read |-> row[c],
              new |-> [name |-> n, cipher |-> Encrypt(given'), keyVersion |-> Active]])
  /\ UNCHANGED <<row, keys, latest, overlapped>>

ReplaceCommit(r) ==
  LET c == use[r] IN
  /\ c.op = "replace"
  /\ IF row[c.id] = None \/ (c.new.name # c.read.name /\ Conflicts(c.new.name, c.id))
     THEN UNCHANGED <<row, latest>>
     ELSE /\ row' = Updated(c.id, c.read, c.new)
          /\ latest' = [latest EXCEPT ![c.id] = c.new.cipher.secret]
  /\ UseDone(r)
  /\ UNCHANGED <<keys, given, overlapped>>

\* rotate_encryption: the secret is decrypted and sealed again under the active version.
RotateRead(r, c) ==
  /\ use[r] = NoUse
  /\ row[c] # None /\ Decrypts(row[c])
  /\ UseTo(r, [op |-> "rotate", id |-> c, read |-> row[c],
              new |-> [name |-> row[c].name, cipher |-> Encrypt(row[c].cipher.secret), keyVersion |-> Active]])
  /\ UNCHANGED <<row, keys, credentialHistory>>

\* The nonce is fresh, so ciphertext and nonce always differ from what was read.
Resealed(c, read, new) == [Updated(c, read, new) EXCEPT ![c].cipher = new.cipher]

RotateCommit(r) ==
  LET c == use[r] IN
  /\ c.op = "rotate"
  /\ IF row[c.id] = None THEN UNCHANGED <<row, overlapped>>
     ELSE /\ row' = Resealed(c.id, c.read, c.new)
          /\ overlapped' = IF row[c.id].cipher.secret = c.read.cipher.secret THEN overlapped
                           ELSE overlapped \cup {c.id}
  /\ UseDone(r)
  /\ UNCHANGED <<keys, latest, given>>

\* resolve_for_use, by the API or a worker: only last_used_at (not modelled) is written.
ResolveForUse(r, c) ==
  /\ use[r] = NoUse
  /\ row[c] # None /\ Decrypts(row[c])
  /\ UseTo(r, [op |-> "resolve", id |-> c, read |-> row[c]])
  /\ UNCHANGED <<row, keys, credentialHistory>>

\* Mutant: the row is written back as it was read.
WrittenBack(c, read) == [row EXCEPT ![c] = read]

MarkedUsed(c, read) == Updated(c, read, read)

ResolveCommit(r) ==
  LET c == use[r] IN
  /\ c.op = "resolve"
  /\ row' = IF row[c.id] = None THEN row ELSE MarkedUsed(c.id, c.read)
  /\ UseDone(r)
  /\ UNCHANGED <<keys, credentialHistory>>

\* The identity of a deleted credential is not given again.
Delete(c) ==
  /\ row[c] # None
  /\ row' = [row EXCEPT ![c] = None]
  /\ UNCHANGED <<keys, use, credentialHistory>>

\* The operator adds a key version and makes it active, or removes the retired ones once no
\* credential references them.  The API is restarted: its requests are gone.
AddKey ==
  /\ Active < MaxKey
  /\ keys' = keys \cup {Active + 1}
  /\ use' = [r \in Requests |-> NoUse]
  /\ UNCHANGED <<row, credentialHistory>>

RetireKeys ==
  /\ keys # {Active}
  /\ \A c \in Credentials : row[c] # None => row[c].keyVersion = Active
  /\ keys' = {Active}
  /\ use' = [r \in Requests |-> NoUse]
  /\ UNCHANGED <<row, credentialHistory>>

CredentialNext ==
  \/ AddKey \/ RetireKeys
  \/ \E c \in Credentials : Delete(c)
  \/ \E r \in Requests :
       \/ CreateCommit(r) \/ ReplaceCommit(r) \/ RotateCommit(r) \/ ResolveCommit(r)
       \/ \E c \in Credentials : RotateRead(r, c) \/ ResolveForUse(r, c)
       \/ \E c \in Credentials, n \in Names : CreateRead(r, c, n) \/ ReplaceRead(r, c, n)

CredentialSpec == CredentialInit /\ [][CredentialNext]_credentialVars

-----------------------------------------------------------------------------

\* Every stored credential can be decrypted with the keyring of the moment and yields the secret
\* that was given last.  Only a rotation that was running while the secret was replaced may have
\* brought the old one back (rotate_encryption takes no lock).
SecretSurvives ==
  \A c \in Credentials : row[c] # None =>
    /\ Decrypts(row[c])
    /\ row[c].cipher.secret # latest[c] => c \in overlapped

-----------------------------------------------------------------------------
(* The inductive invariant behind it *)

HasActive == \E k \in keys : \A j \in keys : j =< k

\* A secret in a row, or about to be, has been given.
Given(secret) == secret \in Secret /\ secret =< given

\* What a session is to write is sealed under the active key; meanwhile the row keeps the key it
\* was read with, or gets the active one.
Sealing(q) ==
  /\ q.id \in Credentials /\ q.read \in Row /\ q.new \in Row
  /\ Given(q.new.cipher.secret) /\ q.new.cipher.under = Active /\ q.new.keyVersion = Active
  /\ row[q.id] # None => row[q.id].keyVersion \in {q.read.keyVersion, Active}

CredentialInHand(q) ==
  \/ q = NoUse
  \/ q.op = "create" /\ q.id \in Credentials /\ q.name \in Names /\ Given(q.secret)
  \/ q.op = "replace" /\ Sealing(q) /\ q.new.cipher.secret # q.read.cipher.secret
  \/ q.op = "rotate" /\ Sealing(q) /\ q.new.cipher.secret = q.read.cipher.secret /\ q.new.name = q.read.name
  \/ q.op = "resolve" /\ q.id \in Credentials /\ q.read \in Row

CredentialInv ==
  /\ CredentialTypeOK /\ DOMAIN row = Credentials /\ DOMAIN latest = Credentials /\ DOMAIN use = Requests
  /\ HasActive /\ SecretSurvives
  /\ \A c \in Credentials : row[c] # None => Given(row[c].cipher.secret)
  /\ \A r \in Requests : CredentialInHand(use[r])
=============================================================================
