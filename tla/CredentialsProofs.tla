------------------------- MODULE CredentialsProofs --------------------------
(***************************************************************************)
(* Proofs about Credentials: every stored credential can be decrypted and  *)
(* yields the secret given last, for any number of credentials, requests,  *)
(* secrets and key versions.                                               *)
(***************************************************************************)
EXTENDS Credentials, TLAPS

-----------------------------------------------------------------------------
(* Operators *)

\* The active key is the largest of the keyring.
LEMMA ActiveIsLargest ==
  ASSUME HasActive
  PROVE  Active \in keys /\ \A j \in keys : j =< Active
BY DEF HasActive, Active

\* An UPDATE leaves every column that was not changed, and every other row.
LEMMA UpdatedRow ==
  ASSUME DOMAIN row = Credentials, NEW c \in Credentials, row[c] \in Row, NEW read \in Row, NEW new \in Row
  PROVE  /\ DOMAIN Updated(c, read, new) = Credentials
         /\ Updated(c, read, new)[c] =
              [name |-> IF new.name = read.name THEN row[c].name ELSE new.name,
               cipher |-> IF new.cipher = read.cipher THEN row[c].cipher ELSE new.cipher,
               keyVersion |-> IF new.keyVersion = read.keyVersion THEN row[c].keyVersion ELSE new.keyVersion]
         /\ \A d \in Credentials \ {c} : Updated(c, read, new)[d] = row[d]
BY DEF Updated, Row

\* Using a credential changes nothing of it.
LEMMA UsedUnchanged ==
  ASSUME DOMAIN row = Credentials, NEW c \in Credentials, row[c] \in Row, NEW read \in Row
  PROVE  DOMAIN MarkedUsed(c, read) = Credentials /\ \A d \in Credentials : MarkedUsed(c, read)[d] = row[d]
BY UpdatedRow DEF MarkedUsed, Row

-----------------------------------------------------------------------------
(* Steps *)

\* What a request has in hand stays good while the keyring stays and no row gets another key than
\* the active one.
LEMMA HandStays ==
  ASSUME UNCHANGED keys, given' >= given, given \in Nat, given' \in Nat,
         \A c \in Credentials : row'[c] # None =>
           \/ row[c] # None /\ row'[c].keyVersion = row[c].keyVersion
           \/ row'[c].keyVersion = Active,
         NEW q, CredentialInHand(q)
  PROVE  CredentialInHand(q)'
<1>1. Active' = Active
  BY DEF Active
<1>2. ASSUME NEW secret, Given(secret)  PROVE Given(secret)'
  BY <1>2 DEF Given, Secret
<1>3. ASSUME Sealing(q)  PROVE Sealing(q)'
  BY <1>1, <1>2, <1>3 DEF Sealing
<1>4. QED
  BY <1>2, <1>3 DEF CredentialInHand

\* A request goes on while rows and keys stay.
LEMMA Goes ==
  ASSUME CredentialInv, NEW r \in Requests, NEW q, UseTo(r, q), UNCHANGED <<row, keys, latest, overlapped>>,
         given' \in 0..MaxSecret, given' >= given, CredentialInHand(q)'
  PROVE  CredentialInv'
<1>1. DOMAIN use' = Requests /\ use'[r] = q /\ \A s \in Requests \ {r} : use'[s] = use[s]
  BY DEF CredentialInv, UseTo
<1>2. given \in Nat /\ given' \in Nat
  BY CredentialsAssumption DEF CredentialInv, CredentialTypeOK
<1>3. \A s \in Requests : CredentialInHand(use[s])'
  <2> SUFFICES ASSUME NEW s \in Requests \ {r}  PROVE CredentialInHand(use[s])'
    BY <1>1
  <2>1. \A x : x = use[s] => CredentialInHand(x)'
    BY <1>2, HandStays DEF CredentialInv
  <2>2. QED
    BY <1>1, <2>1
<1>4. \A s \in Requests : use'[s].op \in {"idle", "create", "replace", "rotate", "resolve"}
  BY <1>3 DEF CredentialInHand, NoUse
<1>5. \A c \in Credentials : row'[c] # None => Given(row[c].cipher.secret)'
  BY <1>2 DEF CredentialInv, Given, Secret
<1>6. CredentialTypeOK' /\ HasActive' /\ SecretSurvives'
  BY <1>4 DEF CredentialInv, CredentialTypeOK, HasActive, SecretSurvives, Decrypts
<1>7. QED
  BY <1>1, <1>3, <1>5, <1>6 DEF CredentialInv

\* A request that ends without having written anything.
LEMMA Ends ==
  ASSUME CredentialInv, NEW r \in Requests, UseDone(r), UNCHANGED <<row, keys, credentialHistory>>
  PROVE  CredentialInv'
<1>1. CredentialInHand(NoUse)'
  BY DEF CredentialInHand
<1>2. given' \in 0..MaxSecret /\ given' >= given
  BY CredentialsAssumption DEF CredentialInv, CredentialTypeOK, credentialHistory
<1>3. QED
  BY <1>1, <1>2, Goes DEF UseDone, credentialHistory

\* A request that ends with one row written, sealed under the active key.
LEMMA Writes ==
  ASSUME CredentialInv, NEW r \in Requests, UseDone(r), UNCHANGED <<keys, given>>,
         NEW c \in Credentials, DOMAIN row' = Credentials,
         \A d \in Credentials \ {c} : row'[d] = row[d] /\ latest'[d] = latest[d] /\ (d \in overlapped' <=> d \in overlapped),
         DOMAIN latest' = Credentials, overlapped' \subseteq Credentials,
         row'[c] \in Row, row'[c].keyVersion = Active, row'[c].cipher.under = Active,
         Given(row'[c].cipher.secret),
         row'[c].cipher.secret # latest'[c] => c \in overlapped',
         ~NameTaken(row'[c].name, c)
  PROVE  CredentialInv'
<1>1. DOMAIN use' = Requests /\ use'[r] = NoUse /\ \A s \in Requests \ {r} : use'[s] = use[s]
  BY DEF CredentialInv, UseDone, UseTo
<1>2. given \in Nat /\ given' = given
  BY CredentialsAssumption DEF CredentialInv, CredentialTypeOK
<1>3. \A s \in Requests : CredentialInHand(use[s])'
  <2>1. CredentialInHand(use[r])'
    BY <1>1 DEF CredentialInHand
  <2>2. ASSUME NEW s \in Requests \ {r}  PROVE CredentialInHand(use[s])'
    <3>1. \A x : x = use[s] => CredentialInHand(x)'
      BY <1>2, HandStays DEF CredentialInv
    <3>2. QED
      BY <1>1, <3>1
  <2>3. QED
    BY <2>1, <2>2
<1>4. Active \in keys
  BY ActiveIsLargest DEF CredentialInv
<1>5. SecretSurvives'
  BY <1>4 DEF CredentialInv, SecretSurvives, Decrypts
<1>6. \A d \in Credentials : row'[d] # None => Given(row'[d].cipher.secret)
  BY DEF CredentialInv
<1>7. CredentialTypeOK'
  <2>1. \A d \in Credentials : row'[d] = None \/ row'[d] \in Row
    BY DEF CredentialInv, CredentialTypeOK
  <2>2. \A d, e \in Credentials : d # e /\ row'[d] # None /\ row'[e] # None => row'[d].name # row'[e].name
    BY DEF CredentialInv, CredentialTypeOK, NameTaken
  <2>3. \A s \in Requests : use'[s].op \in {"idle", "create", "replace", "rotate", "resolve"}
    BY <1>3 DEF CredentialInHand, NoUse
  <2>4. QED
    BY <2>1, <2>2, <2>3 DEF CredentialInv, CredentialTypeOK
<1>8. HasActive' /\ \A secret : Given(secret)' <=> Given(secret)
  BY <1>2 DEF CredentialInv, HasActive, Given
<1>9. QED
  BY <1>1, <1>3, <1>5, <1>6, <1>7, <1>8 DEF CredentialInv

-----------------------------------------------------------------------------
(* Actions *)

\* A row that is there has its type, its key and a secret that was given.
LEMMA RowOf ==
  ASSUME CredentialInv, NEW c \in Credentials, row[c] # None
  PROVE  row[c] \in Row /\ Decrypts(row[c]) /\ Given(row[c].cipher.secret)
BY DEF CredentialInv, CredentialTypeOK, SecretSurvives

\* The active version is one of those that can be.
LEMMA ActiveVersion ==
  ASSUME CredentialInv
  PROVE  Active \in KeyVersion
BY ActiveIsLargest DEF CredentialInv, CredentialTypeOK

\* create.
LEMMA CreateReadStep ==
  ASSUME CredentialInv, NEW r \in Requests, NEW c \in Credentials, NEW n \in Names, CreateRead(r, c, n)
  PROVE  CredentialInv'
<1> DEFINE q == [op |-> "create", id |-> c, name |-> n, secret |-> given']
<1>1. given' = given + 1 /\ given < MaxSecret /\ UseTo(r, q) /\ UNCHANGED <<row, keys, latest, overlapped>>
  BY DEF CreateRead
<1>2. given' \in 0..MaxSecret /\ given' >= given /\ given' \in Secret
  BY <1>1, CredentialsAssumption DEF CredentialInv, CredentialTypeOK, Secret
<1>3. PICK x : x = q
  OBVIOUS
<1>4. CredentialInHand(x)'
  BY <1>2, <1>3 DEF CredentialInHand, Given
<1>5. UseTo(r, x)
  BY <1>1, <1>3
<1>6. QED
  BY <1>1, <1>2, <1>4, <1>5, Goes

\* The row of a new credential, under the key that is active at its commit.
LEMMA CreateCommitStep ==
  ASSUME CredentialInv, NEW r \in Requests, CreateCommit(r)
  PROVE  CredentialInv'
<1> DEFINE q == use[r]
<1>1. q.op = "create" /\ UseDone(r) /\ UNCHANGED <<keys, given, overlapped>>
  BY DEF CreateCommit
<1>2. q.id \in Credentials /\ q.name \in Names /\ Given(q.secret)
  <2>1. CredentialInHand(use[r])
    BY DEF CredentialInv
  <2>2. QED
    BY <1>1, <2>1 DEF CredentialInHand, NoUse
<1>3. CASE UNCHANGED <<row, latest>>
  BY <1>1, <1>3, Ends DEF credentialHistory
<1>4. CASE ~UNCHANGED <<row, latest>>
  <2>1. /\ ~NameTaken(q.name, q.id)
        /\ row' = [row EXCEPT ![q.id] = [name |-> q.name, cipher |-> Encrypt(q.secret), keyVersion |-> Active]]
        /\ latest' = [latest EXCEPT ![q.id] = q.secret]
    BY <1>4 DEF CreateCommit, Conflicts
  <2>2. /\ row'[q.id] = [name |-> q.name, cipher |-> [secret |-> q.secret, under |-> Active], keyVersion |-> Active]
        /\ latest'[q.id] = q.secret /\ DOMAIN row' = Credentials /\ DOMAIN latest' = Credentials
        /\ \A d \in Credentials \ {q.id} : row'[d] = row[d] /\ latest'[d] = latest[d]
    BY <1>2, <2>1 DEF CredentialInv, Encrypt
  <2>3. row'[q.id] \in Row
    BY <1>2, <2>2, ActiveVersion DEF Row, Sealed, Given
  <2>4. overlapped' \subseteq Credentials
    BY <1>1 DEF CredentialInv, CredentialTypeOK
  <2>5. QED
    BY <1>1, <1>2, <2>1, <2>2, <2>3, <2>4, Writes
<1>5. QED
  BY <1>3, <1>4

\* replace.
LEMMA ReplaceReadStep ==
  ASSUME CredentialInv, NEW r \in Requests, NEW c \in Credentials, NEW n \in Names, ReplaceRead(r, c, n)
  PROVE  CredentialInv'
<1> DEFINE new == [name |-> n, cipher |-> Encrypt(given'), keyVersion |-> Active]
           q == [op |-> "replace", id |-> c, read |-> row[c], new |-> new]
<1>1. given' = given + 1 /\ given < MaxSecret /\ UseTo(r, q) /\ UNCHANGED <<row, keys, latest, overlapped>> /\ row[c] # None
  BY DEF ReplaceRead
<1>2. given \in Nat /\ given' \in 0..MaxSecret /\ given' >= given /\ given' \in Secret
  BY <1>1, CredentialsAssumption DEF CredentialInv, CredentialTypeOK, Given, Secret
<1>3. row[c] \in Row /\ Given(row[c].cipher.secret)
  BY <1>1, RowOf
<1>4. new = [name |-> n, cipher |-> [secret |-> given', under |-> Active], keyVersion |-> Active]
  BY <1>3 DEF Row, Encrypt
<1>5. new \in Row
  BY <1>2, <1>4, ActiveVersion DEF Row, Sealed
<1>6. row[c].cipher.secret # given'
  BY <1>1, <1>2, <1>3 DEF Given, Secret
<1>7. Active' = Active
  BY <1>1 DEF Active
<1>8. new.cipher.secret = given' /\ new.cipher.under = Active /\ new.keyVersion = Active
  BY <1>4
<1>9. PICK x : x = q
  OBVIOUS
<1>10. x.op = "replace" /\ x.id = c /\ x.read = row[c] /\ x.new = new /\ UseTo(r, x)
  BY <1>1, <1>9
<1> HIDE DEF new
<1>11. Sealing(x)'
  BY <1>1, <1>2, <1>3, <1>5, <1>7, <1>8, <1>10 DEF Sealing, Given
<1>12. CredentialInHand(x)'
  BY <1>6, <1>8, <1>10, <1>11 DEF CredentialInHand
<1>13. QED
  BY <1>1, <1>2, <1>10, <1>12, Goes

\* The columns that replace has changed: the secret always, the name if it is new.
LEMMA ReplaceCommitStep ==
  ASSUME CredentialInv, NEW r \in Requests, ReplaceCommit(r)
  PROVE  CredentialInv'
<1> DEFINE q == use[r]
<1>1. q.op = "replace" /\ UseDone(r) /\ UNCHANGED <<keys, given, overlapped>>
  BY DEF ReplaceCommit
<1>2. Sealing(q) /\ q.new.cipher.secret # q.read.cipher.secret
  <2>1. CredentialInHand(use[r])
    BY DEF CredentialInv
  <2>2. QED
    BY <1>1, <2>1 DEF CredentialInHand, NoUse
<1>3. CASE UNCHANGED <<row, latest>>
  BY <1>1, <1>3, Ends DEF credentialHistory
<1>4. CASE ~UNCHANGED <<row, latest>>
  <2>1. /\ row[q.id] # None /\ (q.new.name # q.read.name => ~NameTaken(q.new.name, q.id))
        /\ row' = Updated(q.id, q.read, q.new)
        /\ latest' = [latest EXCEPT ![q.id] = q.new.cipher.secret]
    BY <1>4 DEF ReplaceCommit, Conflicts
  <2>2. row[q.id] \in Row /\ q.id \in Credentials /\ q.read \in Row /\ q.new \in Row
    BY <1>2, <2>1, RowOf DEF Sealing
  <2>3. /\ row'[q.id] =
              [name |-> IF q.new.name = q.read.name THEN row[q.id].name ELSE q.new.name,
               cipher |-> IF q.new.cipher = q.read.cipher THEN row[q.id].cipher ELSE q.new.cipher,
               keyVersion |-> IF q.new.keyVersion = q.read.keyVersion THEN row[q.id].keyVersion ELSE q.new.keyVersion]
        /\ \A d \in Credentials \ {q.id} : row'[d] = row[d]
        /\ DOMAIN row' = Credentials
    BY <2>1, <2>2, UpdatedRow DEF CredentialInv
  <2>4. row'[q.id].cipher = q.new.cipher /\ row'[q.id].keyVersion = Active
    BY <1>2, <2>1, <2>3 DEF Sealing
  <2>5. ~NameTaken(row'[q.id].name, q.id)
    BY <2>1, <2>2, <2>3 DEF CredentialInv, CredentialTypeOK, NameTaken
  <2>6. row'[q.id] \in Row
    BY <2>2, <2>3 DEF Row
  <2>7. /\ latest'[q.id] = q.new.cipher.secret /\ DOMAIN latest' = Credentials
        /\ \A d \in Credentials \ {q.id} : latest'[d] = latest[d]
    BY <2>1, <2>2 DEF CredentialInv
  <2>8. overlapped' \subseteq Credentials /\ Given(row'[q.id].cipher.secret) /\ row'[q.id].cipher.under = Active
    BY <1>1, <1>2, <2>4 DEF CredentialInv, CredentialTypeOK, Sealing
  <2>9. QED
    BY <1>1, <2>2, <2>3, <2>4, <2>5, <2>6, <2>7, <2>8, Writes
<1>5. QED
  BY <1>3, <1>4

\* rotate_encryption.
LEMMA RotateReadStep ==
  ASSUME CredentialInv, NEW r \in Requests, NEW c \in Credentials, RotateRead(r, c)
  PROVE  CredentialInv'
<1> DEFINE new == [name |-> row[c].name, cipher |-> Encrypt(row[c].cipher.secret), keyVersion |-> Active]
           q == [op |-> "rotate", id |-> c, read |-> row[c], new |-> new]
<1>1. UseTo(r, q) /\ UNCHANGED <<row, keys, credentialHistory>> /\ row[c] # None
  BY DEF RotateRead
<1>2. given' \in 0..MaxSecret /\ given' >= given /\ given' = given
  BY <1>1, CredentialsAssumption DEF CredentialInv, CredentialTypeOK, credentialHistory
<1>3. row[c] \in Row /\ Given(row[c].cipher.secret)
  BY <1>1, RowOf
<1>4. new = [name |-> row[c].name, cipher |-> [secret |-> row[c].cipher.secret, under |-> Active], keyVersion |-> Active]
  BY <1>3 DEF Row, Encrypt
<1>5. new \in Row
  BY <1>3, <1>4, ActiveVersion DEF Row, Sealed
<1>6. Active' = Active
  BY <1>1 DEF Active
<1>7. /\ new.cipher.secret = row[c].cipher.secret /\ new.name = row[c].name
      /\ new.cipher.under = Active /\ new.keyVersion = Active
  BY <1>4
<1> HIDE DEF new
<1>8. PICK x : x = q
  OBVIOUS
<1>9. x.op = "rotate" /\ x.id = c /\ x.read = row[c] /\ x.new = new /\ UseTo(r, x)
  BY <1>1, <1>8
<1> HIDE DEF new
<1>10. Sealing(x)'
  BY <1>1, <1>2, <1>3, <1>5, <1>6, <1>7, <1>9 DEF Sealing, Given
<1>11. CredentialInHand(x)'
  BY <1>7, <1>9, <1>10 DEF CredentialInHand
<1>12. QED
  BY <1>1, <1>2, <1>9, <1>11, Goes DEF credentialHistory

\* A sealed copy of what was read, which brings back the old secret after a concurrent replace.
LEMMA RotateCommitStep ==
  ASSUME CredentialInv, NEW r \in Requests, RotateCommit(r)
  PROVE  CredentialInv'
<1> DEFINE q == use[r]
<1>1. q.op = "rotate" /\ UseDone(r) /\ UNCHANGED <<keys, latest, given>>
  BY DEF RotateCommit
<1>2. Sealing(q) /\ q.new.cipher.secret = q.read.cipher.secret /\ q.new.name = q.read.name
  <2>1. CredentialInHand(use[r])
    BY DEF CredentialInv
  <2>2. QED
    BY <1>1, <2>1 DEF CredentialInHand, NoUse
<1>3. CASE row[q.id] = None
  BY <1>1, <1>3, Ends DEF RotateCommit, credentialHistory
<1>4. CASE row[q.id] # None
  <2>1. /\ row' = Resealed(q.id, q.read, q.new)
        /\ overlapped' = IF row[q.id].cipher.secret = q.read.cipher.secret THEN overlapped ELSE overlapped \cup {q.id}
    BY <1>4 DEF RotateCommit
  <2>2. row[q.id] \in Row /\ q.id \in Credentials /\ q.read \in Row /\ q.new \in Row
    BY <1>2, <1>4, RowOf DEF Sealing
  <2>3. /\ row'[q.id] =
              [name |-> row[q.id].name, cipher |-> q.new.cipher,
               keyVersion |-> IF q.new.keyVersion = q.read.keyVersion THEN row[q.id].keyVersion ELSE q.new.keyVersion]
        /\ \A d \in Credentials \ {q.id} : row'[d] = row[d]
        /\ DOMAIN row' = Credentials
    <3> DEFINE u == Updated(q.id, q.read, q.new)
    <3>1. /\ DOMAIN u = Credentials /\ (\A d \in Credentials \ {q.id} : u[d] = row[d])
          /\ u[q.id] =
              [name |-> row[q.id].name,
               cipher |-> IF q.new.cipher = q.read.cipher THEN row[q.id].cipher ELSE q.new.cipher,
               keyVersion |-> IF q.new.keyVersion = q.read.keyVersion THEN row[q.id].keyVersion ELSE q.new.keyVersion]
      BY <1>2, <2>2, UpdatedRow DEF CredentialInv
    <3>2. row' = [u EXCEPT ![q.id].cipher = q.new.cipher]
      BY <2>1 DEF Resealed
    <3> HIDE DEF u
    <3>3. QED
      BY <2>2, <3>1, <3>2
  <2>4. row'[q.id].cipher = q.new.cipher /\ row'[q.id].keyVersion = Active
    BY <1>2, <1>4, <2>3 DEF Sealing
  <2>5. ~NameTaken(row'[q.id].name, q.id)
    BY <1>4, <2>2, <2>3 DEF CredentialInv, CredentialTypeOK, NameTaken
  <2>6. row'[q.id] \in Row
    BY <2>2, <2>3 DEF Row
  <2>7. row'[q.id].cipher.secret # latest'[q.id] => q.id \in overlapped'
    BY <1>1, <1>2, <1>4, <2>1, <2>2, <2>4 DEF CredentialInv, SecretSurvives
  <2>8. overlapped' \subseteq Credentials /\ \A d \in Credentials \ {q.id} : d \in overlapped' <=> d \in overlapped
    BY <2>1, <2>2 DEF CredentialInv, CredentialTypeOK
  <2>9. DOMAIN latest' = Credentials /\ Given(row'[q.id].cipher.secret) /\ row'[q.id].cipher.under = Active
    BY <1>1, <1>2, <2>4 DEF CredentialInv, Sealing
  <2>10. QED
    BY <1>1, <2>2, <2>3, <2>4, <2>5, <2>6, <2>7, <2>8, <2>9, Writes
<1>5. QED
  BY <1>3, <1>4

\* resolve_for_use.
LEMMA ResolveReadStep ==
  ASSUME CredentialInv, NEW r \in Requests, NEW c \in Credentials, ResolveForUse(r, c)
  PROVE  CredentialInv'
<1>1. UseTo(r, [op |-> "resolve", id |-> c, read |-> row[c]]) /\ UNCHANGED <<row, keys, credentialHistory>> /\ row[c] # None
  BY DEF ResolveForUse
<1>2. PICK x : x = [op |-> "resolve", id |-> c, read |-> row[c]]
  OBVIOUS
<1>3. CredentialInHand(x)' /\ UseTo(r, x)
  BY <1>1, <1>2, RowOf DEF CredentialInHand
<1>4. given' \in 0..MaxSecret /\ given' >= given
  BY <1>1, CredentialsAssumption DEF CredentialInv, CredentialTypeOK, credentialHistory
<1>5. QED
  BY <1>1, <1>3, <1>4, Goes DEF credentialHistory

\* Only last_used_at, and no other column.
LEMMA ResolveCommitStep ==
  ASSUME CredentialInv, NEW r \in Requests, ResolveCommit(r)
  PROVE  CredentialInv'
<1> DEFINE q == use[r]
<1>1. q.op = "resolve" /\ UseDone(r) /\ UNCHANGED <<keys, credentialHistory>>
  BY DEF ResolveCommit
<1>2. q.id \in Credentials /\ q.read \in Row
  <2>1. CredentialInHand(use[r])
    BY DEF CredentialInv
  <2>2. QED
    BY <1>1, <2>1 DEF CredentialInHand, NoUse
<1>3. CASE row[q.id] = None
  BY <1>1, <1>3, Ends DEF ResolveCommit
<1>4. CASE row[q.id] # None
  <2>1. row' = MarkedUsed(q.id, q.read) /\ row[q.id] \in Row
    BY <1>2, <1>4, RowOf DEF ResolveCommit
  <2>2. DOMAIN row' = Credentials /\ \A d \in Credentials : row'[d] = row[d]
    BY <1>2, <2>1, UsedUnchanged DEF CredentialInv
  <2>3. row[q.id].keyVersion \in keys
    BY <1>2, <1>4, RowOf DEF Decrypts
  <2>4. DOMAIN use' = Requests /\ use'[r] = NoUse /\ \A s \in Requests \ {r} : use'[s] = use[s]
    BY <1>1 DEF CredentialInv, UseDone, UseTo
  <2>5. given \in Nat /\ given' = given
    BY <1>1, CredentialsAssumption DEF CredentialInv, CredentialTypeOK, credentialHistory
  <2>6. \A s \in Requests : CredentialInHand(use[s])'
    <3>1. CredentialInHand(use[r])'
      BY <2>4 DEF CredentialInHand
    <3>2. ASSUME NEW s \in Requests \ {r}  PROVE CredentialInHand(use[s])'
      <4>1. \A x : x = use[s] => CredentialInHand(x)'
        BY <1>1, <2>2, <2>5, HandStays DEF CredentialInv
      <4>2. QED
        BY <2>4, <4>1
    <3>3. QED
      BY <3>1, <3>2
  <2>7. \A s \in Requests : use'[s].op \in {"idle", "create", "replace", "rotate", "resolve"}
    BY <2>6 DEF CredentialInHand, NoUse
  <2>8. CredentialTypeOK' /\ HasActive' /\ SecretSurvives'
    BY <1>1, <2>2, <2>7 DEF CredentialInv, CredentialTypeOK, HasActive, SecretSurvives, Decrypts, credentialHistory
  <2>9. \A c \in Credentials : row'[c] # None => Given(row[c].cipher.secret)'
    BY <2>2, <2>5 DEF CredentialInv, Given
  <2>10. QED
    BY <1>1, <2>2, <2>4, <2>6, <2>8, <2>9 DEF CredentialInv, credentialHistory
<1>5. QED
  BY <1>3, <1>4

\* delete.
LEMMA DeleteStep ==
  ASSUME CredentialInv, NEW c \in Credentials, Delete(c)
  PROVE  CredentialInv'
<1>1. row' = [row EXCEPT ![c] = None] /\ UNCHANGED <<keys, use, credentialHistory>>
  BY DEF Delete
<1>2. DOMAIN row' = Credentials /\ \A d \in Credentials : row'[d] # None => row'[d] = row[d]
  BY <1>1 DEF CredentialInv
<1>3. given \in Nat /\ given' = given
  BY <1>1, CredentialsAssumption DEF CredentialInv, CredentialTypeOK, credentialHistory
<1>4. ASSUME NEW s \in Requests  PROVE CredentialInHand(use[s])'
  <2>1. \A x : x = use[s] => CredentialInHand(x)'
    BY <1>1, <1>2, <1>3, HandStays DEF CredentialInv
  <2>2. QED
    BY <1>1, <2>1
<1>5. CredentialTypeOK' /\ HasActive' /\ SecretSurvives'
  BY <1>1, <1>2 DEF CredentialInv, CredentialTypeOK, HasActive, SecretSurvives, Decrypts, credentialHistory
<1>6. \A d \in Credentials : row'[d] # None => Given(row[d].cipher.secret)'
  BY <1>2, <1>3 DEF CredentialInv, Given
<1>7. QED
  BY <1>1, <1>2, <1>4, <1>5, <1>6 DEF CredentialInv, credentialHistory

\* The operator changes the keyring, the API is restarted, and the keys that rows need are still there.
LEMMA KeyringStep ==
  ASSUME CredentialInv, UNCHANGED <<row, credentialHistory>>, use' = [r \in Requests |-> NoUse],
         keys' \subseteq KeyVersion, HasActive',
         \A c \in Credentials : row[c] # None => row[c].keyVersion \in keys'
  PROVE  CredentialInv'
<1>1. CredentialTypeOK'
  BY DEF CredentialInv, CredentialTypeOK, HasActive, NoUse, credentialHistory
<1>2. SecretSurvives'
  BY DEF CredentialInv, SecretSurvives, Decrypts, credentialHistory
<1>3. \A d \in Credentials : row'[d] # None => Given(row[d].cipher.secret)'
  BY DEF CredentialInv, Given, credentialHistory
<1>4. \A s \in Requests : CredentialInHand(use[s])'
  BY DEF CredentialInHand
<1>5. QED
  BY <1>1, <1>2, <1>3, <1>4 DEF CredentialInv, credentialHistory

\* A new key version: the old ones stay.
LEMMA AddKeyStep ==
  ASSUME CredentialInv, AddKey
  PROVE  CredentialInv'
<1>1. Active \in 1..MaxKey /\ Active + 1 \in 1..MaxKey /\ MaxKey \in Nat /\ \A j \in keys : j \in Nat /\ j =< Active
  BY ActiveIsLargest, ActiveVersion, CredentialsAssumption DEF AddKey, KeyVersion, CredentialInv, CredentialTypeOK
<1>2. keys' \subseteq KeyVersion /\ keys \subseteq keys'
  BY <1>1 DEF AddKey, KeyVersion, CredentialInv, CredentialTypeOK
<1>3. HasActive'
  <2>1. Active + 1 \in keys' /\ \A j \in keys' : j =< Active + 1
    BY <1>1 DEF AddKey
  <2>2. PICK m : m = Active + 1
    OBVIOUS
  <2>3. QED
    BY <2>1, <2>2 DEF HasActive
<1>4. \A c \in Credentials : row[c] # None => row[c].keyVersion \in keys'
  BY <1>2, RowOf DEF Decrypts
<1>5. QED
  BY <1>2, <1>3, <1>4, KeyringStep DEF AddKey

\* The retired keys go once every row is under the active one.
LEMMA RetireKeysStep ==
  ASSUME CredentialInv, RetireKeys
  PROVE  CredentialInv'
<1>1. Active \in KeyVersion /\ keys' = {Active} /\ Active =< Active
  BY ActiveVersion, CredentialsAssumption DEF RetireKeys, KeyVersion
<1>2. HasActive'
  <2>1. PICK m : m = Active
    OBVIOUS
  <2>2. QED
    BY <1>1, <2>1 DEF HasActive
<1>3. QED
  BY <1>1, <1>2, KeyringStep DEF RetireKeys

-----------------------------------------------------------------------------
(* The invariant and its theorems *)

\* No credentials at first, and one key.
LEMMA InitInvariant ==
  ASSUME CredentialInit
  PROVE  CredentialInv
BY CredentialsAssumption DEF CredentialInit, CredentialInv, CredentialTypeOK, KeyVersion, HasActive, SecretSurvives, CredentialInHand, NoUse

\* Every step of sessions and of the operator keeps the invariant.
LEMMA Inductive ==
  ASSUME CredentialInv, [CredentialNext]_credentialVars
  PROVE  CredentialInv'
<1>1. CASE UNCHANGED credentialVars
  <2>1. CredentialInv' <=> CredentialInv
    BY <1>1 DEF credentialVars, credentialHistory, CredentialInv, CredentialTypeOK, HasActive, SecretSurvives, Decrypts, Given, CredentialInHand, Sealing, Active
  <2>2. QED
    BY <2>1
<1>2. CASE AddKey \/ RetireKeys
  BY <1>2, AddKeyStep, RetireKeysStep
<1>3. ASSUME NEW c \in Credentials, Delete(c)  PROVE CredentialInv'
  BY <1>3, DeleteStep
<1>4. ASSUME NEW r \in Requests, CreateCommit(r) \/ ReplaceCommit(r) \/ RotateCommit(r) \/ ResolveCommit(r)
      PROVE  CredentialInv'
  BY <1>4, CreateCommitStep, ReplaceCommitStep, RotateCommitStep, ResolveCommitStep
<1>5. ASSUME NEW r \in Requests, NEW c \in Credentials, RotateRead(r, c) \/ ResolveForUse(r, c)  PROVE CredentialInv'
  BY <1>5, RotateReadStep, ResolveReadStep
<1>6. ASSUME NEW r \in Requests, NEW c \in Credentials, NEW n \in Names, CreateRead(r, c, n) \/ ReplaceRead(r, c, n)
      PROVE  CredentialInv'
  BY <1>6, CreateReadStep, ReplaceReadStep
<1>7. QED
  BY <1>1, <1>2, <1>3, <1>4, <1>5, <1>6 DEF CredentialNext

\* Sessions, restarts and changes of the keyring keep the inductive invariant.
LEMMA Invariance ==
  CredentialSpec => []CredentialInv
<1>1. CredentialInit => CredentialInv
  BY InitInvariant
<1>2. CredentialInv /\ [CredentialNext]_credentialVars => CredentialInv'
  BY Inductive
<1>3. QED
  BY <1>1, <1>2, PTL DEF CredentialSpec

\* Rows keep their types and distinct names, by the unique constraint alone.
THEOREM CredentialTypes == CredentialSpec => []CredentialTypeOK
<1>1. CredentialInv => CredentialTypeOK
  BY DEF CredentialInv
<1>2. QED
  BY <1>1, Invariance, PTL

\* Every stored credential can be decrypted at any moment, across rotations of the key and removals
\* of retired keys, and yields the secret given last unless a rotation overlapped its replacement.
THEOREM StoredSecretsSurvive == CredentialSpec => []SecretSurvives
<1>1. CredentialInv => SecretSurvives
  BY DEF CredentialInv
<1>2. QED
  BY <1>1, Invariance, PTL
=============================================================================
