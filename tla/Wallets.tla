------------------------------- MODULE Wallets -------------------------------
(***************************************************************************)
(* BlockchainWalletService: provisioning, balance synchronisation and the  *)
(* re-encryption of every wallet after ENCRYPTION_KEY has been replaced    *)
(* (src/src/backup/RECOVERY_DRILL.md, "Rotation procedure").  A stored     *)
(* secret is the sequence of the keys it is encrypted under, outermost     *)
(* last: <<>> is the plaintext.                                            *)
(***************************************************************************)
EXTENDS Integers, Sequences, SequencesExt

CONSTANTS
    Replica, User,
    Address,          \* key pairs that calls of provision generate
    Registered,       \* replicas that have called setEncryptionServiceInstance
    MaxWalletFaults   \* bound: rejected calls

ASSUME WalletAssumption ==
    /\ MaxWalletFaults \in Nat /\ Registered \subseteq Replica
    /\ "none" \notin Address /\ "none" \notin User

OldKey == 1
NewKey == 2

VARIABLES
    env,          \* "old", "window" (both keys set) or "closed", per replica
    wallets,      \* blockchain_wallets: user -> row
    provisioning, \* calls of provision in flight, by the address they generated
    syncing,      \* per replica: the wallet a syncBalance has read
    rotating,     \* per replica: the wallets reencryptWallets has still to do
    announced,    \* addresses registered, funded or announced by an event
    walletFaults

walletVars == <<env, wallets, provisioning, syncing, rotating, announced, walletFaults>>

NoWallet == [address |-> "none", secret |-> <<>>, keyVersion |-> 0]
NoCallOf == [user |-> "none", replica |-> "none", step |-> "none"]

WalletInit ==
    /\ env = [r \in Replica |-> "old"]
    /\ wallets = [u \in User |-> NoWallet]
    /\ provisioning = [a \in Address |-> NoCallOf]
    /\ syncing = [r \in Replica |-> "none"]
    /\ rotating = [r \in Replica |-> {}]
    /\ announced = {}
    /\ walletFaults = 0

WalletFault ==
    /\ walletFaults < MaxWalletFaults
    /\ walletFaults' = walletFaults + 1

\* EncryptionService: encrypt uses the active key, decrypt the previous one
\* when it is set; keyVersion is that of the active key.
ActiveKey(r) == IF env[r] = "old" THEN OldKey ELSE NewKey
DecryptKey(r) == IF env[r] = "closed" THEN NewKey ELSE OldKey
Encrypt(r, value) == Append(value, ActiveKey(r))
Decrypt(value) == IF value = <<>> THEN value ELSE Front(value)
Decrypts(r, value) == value # <<>> => Last(value) = DecryptKey(r)

\* The column transformer decrypts what is read and encrypts what is written:
\* the prefix it looks for ("encv1:") is not the one encrypt writes ("env1").
\* Both throw in a process that has not registered its EncryptionService.
Write(r, value) == Encrypt(r, value)
Writable(r) == r \in Registered
Readable(r, u) ==
    /\ wallets[u] # NoWallet
    /\ r \in Registered /\ Decrypts(r, wallets[u].secret)

\* decryptSecretKey: provision leaves iv null, so that the value is returned
\* as it was read.
DecryptSecretKey(u) == Decrypt(wallets[u].secret)

-----------------------------------------------------------------------------
\* The user has no wallet yet.
Provision(a, u, r) ==
    /\ provisioning[a] = NoCallOf /\ a \notin announced
    /\ wallets[u] = NoWallet
    /\ provisioning' = [provisioning EXCEPT
          ![a] = [user |-> u, replica |-> r, step |-> "save"]]
    /\ UNCHANGED <<env, wallets, syncing, rotating, announced, walletFaults>>

\* Mutation: the address is registered before the wallet is stored.
SaveWallet_RegistersFirst(a) ==
    LET c == provisioning[a] IN
    /\ c.step = "save"
    /\ announced' = announced \cup {a}
    /\ IF Writable(c.replica) /\ wallets[c.user] = NoWallet
       THEN /\ wallets' = [wallets EXCEPT ![c.user] =
                  [address |-> a, secret |-> Write(c.replica, <<>>),
                   keyVersion |-> ActiveKey(c.replica)]]
            /\ provisioning' = [provisioning EXCEPT ![a].step = "register"]
       ELSE /\ provisioning' = [provisioning EXCEPT ![a] = NoCallOf]
            /\ UNCHANGED wallets
    /\ UNCHANGED <<env, syncing, rotating, walletFaults>>

\* userId is unique: the insert of a second call for the user rejects, as does
\* every insert that the transformer cannot encrypt.
SaveWallet(a) ==
    LET c == provisioning[a] IN
    /\ c.step = "save"
    /\ IF Writable(c.replica) /\ wallets[c.user] = NoWallet
       THEN /\ wallets' = [wallets EXCEPT ![c.user] =
                  [address |-> a, secret |-> Write(c.replica, <<>>),
                   keyVersion |-> ActiveKey(c.replica)]]
            /\ provisioning' = [provisioning EXCEPT ![a].step = "register"]
       ELSE /\ provisioning' = [provisioning EXCEPT ![a] = NoCallOf]
            /\ UNCHANGED wallets
    /\ UNCHANGED <<env, syncing, rotating, announced, walletFaults>>

\* registerUser and friendbot; their rejections are logged and ignored, and
\* the event is emitted in any case.
Announce(a) ==
    /\ provisioning[a].step = "register"
    /\ provisioning' = [provisioning EXCEPT ![a] = NoCallOf]
    /\ announced' = announced \cup {a}
    /\ UNCHANGED <<env, wallets, syncing, rotating, walletFaults>>

-----------------------------------------------------------------------------
\* getWallet, before the two balances are awaited.
SyncRead(r, u) ==
    /\ syncing[r] = "none"
    /\ Readable(r, u)
    /\ syncing' = [syncing EXCEPT ![r] = u]
    /\ UNCHANGED <<env, wallets, provisioning, rotating, announced, walletFaults>>

\* save loads the row again, which rejects if it cannot be decrypted; the
\* secret it writes back is encrypted anew or left out as unchanged.
SyncSave(r) ==
    LET u == syncing[r] IN
    /\ u # "none"
    /\ syncing' = [syncing EXCEPT ![r] = "none"]
    /\ wallets' \in IF Readable(r, u)
                    THEN {wallets, [wallets EXCEPT ![u] =
                                      [@ EXCEPT !.secret = Write(r, Decrypt(wallets[u].secret))]]}
                    ELSE {wallets}
    /\ UNCHANGED <<env, provisioning, rotating, announced, walletFaults>>

\* A balance cannot be read.
SyncRejects(r) ==
    /\ WalletFault
    /\ syncing[r] # "none"
    /\ syncing' = [syncing EXCEPT ![r] = "none"]
    /\ UNCHANGED <<env, wallets, provisioning, rotating, announced>>

-----------------------------------------------------------------------------
\* The operator's next deployment of a replica.  The previous key is removed
\* once the re-encryption is through and every row has the new version.
Deploy(r) ==
    /\ syncing[r] = "none" /\ rotating[r] = {}
    /\ \A a \in Address : provisioning[a].replica # r
    /\ \/ env[r] = "old" /\ env' = [env EXCEPT ![r] = "window"]
       \/ /\ env[r] = "window" /\ \A q \in Replica : env[q] # "old"
          /\ \A u \in User : wallets[u] # NoWallet => wallets[u].keyVersion = NewKey
          /\ env' = [env EXCEPT ![r] = "closed"]
    /\ UNCHANGED <<wallets, provisioning, syncing, rotating, announced, walletFaults>>

\* reencryptWallets: find() decrypts every row, and rejects if one fails.
RotateRead(r) ==
    /\ env[r] = "window" /\ rotating[r] = {}
    /\ \A u \in User : wallets[u] # NoWallet => Readable(r, u)
    /\ rotating' = [rotating EXCEPT ![r] =
          {u \in User : wallets[u] # NoWallet /\ wallets[u].keyVersion # NewKey}]
    /\ UNCHANGED <<env, wallets, provisioning, syncing, announced, walletFaults>>

\* reencrypt is given the plaintext that find() returned, encrypts it, and the
\* transformer encrypts the result when it is saved.
RotateSave(r, u) ==
    /\ u \in rotating[r]
    /\ rotating' = [rotating EXCEPT ![r] = @ \ {u}]
    /\ wallets' = IF Readable(r, u)
                  THEN [wallets EXCEPT ![u] = [@ EXCEPT !.secret = Write(r, Encrypt(r, <<>>)),
                                                        !.keyVersion = ActiveKey(r)]]
                  ELSE wallets
    /\ UNCHANGED <<env, provisioning, syncing, announced, walletFaults>>

\* The save of one wallet rejects: it is skipped.
RotateSkips(r, u) ==
    /\ WalletFault
    /\ u \in rotating[r]
    /\ rotating' = [rotating EXCEPT ![r] = @ \ {u}]
    /\ UNCHANGED <<env, wallets, provisioning, syncing, announced>>

WalletNext ==
    \/ \E a \in Address :
          \/ \E u \in User, r \in Replica : Provision(a, u, r)
          \/ SaveWallet(a) \/ Announce(a)
    \/ \E r \in Replica :
          \/ \E u \in User : SyncRead(r, u) \/ RotateSave(r, u) \/ RotateSkips(r, u)
          \/ SyncSave(r) \/ SyncRejects(r) \/ Deploy(r) \/ RotateRead(r)

WalletSpec == WalletInit /\ [][WalletNext]_walletVars

-----------------------------------------------------------------------------
\* Of two overlapping calls of provision for a user only the one whose wallet
\* is stored registers, funds and announces its address.
AnnouncedIsStored ==
    \A a \in announced : \E u \in User : wallets[u].address = a

\* RECOVERY_DRILL.md: the rotation "re-encrypts with the current key", so that
\* afterwards "only the current key can decrypt wallet secrets": with the
\* previous key removed a wallet reads as its secret.
SecretsSurviveRotation ==
    \A r \in Replica, u \in User :
       env[r] = "closed" /\ Readable(r, u) => DecryptSecretKey(u) = <<>>
=============================================================================
