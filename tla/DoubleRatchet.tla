--------------------------- MODULE DoubleRatchet ---------------------------
(***************************************************************************)
(* The Double Ratchet of client/src/lib/ratchet/double-ratchet.ts and the  *)
(* two KDF calls it makes (kdf.ts), as operators on one session record.    *)
(*                                                                         *)
(* Cryptography is symbolic.  A public key is a pair <<owner, index>>, its *)
(* private half is known to the owner only, and dh(private a, public b) is *)
(* the unordered pair {a, b}, the same from both ends.  A root key is the  *)
(* sequence of DH outputs mixed into it, a chain key is the root it was    *)
(* derived from and the number of kdfMessageKey calls made on it, and the  *)
(* message key a chain yields is named by the chain key it came from: two  *)
(* keys are equal exactly when they were derived the same way.  AES-GCM    *)
(* opens a ciphertext exactly when the key is the one that sealed it.      *)
(***************************************************************************)
EXTENDS Naturals, Sequences, FiniteSets, Functions

CONSTANTS
    MaxSkip,          \* RatchetState.maxSkip: cached keys of one remote DH key
    GlobalSkipCap     \* GLOBAL_SKIP_CAP: cached keys of one session

ASSUME SkipCapsAssumption == MaxSkip \in Nat /\ GlobalSkipCap \in Nat

----------------------------------------------------------------------------
(* Keys *)

\* `dhRemote: RawKey | null` before the first message is received.
NoPub == <<>>

\* `sendChain | recvChain: Uint8Array | null`: a set of none or one chain key.
NoChain == {}

dh(a, b) == {a, b}

\* rootKdf(rootKey, dhOut) = { rootKey, chainKey }.
rootKdf(root, dhOut) == Append(root, dhOut)
FirstChainKey(root) == [root |-> root, n |-> 0]

\* kdfMessageKey(chain) = { messageKey, nextChainKey }, and `k` such calls.
MessageKey(chain) == chain
Advance(chain, k) == [chain EXCEPT !.n = @ + k]

\* A chain key yields the message keys at its position and after.
Derives(chain, key) == chain.root = key.root /\ chain.n <= key.n

----------------------------------------------------------------------------
(* RatchetState *)

\* A session and a message whose key material comes from the pairs in K only.
Root(K) == Seq(SUBSET K)
ChainKey(K) == [root : Root(K), n : Nat]
Message(K) ==
    [header : [dhPub : K, prevN : Nat, counter : Nat], key : ChainKey(K)]

\* The fields of RatchetState, with the cache sk.
Fields(K, sk) ==
    [ dhSelf : K, dhRemote : K \union {NoPub}, rootKey : Root(K),
      sendChain : SUBSET ChainKey(K), recvChain : SUBSET ChainKey(K),
      sendCounter : Nat, recvCounter : Nat, prevSendCounter : Nat,
      skipped : {sk} ]

IsSkippedMap(sk, K) ==
    /\ DOMAIN sk \subseteq K
    /\ \A r \in DOMAIN sk :
          /\ DOMAIN sk[r] \subseteq Nat
          /\ \A c \in DOMAIN sk[r] : sk[r][c] \in ChainKey(K)

IsRatchetState(s, K) ==
    /\ s \in Fields(K, s.skipped)
    /\ IsSkippedMap(s.skipped, K)
    /\ \A c, d \in s.sendChain : c = d
    /\ \A c, d \in s.recvChain : c = d

initRatchetAsAlice(sharedSecret, dhSelf, remote) ==
    LET root == rootKdf(sharedSecret, dh(dhSelf, remote))
    IN  [ dhSelf |-> dhSelf, dhRemote |-> remote, rootKey |-> root,
          sendChain |-> {FirstChainKey(root)}, recvChain |-> NoChain,
          sendCounter |-> 0, recvCounter |-> 0, prevSendCounter |-> 0,
          skipped |-> <<>> ]

initRatchetAsBob(sharedSecret, dhSelf) ==
    [ dhSelf |-> dhSelf, dhRemote |-> NoPub, rootKey |-> sharedSecret,
      sendChain |-> NoChain, recvChain |-> NoChain,
      sendCounter |-> 0, recvCounter |-> 0, prevSendCounter |-> 0,
      skipped |-> <<>> ]

----------------------------------------------------------------------------
(* encryptRatchet *)

CanEncrypt(s) == s.sendChain # NoChain

\* What the ciphertext reveals of itself: the header, and the key it opens with.
Sealed(s) ==
    [ header |-> [ dhPub |-> s.dhSelf, prevN |-> s.prevSendCounter,
                   counter |-> s.sendCounter ],
      key |-> MessageKey(CHOOSE c \in s.sendChain : TRUE) ]

\* Mutant: the counter moves and the chain key does not.
AfterEncrypt_ChainStays(s) == [s EXCEPT !.sendCounter = @ + 1]

AfterEncrypt(s) ==
    [s EXCEPT !.sendChain = {Advance(c, 1) : c \in @}, !.sendCounter = @ + 1]

----------------------------------------------------------------------------
(* The skipped-key cache: Map<dhPub, Map<counter, messageKey>> *)

Bucket(s, remote) ==
    IF remote \in DOMAIN s.skipped THEN s.skipped[remote] ELSE <<>>

SkippedSlots(s) ==
    UNION { {remote} \X DOMAIN s.skipped[remote] : remote \in DOMAIN s.skipped }

SkippedKeys(s) == { s.skipped[slot[1]][slot[2]] : slot \in SkippedSlots(s) }

totalSkipped(s) == Cardinality(SkippedSlots(s))

\* The loop of cacheSkipped runs for these counters, and for none without a
\* receiving chain.
ToSkip(s, upTo) ==
    IF s.recvChain = NoChain THEN {} ELSE s.recvCounter .. (upTo - 1)

\* The loop throws RATCHET_SKIP_LIMIT or RATCHET_GLOBAL_SKIP_LIMIT as soon as
\* the bucket or the session is full and one more key has to be cached.
SkipAllowed(s, remote, upTo) ==
    LET need == Cardinality(ToSkip(s, upTo))
    IN  need > 0 =>
            /\ Cardinality(DOMAIN Bucket(s, remote)) + need <= MaxSkip
            /\ totalSkipped(s) + need <= GlobalSkipCap

\* Mutant: the loop runs while recvCounter <= upTo.
cacheSkipped_Inclusive(s, remote, upTo) ==
    LET new == IF s.recvChain = NoChain THEN {} ELSE s.recvCounter .. upTo
        added == [ c \in new |-> Advance(CHOOSE k \in s.recvChain : TRUE,
                                         c - s.recvCounter) ]
    IN  IF new = {} THEN s
        ELSE [s EXCEPT !.skipped = [ r \in DOMAIN @ \union {remote} |->
                                       IF r = remote
                                       THEN [ c \in DOMAIN Bucket(s, r) \union new |->
                                              IF c \in new THEN added[c] ELSE @[r][c] ]
                                       ELSE @[r] ],
                       !.recvChain = {Advance(k, upTo - s.recvCounter) : k \in @},
                       !.recvCounter = upTo ]

cacheSkipped(s, remote, upTo) ==
    LET new == ToSkip(s, upTo)
        bucket == Bucket(s, remote)
        filled == [ c \in DOMAIN bucket \union new |->
                      IF c \in new
                      THEN MessageKey(Advance(CHOOSE k \in s.recvChain : TRUE,
                                              c - s.recvCounter))
                      ELSE bucket[c] ]
    IN  IF new = {} THEN s
        ELSE [s EXCEPT !.skipped = [ r \in DOMAIN @ \union {remote} |->
                                       IF r = remote THEN filled ELSE @[r] ],
                       !.recvChain = {Advance(k, upTo - s.recvCounter) : k \in @},
                       !.recvCounter = upTo ]

\* tryDecryptSkipped finds a key; the key is dropped, and so is a bucket left
\* empty.
HasSkipped(s, h) ==
    h.dhPub \in DOMAIN s.skipped /\ h.counter \in DOMAIN s.skipped[h.dhPub]

\* Mutants: the key used stays in its bucket; the emptied bucket stays.
DropSkipped_KeepsKey(s, h) == s
DropSkipped_KeepsBucket(s, h) ==
    [s EXCEPT !.skipped[h.dhPub] = Restrict(@, DOMAIN @ \ {h.counter})]

DropSkipped(s, h) ==
    LET rest == Restrict(s.skipped[h.dhPub], DOMAIN s.skipped[h.dhPub] \ {h.counter})
    IN  [s EXCEPT !.skipped =
            IF DOMAIN rest = {} THEN Restrict(@, DOMAIN @ \ {h.dhPub})
                                ELSE [@ EXCEPT ![h.dhPub] = rest] ]

----------------------------------------------------------------------------
(* decryptRatchet.  `fresh` is the pair generateX25519KeyPair() returns if  *)
(* the message makes the DH ratchet step.                                   *)

\* Mutant: the header carries the last index of the old chain, not its length.
dhRatchetStep_LastIndex(s, newRemote, fresh) ==
    LET recvRoot == rootKdf(s.rootKey, dh(s.dhSelf, newRemote))
        sendRoot == rootKdf(recvRoot, dh(fresh, newRemote))
    IN  [s EXCEPT !.prevSendCounter = s.sendCounter - 1, !.sendCounter = 0,
                  !.recvCounter = 0, !.dhRemote = newRemote,
                  !.recvChain = {FirstChainKey(recvRoot)},
                  !.dhSelf = fresh, !.rootKey = sendRoot,
                  !.sendChain = {FirstChainKey(sendRoot)} ]

dhRatchetStep(s, newRemote, fresh) ==
    LET recvRoot == rootKdf(s.rootKey, dh(s.dhSelf, newRemote))
        sendRoot == rootKdf(recvRoot, dh(fresh, newRemote))
    IN  [s EXCEPT !.prevSendCounter = s.sendCounter, !.sendCounter = 0,
                  !.recvCounter = 0, !.dhRemote = newRemote,
                  !.recvChain = {FirstChainKey(recvRoot)},
                  !.dhSelf = fresh, !.rootKey = sendRoot,
                  !.sendChain = {FirstChainKey(sendRoot)} ]

StepsRatchet(s, h) == ~HasSkipped(s, h) /\ h.dhPub # s.dhRemote

\* The old chain is closed up to previousChainLength, if there is one.
ClosesAllowed(s, h) ==
    s.dhRemote # NoPub => SkipAllowed(s, s.dhRemote, h.prevN)

\* Mutant: the DH step is made without closing the old receiving chain.
Turned_NoClose(s, h, fresh) ==
    IF h.dhPub = s.dhRemote THEN s ELSE dhRatchetStep(s, h.dhPub, fresh)

Turned(s, h, fresh) ==
    IF h.dhPub = s.dhRemote THEN s
    ELSE dhRatchetStep(
            IF s.dhRemote = NoPub THEN s ELSE cacheSkipped(s, s.dhRemote, h.prevN),
            h.dhPub, fresh)

\* No throw, and AES-GCM accepts the key the state yields for the header.
Opens(s, m, fresh) ==
    LET h == m.header
        t == Turned(s, h, fresh)
        u == cacheSkipped(t, h.dhPub, h.counter)
    IN  IF HasSkipped(s, h) THEN s.skipped[h.dhPub][h.counter] = m.key
        ELSE /\ h.dhPub # s.dhRemote => ClosesAllowed(s, h)
             /\ SkipAllowed(t, h.dhPub, h.counter)
             /\ m.key \in {MessageKey(c) : c \in u.recvChain}

\* The head of the receiving chain is taken.
HeadTaken(s) ==
    [s EXCEPT !.recvChain = {Advance(c, 1) : c \in @}, !.recvCounter = @ + 1]

\* The state decryptRatchet leaves behind when it returns a plaintext.
AfterDecrypt(s, m, fresh) ==
    LET h == m.header
    IN  IF HasSkipped(s, h) THEN DropSkipped(s, h)
        ELSE HeadTaken(cacheSkipped(Turned(s, h, fresh), h.dhPub, h.counter))
=============================================================================
