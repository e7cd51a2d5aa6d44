------------------------ MODULE DoubleRatchetProofs ------------------------
(***************************************************************************)
(* Lemmas about the operators of DoubleRatchet, for any set K of key pairs.*)
(***************************************************************************)
EXTENDS DoubleRatchet, FiniteSetTheorems, TLAPS

(***************************************************************************)
(* More key pairs, more key material: what is drawn from K is drawn from   *)
(* any larger set.                                                         *)
(***************************************************************************)
LEMMA RootGrows ==
    ASSUME NEW K, NEW L, K \subseteq L
    PROVE  /\ Root(K) \subseteq Root(L)
           /\ ChainKey(K) \subseteq ChainKey(L)
           /\ Message(K) \subseteq Message(L)
<1>1. Root(K) \subseteq Root(L)
  BY DEF Root
<1>2. ChainKey(K) \subseteq ChainKey(L)
  BY <1>1 DEF ChainKey
<1> QED
  BY <1>1, <1>2 DEF Message

LEMMA StateGrows ==
    ASSUME NEW K, NEW L, K \subseteq L, NEW s, IsRatchetState(s, K)
    PROVE  IsRatchetState(s, L)
<1>0. Root(K) \subseteq Root(L) /\ ChainKey(K) \subseteq ChainKey(L)
  BY RootGrows
<1>1. s \in Fields(L, s.skipped)
  BY <1>0 DEF IsRatchetState, Fields
<1>2. IsSkippedMap(s.skipped, L)
  BY <1>0 DEF IsRatchetState, IsSkippedMap
<1> QED
  BY <1>1, <1>2 DEF IsRatchetState

(***************************************************************************)
(* A chain key is NoChain or holds one key: picking it out of the set.     *)
(***************************************************************************)
LEMMA TheChain ==
    ASSUME NEW S, \A c, d \in S : c = d, S # {}
    PROVE  /\ (CHOOSE c \in S : TRUE) \in S
           /\ S = {CHOOSE c \in S : TRUE}
OBVIOUS

LEMMA AdvanceShape ==
    ASSUME NEW K, NEW c \in ChainKey(K), NEW k \in Nat
    PROVE  /\ Advance(c, k) \in ChainKey(K)
           /\ Advance(c, k).root = c.root
           /\ Advance(c, k).n = c.n + k
BY DEF Advance, ChainKey

LEMMA AdvanceOne ==
    ASSUME NEW K, NEW S, S \subseteq ChainKey(K), \A c, d \in S : c = d,
           NEW k \in Nat
    PROVE  /\ {Advance(c, k) : c \in S} \subseteq ChainKey(K)
           /\ \A c, d \in {Advance(e, k) : e \in S} : c = d
BY AdvanceShape

(***************************************************************************)
(* encryptRatchet keeps the shape of the session and seals a message whose *)
(* key material is the session's own.                                      *)
(***************************************************************************)
LEMMA EncryptShape ==
    ASSUME NEW K, NEW s, IsRatchetState(s, K), CanEncrypt(s)
    PROVE  /\ IsRatchetState(AfterEncrypt(s), K)
           /\ Sealed(s) \in Message(K)
           /\ Sealed(s).key \in s.sendChain
           /\ s.sendChain = {Sealed(s).key}
<1> DEFINE c == CHOOSE c \in s.sendChain : TRUE
<1>1. c \in s.sendChain /\ s.sendChain = {c}
  BY TheChain DEF IsRatchetState, Fields, CanEncrypt, NoChain
<1>2. Sealed(s) = [ header |-> [ dhPub |-> s.dhSelf, prevN |-> s.prevSendCounter,
                                 counter |-> s.sendCounter ], key |-> c ]
  BY DEF Sealed, MessageKey
<1>3. Sealed(s) \in Message(K)
  BY <1>1, <1>2 DEF Message, IsRatchetState, Fields
<1> DEFINE next == {Advance(e, 1) : e \in s.sendChain}
<1>4. next \subseteq ChainKey(K) /\ \A e, d \in next : e = d
  <2>1. s.sendChain \subseteq ChainKey(K) /\ \A e, d \in s.sendChain : e = d
    BY DEF IsRatchetState, Fields
  <2> HIDE DEF next
  <2> QED
    BY <2>1, AdvanceOne DEF next
<1>5. IsRatchetState(AfterEncrypt(s), K)
  <2> DEFINE t == [s EXCEPT !.sendChain = next, !.sendCounter = @ + 1]
  <2>1. AfterEncrypt(s) = t
    BY DEF AfterEncrypt
  <2> HIDE DEF next
  <2>0. s.sendCounter + 1 \in Nat
    BY DEF IsRatchetState, Fields
  <2>2. /\ t \in Fields(K, s.skipped)
        /\ t.sendChain = next /\ t.recvChain = s.recvChain /\ t.skipped = s.skipped
    BY <1>4, <2>0 DEF IsRatchetState, Fields
  <2> HIDE DEF t
  <2>3. IsRatchetState(t, K)
    BY <1>4, <2>2 DEF IsRatchetState
  <2> QED
    BY <2>1, <2>3
<1> QED
  BY <1>1, <1>2, <1>3, <1>5

(***************************************************************************)
(* cacheSkipped either changes nothing or walks the receiving chain from   *)
(* recvCounter to upTo, leaving in remote's bucket the keys it passes.     *)
(***************************************************************************)
CachedTo(s, t, remote, upTo, k) ==
    /\ s.recvChain = {k}
    /\ s.recvCounter < upTo
    /\ t.recvChain = {Advance(k, upTo - s.recvCounter)}
    /\ t.recvCounter = upTo
    /\ DOMAIN t.skipped \subseteq DOMAIN s.skipped \union {remote}
    /\ \A r \in DOMAIN t.skipped : \A c \in DOMAIN t.skipped[r] :
          \/ /\ r \in DOMAIN s.skipped /\ c \in DOMAIN s.skipped[r]
             /\ t.skipped[r][c] = s.skipped[r][c]
          \/ /\ r = remote /\ c \in s.recvCounter .. (upTo - 1)
             /\ t.skipped[r][c] = Advance(k, c - s.recvCounter)

SameOtherwise(s, t) ==
    /\ t.dhSelf = s.dhSelf /\ t.dhRemote = s.dhRemote /\ t.rootKey = s.rootKey
    /\ t.sendChain = s.sendChain /\ t.sendCounter = s.sendCounter

LEMMA CacheStep ==
    ASSUME NEW K, NEW s, IsRatchetState(s, K), NEW remote \in K, NEW upTo \in Nat
    PROVE  LET t == cacheSkipped(s, remote, upTo)
           IN  /\ IsRatchetState(t, K)
               /\ SameOtherwise(s, t)
               /\ t = s \/ \E k \in s.recvChain : CachedTo(s, t, remote, upTo, k)
<1> DEFINE new == ToSkip(s, upTo)
           k == CHOOSE c \in s.recvChain : TRUE
           bucket == Bucket(s, remote)
           filled == [ c \in DOMAIN bucket \union new |->
                        IF c \in new THEN Advance(k, c - s.recvCounter) ELSE bucket[c] ]
           sk == [ r \in DOMAIN s.skipped \union {remote} |->
                      IF r = remote THEN filled ELSE s.skipped[r] ]
           moved == {Advance(c, upTo - s.recvCounter) : c \in s.recvChain}
           t == [s EXCEPT !.skipped = sk, !.recvChain = moved, !.recvCounter = upTo]
<1>1. CASE new = {}
  <2>1. cacheSkipped(s, remote, upTo) = s
    BY <1>1 DEF cacheSkipped
  <2> QED
    BY <2>1 DEF SameOtherwise
<1>2. CASE new # {}
  <2>1. cacheSkipped(s, remote, upTo) = t
    BY <1>2 DEF cacheSkipped, MessageKey
  <2>2. /\ s.recvCounter \in Nat
        /\ s.recvChain \subseteq ChainKey(K)
        /\ \A c, d \in s.recvChain : c = d
        /\ IsSkippedMap(s.skipped, K)
    BY DEF IsRatchetState, Fields
  <2>3. s.recvChain # {} /\ new = s.recvCounter .. (upTo - 1) /\ s.recvCounter < upTo
    BY <1>2, <2>2 DEF ToSkip, NoChain
  <2>4. k \in ChainKey(K) /\ s.recvChain = {k}
    BY <2>2, <2>3, TheChain
  <2>5. upTo - s.recvCounter \in Nat /\ new \subseteq Nat
    BY <2>2, <2>3
  <2>6. moved = {Advance(k, upTo - s.recvCounter)} /\ moved \subseteq ChainKey(K)
    <3>1. Advance(k, upTo - s.recvCounter) \in ChainKey(K)
      BY <2>4, <2>5, AdvanceShape
    <3>2. moved = {Advance(k, upTo - s.recvCounter)}
      <4> HIDE DEF k
      <4> QED
        BY <2>4
    <3> QED
      BY <3>1, <3>2
  <2>7. IsSkippedMap(sk, K)
    <3>1. DOMAIN bucket \subseteq Nat /\ \A c \in DOMAIN bucket : bucket[c] \in ChainKey(K)
      BY <2>2 DEF Bucket, IsSkippedMap
    <3>2. \A c \in new : c - s.recvCounter \in Nat
      BY <2>2, <2>3
    <3>3. \A c \in new : Advance(k, c - s.recvCounter) \in ChainKey(K)
      BY <2>4, <3>2, AdvanceShape
    <3>4. DOMAIN filled \subseteq Nat /\ \A c \in DOMAIN filled : filled[c] \in ChainKey(K)
      BY <2>5, <3>1, <3>3
    <3> QED
      BY <2>2, <3>4 DEF IsSkippedMap
  <2>8. t \in Fields(K, sk) /\ t.skipped = sk /\ t.recvChain = moved
        /\ t.recvCounter = upTo /\ SameOtherwise(s, t)
    <3> HIDE DEF sk, moved
    <3> QED
      BY <2>6 DEF IsRatchetState, Fields, SameOtherwise
  <2>9. IsRatchetState(t, K)
    <3>1. \A c, d \in t.sendChain : c = d
      BY <2>8 DEF IsRatchetState, SameOtherwise
    <3> HIDE DEF sk, moved, t
    <3> QED
      BY <2>6, <2>7, <2>8, <3>1 DEF IsRatchetState
  <2>10. CachedTo(s, t, remote, upTo, k)
    <3>1. \A r \in DOMAIN sk : \A c \in DOMAIN sk[r] :
             \/ /\ r \in DOMAIN s.skipped /\ c \in DOMAIN s.skipped[r]
                /\ sk[r][c] = s.skipped[r][c]
             \/ /\ r = remote /\ c \in s.recvCounter .. (upTo - 1)
                /\ sk[r][c] = Advance(k, c - s.recvCounter)
      <4> SUFFICES ASSUME NEW r \in DOMAIN sk, NEW c \in DOMAIN sk[r]
                   PROVE  \/ /\ r \in DOMAIN s.skipped /\ c \in DOMAIN s.skipped[r]
                             /\ sk[r][c] = s.skipped[r][c]
                          \/ /\ r = remote /\ c \in s.recvCounter .. (upTo - 1)
                             /\ sk[r][c] = Advance(k, c - s.recvCounter)
        OBVIOUS
      <4>1. CASE r = remote
        <5>1. sk[r] = filled
          BY <4>1
        <5>2. CASE c \in new
          BY <2>3, <4>1, <5>1, <5>2
        <5>3. CASE c \notin new
          <6>1. c \in DOMAIN bucket /\ sk[r][c] = bucket[c]
            BY <5>1, <5>3
          <6> QED
            BY <4>1, <6>1 DEF Bucket
        <5> QED
          BY <5>2, <5>3
      <4>2. CASE r # remote
        BY <4>2
      <4> QED
        BY <4>1, <4>2
    <3>2. DOMAIN sk \subseteq DOMAIN s.skipped \union {remote}
      OBVIOUS
    <3> HIDE DEF sk, moved, t, k
    <3> QED
      BY <2>3, <2>4, <2>6, <2>8, <3>1, <3>2 DEF CachedTo
  <2> HIDE DEF t
  <2> QED
    BY <2>1, <2>4, <2>8, <2>9, <2>10
<1> QED
  BY <1>1, <1>2

(***************************************************************************)
(* dhRatchetStep derives both chains from roots that mix in the new remote *)
(* key and the fresh pair.                                                 *)
(***************************************************************************)
RecvRoot(s, newRemote) == Append(s.rootKey, {s.dhSelf, newRemote})

Stepped(s, t, newRemote, fresh) ==
    /\ t.recvChain = {FirstChainKey(RecvRoot(s, newRemote))}
    /\ t.rootKey = Append(RecvRoot(s, newRemote), {fresh, newRemote})
    /\ t.sendChain = {FirstChainKey(t.rootKey)}
    /\ t.sendCounter = 0 /\ t.recvCounter = 0
    /\ t.dhSelf = fresh /\ t.dhRemote = newRemote
    /\ t.skipped = s.skipped

LEMMA DhStep ==
    ASSUME NEW K, NEW s, IsRatchetState(s, K), NEW newRemote \in K, NEW fresh \in K
    PROVE  /\ IsRatchetState(dhRatchetStep(s, newRemote, fresh), K)
           /\ Stepped(s, dhRatchetStep(s, newRemote, fresh), newRemote, fresh)
<1> DEFINE recvRoot == Append(s.rootKey, {s.dhSelf, newRemote})
           sendRoot == Append(recvRoot, {fresh, newRemote})
           rc == {FirstChainKey(recvRoot)}
           sc == {FirstChainKey(sendRoot)}
           t == [s EXCEPT !.prevSendCounter = s.sendCounter, !.sendCounter = 0,
                          !.recvCounter = 0, !.dhRemote = newRemote,
                          !.recvChain = rc, !.dhSelf = fresh,
                          !.rootKey = sendRoot, !.sendChain = sc ]
<1>1. dhRatchetStep(s, newRemote, fresh) = t
  BY DEF dhRatchetStep, rootKdf, dh
<1>2. recvRoot \in Root(K) /\ sendRoot \in Root(K)
  BY DEF IsRatchetState, Fields, Root
<1>3. rc \subseteq ChainKey(K) /\ sc \subseteq ChainKey(K)
  BY <1>2 DEF FirstChainKey, ChainKey
<1>4. /\ t \in Fields(K, s.skipped)
      /\ t.recvChain = rc /\ t.rootKey = sendRoot /\ t.sendChain = sc
      /\ t.sendCounter = 0 /\ t.recvCounter = 0
      /\ t.dhSelf = fresh /\ t.dhRemote = newRemote /\ t.skipped = s.skipped
  <2> HIDE DEF rc, sc, sendRoot
  <2> QED
    BY <1>2, <1>3 DEF IsRatchetState, Fields
<1>5. IsRatchetState(t, K)
  <2>1. (\A c, d \in rc : c = d) /\ (\A c, d \in sc : c = d)
    OBVIOUS
  <2> HIDE DEF rc, sc, sendRoot, t
  <2> QED
    BY <1>4, <2>1 DEF IsRatchetState
<1>6. Stepped(s, t, newRemote, fresh)
  <2> HIDE DEF t
  <2> QED
    BY <1>4 DEF Stepped, RecvRoot
<1> QED
  BY <1>1, <1>5, <1>6

(***************************************************************************)
(* DropSkipped removes one cached key, touches no other slot and nothing   *)
(* else of the session.                                                    *)
(***************************************************************************)
LEMMA DropStep ==
    ASSUME NEW K, NEW s, IsRatchetState(s, K), NEW h, HasSkipped(s, h)
    PROVE  LET t == DropSkipped(s, h)
           IN  /\ IsRatchetState(t, K)
               /\ SameOtherwise(s, t)
               /\ t.recvChain = s.recvChain /\ t.recvCounter = s.recvCounter
               /\ \A r \in DOMAIN t.skipped : \A c \in DOMAIN t.skipped[r] :
                     /\ r \in DOMAIN s.skipped /\ c \in DOMAIN s.skipped[r]
                     /\ t.skipped[r][c] = s.skipped[r][c]
                     /\ ~(r = h.dhPub /\ c = h.counter)
               /\ DOMAIN t.skipped \subseteq DOMAIN s.skipped
<1> DEFINE bucket == s.skipped[h.dhPub]
           rest == Restrict(bucket, DOMAIN bucket \ {h.counter})
           sk == IF DOMAIN rest = {}
                 THEN Restrict(s.skipped, DOMAIN s.skipped \ {h.dhPub})
                 ELSE [s.skipped EXCEPT ![h.dhPub] = rest]
           t == [s EXCEPT !.skipped = sk]
<1>1. DropSkipped(s, h) = t
  BY DEF DropSkipped
<1>2. /\ h.dhPub \in DOMAIN s.skipped
      /\ IsSkippedMap(s.skipped, K)
  BY DEF HasSkipped, IsRatchetState
<1>3. /\ DOMAIN rest = DOMAIN bucket \ {h.counter}
      /\ \A c \in DOMAIN rest : rest[c] = bucket[c]
  BY DEF Restrict
<1>4. \A r \in DOMAIN sk : \A c \in DOMAIN sk[r] :
         /\ r \in DOMAIN s.skipped /\ c \in DOMAIN s.skipped[r]
         /\ sk[r][c] = s.skipped[r][c]
         /\ ~(r = h.dhPub /\ c = h.counter)
  <2> HIDE DEF rest
  <2>1. CASE DOMAIN rest = {}
    BY <2>1 DEF Restrict
  <2>2. CASE DOMAIN rest # {}
    <3>1. sk = [s.skipped EXCEPT ![h.dhPub] = rest]
      BY <2>2
    <3> QED
      BY <1>2, <1>3, <3>1
  <2> QED
    BY <2>1, <2>2
<1>8. DOMAIN sk \subseteq DOMAIN s.skipped
  BY DEF Restrict
<1>5. IsSkippedMap(sk, K)
  <2> HIDE DEF sk
  <2> QED
    BY <1>2, <1>4, <1>8 DEF IsSkippedMap
<1>6. t \in Fields(K, sk) /\ t.skipped = sk /\ SameOtherwise(s, t)
      /\ t.recvChain = s.recvChain /\ t.recvCounter = s.recvCounter
  <2> HIDE DEF sk
  <2> QED
    BY DEF IsRatchetState, Fields, SameOtherwise
<1>7. IsRatchetState(t, K)
  <2> HIDE DEF sk, t
  <2> QED
    BY <1>5, <1>6 DEF IsRatchetState, SameOtherwise
<1> HIDE DEF t, sk
<1> QED
  BY <1>1, <1>4, <1>6, <1>7, <1>8

----------------------------------------------------------------------------
(* Keys behind the ratchet.  A key is behind a session when neither its     *)
(* receiving chain nor any chain it can still step to yields that key: the  *)
(* root it was derived from is no longer than the current root.             *)

Behind(s, key) ==
    /\ Len(key.root) <= Len(s.rootKey)
    /\ \A c \in s.recvChain : ~Derives(c, key)

\* The last DH output in the root joins a key of owner to the remote key r.
EndsIn(owner, root, r) ==
    /\ Len(root) > 0
    /\ \E x \in root[Len(root)] : x[1] = owner /\ root[Len(root)] = {x, r}

\* Every key sits where its root and its position say, and cached keys are
\* behind the ratchet.
Tidy(owner, s) ==
    /\ s.dhSelf[1] = owner
    /\ s.recvChain # {} => s.dhRemote # NoPub /\ s.dhRemote[1] # owner
    /\ \A c \in s.recvChain :
          /\ Len(c.root) <= Len(s.rootKey)
          /\ c.n = s.recvCounter
          /\ EndsIn(owner, c.root, s.dhRemote)
    /\ \A r \in DOMAIN s.skipped : r[1] # owner
    /\ \A r \in DOMAIN s.skipped : \A c \in DOMAIN s.skipped[r] :
          /\ s.skipped[r][c].n = c
          /\ EndsIn(owner, s.skipped[r][c].root, r)
          /\ Behind(s, s.skipped[r][c])

Spent(s, key) == Behind(s, key) /\ key \notin SkippedKeys(s)

\* From s to t no key comes back.
NoneReturns(s, t, K) ==
    \A key \in ChainKey(K) :
        /\ Behind(s, key) => Behind(t, key)
        /\ Spent(s, key) => Spent(t, key)

LEMMA SkippedKeysAre ==
    ASSUME NEW s, NEW key
    PROVE  key \in SkippedKeys(s)
              <=> \E r \in DOMAIN s.skipped : \E c \in DOMAIN s.skipped[r] :
                     s.skipped[r][c] = key
<1>1. ASSUME key \in SkippedKeys(s)
      PROVE  \E r \in DOMAIN s.skipped : \E c \in DOMAIN s.skipped[r] :
                 s.skipped[r][c] = key
  BY <1>1 DEF SkippedKeys, SkippedSlots
<1>2. ASSUME NEW r \in DOMAIN s.skipped, NEW c \in DOMAIN s.skipped[r],
             s.skipped[r][c] = key
      PROVE  key \in SkippedKeys(s)
  <2>1. <<r, c>> \in SkippedSlots(s)
    BY <1>2 DEF SkippedSlots
  <2>2. s.skipped[<<r, c>>[1]][<<r, c>>[2]] = key
    BY <1>2
  <2> QED
    BY <2>1, <2>2 DEF SkippedKeys
<1> QED
  BY <1>1, <1>2

LEMMA EndsInOne ==
    ASSUME NEW owner, NEW root, NEW r1, NEW r2, r1[1] # owner, r2[1] # owner,
           EndsIn(owner, root, r1), EndsIn(owner, root, r2)
    PROVE  r1 = r2
<1>1. PICK x : x[1] = owner /\ root[Len(root)] = {x, r1}
  BY DEF EndsIn
<1>2. PICK y : y[1] = owner /\ root[Len(root)] = {y, r2}
  BY DEF EndsIn
<1>3. {x, r1} = {y, r2} /\ x # r2
  BY <1>1, <1>2
<1> QED
  BY <1>1, <1>2, <1>3

(***************************************************************************)
(* cacheSkipped on the current remote key brings no key back.              *)
(***************************************************************************)
LEMMA CacheTidy ==
    ASSUME NEW K, NEW s, IsRatchetState(s, K), NEW upTo \in Nat,
           NEW owner, Tidy(owner, s), s.dhRemote \in K
    PROVE  LET t == cacheSkipped(s, s.dhRemote, upTo)
           IN  Tidy(owner, t) /\ NoneReturns(s, t, K)
<1> DEFINE t == cacheSkipped(s, s.dhRemote, upTo)
<1>1. /\ IsRatchetState(t, K)
      /\ SameOtherwise(s, t)
      /\ t = s \/ \E k \in s.recvChain : CachedTo(s, t, s.dhRemote, upTo, k)
  BY CacheStep
<1> HIDE DEF t
<1>2. CASE t = s
  BY <1>2 DEF NoneReturns, t
<1>3. ASSUME NEW k \in s.recvChain, CachedTo(s, t, s.dhRemote, upTo, k)
      PROVE  Tidy(owner, t) /\ NoneReturns(s, t, K)
  <2> DEFINE j == Advance(k, upTo - s.recvCounter)
  <2>1. /\ k \in ChainKey(K) /\ k.root \in Root(K) /\ k.n = s.recvCounter
        /\ s.recvCounter \in Nat /\ s.recvCounter < upTo
        /\ upTo - s.recvCounter \in Nat
    BY <1>3 DEF CachedTo, IsRatchetState, Fields, ChainKey, Tidy
  <2>2. j \in ChainKey(K) /\ j.root = k.root /\ j.n = upTo
    <3>1. k.n + (upTo - s.recvCounter) = upTo
      BY <2>1
    <3>2. j \in ChainKey(K) /\ j.root = k.root /\ j.n = k.n + (upTo - s.recvCounter)
      BY <2>1, AdvanceShape
    <3> HIDE DEF j
    <3> QED
      BY <3>1, <3>2
  <2>3. /\ s.recvChain = {k} /\ t.recvChain = {j} /\ t.recvCounter = upTo
        /\ t.rootKey = s.rootKey /\ t.dhRemote = s.dhRemote /\ t.dhSelf = s.dhSelf
    BY <1>1, <1>3 DEF CachedTo, SameOtherwise
  <2>4. ASSUME NEW c \in s.recvCounter .. (upTo - 1)
        PROVE  LET key == Advance(k, c - s.recvCounter)
               IN  key.root = k.root /\ key.n = c /\ c < upTo /\ c >= k.n
    <3>1. c - s.recvCounter \in Nat /\ k.n + (c - s.recvCounter) = c
          /\ c < upTo /\ c >= k.n
      BY <2>1, <2>4
    <3> QED
      BY <2>1, <3>1, AdvanceShape
  <2>5. ASSUME NEW key \in ChainKey(K), Behind(s, key)
        PROVE  Behind(t, key)
    BY <2>1, <2>2, <2>3, <2>5 DEF Behind, Derives, ChainKey
  <2>6. ASSUME NEW r \in DOMAIN t.skipped, NEW c \in DOMAIN t.skipped[r]
        PROVE  LET key == t.skipped[r][c]
               IN  \/ r \in DOMAIN s.skipped /\ c \in DOMAIN s.skipped[r]
                      /\ key = s.skipped[r][c]
                   \/ r = s.dhRemote /\ key.root = k.root /\ key.n = c
                      /\ c < upTo /\ k.n <= c
    BY <1>3, <2>4, <2>6 DEF CachedTo
  <2>7. ASSUME NEW key \in ChainKey(K), Spent(s, key)
        PROVE  Spent(t, key)
    <3>1. Behind(s, key) /\ Behind(t, key)
      BY <2>5, <2>7 DEF Spent
    <3>2. ASSUME NEW r \in DOMAIN t.skipped, NEW c \in DOMAIN t.skipped[r],
                 t.skipped[r][c] = key
          PROVE  FALSE
      <4>1. CASE r \in DOMAIN s.skipped /\ c \in DOMAIN s.skipped[r]
                 /\ key = s.skipped[r][c]
        BY <2>7, <4>1, SkippedKeysAre DEF Spent
      <4>2. CASE key.root = k.root /\ k.n <= key.n
        BY <2>3, <3>1, <4>2 DEF Behind, Derives
      <4> QED
        BY <2>6, <3>2, <4>1, <4>2
    <3> QED
      BY <3>1, <3>2, SkippedKeysAre DEF Spent
  <2>8. NoneReturns(s, t, K)
    BY <2>5, <2>7 DEF NoneReturns
  <2>9. Tidy(owner, t)
    <3>1. t.dhSelf[1] = owner /\ t.dhRemote # NoPub /\ t.dhRemote[1] # owner
      BY <2>3 DEF Tidy
    <3>2. \A c \in t.recvChain : /\ Len(c.root) <= Len(t.rootKey)
                                /\ c.n = t.recvCounter
                                /\ EndsIn(owner, c.root, t.dhRemote)
      <4> HIDE DEF j
      <4> QED
        BY <2>2, <2>3 DEF Tidy
    <3>3. \A r \in DOMAIN t.skipped : r[1] # owner
      <4>1. DOMAIN t.skipped \subseteq DOMAIN s.skipped \union {s.dhRemote}
        BY <1>3 DEF CachedTo
      <4> QED
        BY <2>3, <3>1, <4>1 DEF Tidy
    <3>4. ASSUME NEW r \in DOMAIN t.skipped, NEW c \in DOMAIN t.skipped[r]
          PROVE  /\ t.skipped[r][c].n = c
                 /\ EndsIn(owner, t.skipped[r][c].root, r)
                 /\ Behind(t, t.skipped[r][c])
      <4>1. t.skipped[r][c] \in ChainKey(K)
        BY <1>1, <3>4 DEF IsRatchetState, IsSkippedMap
      <4>2. CASE r \in DOMAIN s.skipped /\ c \in DOMAIN s.skipped[r]
                 /\ t.skipped[r][c] = s.skipped[r][c]
        BY <2>5, <4>1, <4>2 DEF Tidy
      <4>3. CASE r = s.dhRemote /\ t.skipped[r][c].root = k.root
                 /\ t.skipped[r][c].n = c /\ c < upTo
        <5>1. Len(k.root) <= Len(s.rootKey) /\ EndsIn(owner, k.root, s.dhRemote)
          BY DEF Tidy
        <5>2. c \in Nat
          BY <1>1, <3>4 DEF IsRatchetState, IsSkippedMap
        <5> QED
          BY <2>2, <2>3, <4>3, <5>1, <5>2 DEF Behind, Derives
      <4> QED
        BY <2>6, <4>2, <4>3
    <3> QED
      BY <3>1, <3>2, <3>3, <3>4 DEF Tidy
  <2> QED
    BY <2>8, <2>9
<1> QED
  BY <1>1, <1>2, <1>3 DEF t

(***************************************************************************)
(* The DH step brings no key back: its chains come from longer roots.      *)
(***************************************************************************)
LEMMA DhTidy ==
    ASSUME NEW K, NEW s, IsRatchetState(s, K), NEW owner, Tidy(owner, s),
           NEW newRemote \in K, NEW fresh \in K,
           newRemote # NoPub, newRemote[1] # owner, fresh[1] = owner
    PROVE  LET t == dhRatchetStep(s, newRemote, fresh)
           IN  Tidy(owner, t) /\ NoneReturns(s, t, K)
<1> DEFINE t == dhRatchetStep(s, newRemote, fresh)
           recvRoot == RecvRoot(s, newRemote)
           c0 == FirstChainKey(recvRoot)
<1>1. /\ t.recvChain = {c0}
      /\ t.rootKey = Append(recvRoot, {fresh, newRemote})
      /\ t.recvCounter = 0
      /\ t.dhSelf = fresh /\ t.dhRemote = newRemote
      /\ t.skipped = s.skipped
  <2>1. Stepped(s, t, newRemote, fresh)
    BY DhStep
  <2> HIDE DEF t, recvRoot, c0
  <2>2. t.rootKey = Append(RecvRoot(s, newRemote), {fresh, newRemote})
        /\ t.recvChain = {FirstChainKey(RecvRoot(s, newRemote))}
    BY <2>1 DEF Stepped
  <2> QED
    BY <2>1, <2>2 DEF Stepped, recvRoot, c0
<1> HIDE DEF t
<1>2. /\ s.rootKey \in Root(K) /\ IsSkippedMap(s.skipped, K)
      /\ s.dhSelf \in K
  BY DEF IsRatchetState, Fields
<1>3. /\ recvRoot \in Seq(SUBSET K)
      /\ Len(recvRoot) = Len(s.rootKey) + 1
      /\ recvRoot[Len(recvRoot)] = {s.dhSelf, newRemote}
      /\ Len(s.rootKey) \in Nat
  BY <1>2 DEF Root, RecvRoot
<1> HIDE DEF recvRoot
<1>4. Len(t.rootKey) = Len(s.rootKey) + 2
  BY <1>1, <1>3
<1>5. c0.root = recvRoot /\ c0.n = 0
  BY DEF FirstChainKey
<1> HIDE DEF c0
<1>6. ASSUME NEW key \in ChainKey(K), Behind(s, key)
      PROVE  Behind(t, key)
  <2>1. key.root \in Seq(SUBSET K) /\ Len(key.root) \in Nat
    BY <1>6 DEF ChainKey, Root
  <2>2. Len(key.root) <= Len(s.rootKey)
    BY <1>6 DEF Behind
  <2>3. Len(key.root) <= Len(t.rootKey) /\ Len(key.root) < Len(recvRoot)
    BY <1>3, <1>4, <2>1, <2>2
  <2>4. key.root # recvRoot
    BY <1>3, <2>1, <2>3
  <2> QED
    BY <1>1, <1>5, <2>3, <2>4 DEF Behind, Derives
<1>7. SkippedKeys(t) = SkippedKeys(s)
  BY <1>1 DEF SkippedKeys, SkippedSlots
<1>8. NoneReturns(s, t, K)
  BY <1>6, <1>7 DEF NoneReturns, Spent
<1>9. Tidy(owner, t)
  <2>1. EndsIn(owner, recvRoot, newRemote)
    BY <1>3 DEF EndsIn, Tidy
  <2>2. \A c \in t.recvChain : /\ Len(c.root) <= Len(t.rootKey)
                              /\ c.n = t.recvCounter
                              /\ EndsIn(owner, c.root, t.dhRemote)
    BY <1>1, <1>3, <1>4, <1>5, <2>1
  <2>3. ASSUME NEW r \in DOMAIN t.skipped, NEW c \in DOMAIN t.skipped[r]
        PROVE  /\ t.skipped[r][c].n = c
               /\ EndsIn(owner, t.skipped[r][c].root, r)
               /\ Behind(t, t.skipped[r][c])
    <3>1. s.skipped[r][c] \in ChainKey(K)
      BY <1>1, <1>2, <2>3 DEF IsSkippedMap
    <3> QED
      BY <1>1, <1>6, <2>3, <3>1 DEF Tidy
  <2>4. \A r \in DOMAIN t.skipped : r[1] # owner
    BY <1>1 DEF Tidy
  <2> QED
    BY <1>1, <2>2, <2>3, <2>4 DEF Tidy
<1> QED
  BY <1>8, <1>9 DEF t

(***************************************************************************)
(* Using a cached key: it leaves the cache and is spent.                   *)
(***************************************************************************)
LEMMA DropTidy ==
    ASSUME NEW K, NEW s, IsRatchetState(s, K), NEW owner, Tidy(owner, s),
           NEW h, HasSkipped(s, h)
    PROVE  LET t == DropSkipped(s, h)
           IN  /\ Tidy(owner, t)
               /\ NoneReturns(s, t, K)
               /\ Spent(t, s.skipped[h.dhPub][h.counter])
<1> DEFINE t == DropSkipped(s, h)
           key0 == s.skipped[h.dhPub][h.counter]
<1>1. /\ SameOtherwise(s, t)
      /\ t.recvChain = s.recvChain /\ t.recvCounter = s.recvCounter
      /\ \A r \in DOMAIN t.skipped : \A c \in DOMAIN t.skipped[r] :
            /\ r \in DOMAIN s.skipped /\ c \in DOMAIN s.skipped[r]
            /\ t.skipped[r][c] = s.skipped[r][c]
            /\ ~(r = h.dhPub /\ c = h.counter)
      /\ DOMAIN t.skipped \subseteq DOMAIN s.skipped
  BY DropStep
<1> HIDE DEF t
<1>2. h.dhPub \in DOMAIN s.skipped /\ h.counter \in DOMAIN s.skipped[h.dhPub]
  BY DEF HasSkipped
<1>3. \A key : Behind(s, key) => Behind(t, key)
  BY <1>1 DEF Behind, SameOtherwise
<1>4. \A key \in SkippedKeys(t) : key \in SkippedKeys(s)
  BY <1>1, SkippedKeysAre
<1>5. Tidy(owner, t)
  <2>1. \A r \in DOMAIN t.skipped : \A c \in DOMAIN t.skipped[r] :
           /\ t.skipped[r][c].n = c
           /\ EndsIn(owner, t.skipped[r][c].root, r)
           /\ Behind(t, t.skipped[r][c])
    BY <1>1, <1>3 DEF Tidy
  <2> QED
    BY <1>1, <2>1 DEF Tidy, SameOtherwise
<1>6. key0 \notin SkippedKeys(t)
  <2> SUFFICES ASSUME NEW r \in DOMAIN t.skipped, NEW c \in DOMAIN t.skipped[r],
                      t.skipped[r][c] = key0
               PROVE  FALSE
    BY SkippedKeysAre
  <2>1. /\ r \in DOMAIN s.skipped /\ c \in DOMAIN s.skipped[r]
        /\ s.skipped[r][c] = key0
        /\ ~(r = h.dhPub /\ c = h.counter)
    BY <1>1
  <2>2. /\ key0.n = c /\ key0.n = h.counter
        /\ EndsIn(owner, key0.root, r) /\ EndsIn(owner, key0.root, h.dhPub)
        /\ r[1] # owner /\ h.dhPub[1] # owner
    BY <1>2, <2>1 DEF Tidy
  <2>3. r = h.dhPub
    BY <2>2, EndsInOne
  <2> QED
    BY <2>1, <2>2, <2>3
<1>7. Behind(t, key0)
  BY <1>2, <1>3 DEF Tidy
<1> QED
  BY <1>3, <1>4, <1>5, <1>6, <1>7 DEF NoneReturns, Spent, t

LEMMA NoneReturnsTransitive ==
    ASSUME NEW K, NEW s, NEW t, NEW u, NoneReturns(s, t, K), NoneReturns(t, u, K)
    PROVE  NoneReturns(s, u, K)
BY DEF NoneReturns

(***************************************************************************)
(* The DH step of decryptRatchet, with the old chain closed before it.     *)
(***************************************************************************)
SendsFresh(t, newRemote, fresh, K) ==
    /\ t.dhSelf = fresh /\ t.sendCounter = 0
    /\ \E root \in Root(K) :
          t.sendChain = {FirstChainKey(Append(root, {fresh, newRemote}))}

TurnedTo(s, t, newRemote, fresh, K) ==
    /\ t.dhRemote = newRemote
    /\ newRemote = s.dhRemote => t = s
    /\ newRemote # s.dhRemote => SendsFresh(t, newRemote, fresh, K)

LEMMA TurnStep ==
    ASSUME NEW K, NEW s, IsRatchetState(s, K), NEW owner, Tidy(owner, s),
           NEW m \in Message(K), m.header.dhPub[1] # owner, m.header.dhPub # NoPub,
           NEW fresh \in K, fresh[1] = owner
    PROVE  LET h == m.header
               t == Turned(s, h, fresh)
           IN  /\ IsRatchetState(t, K) /\ Tidy(owner, t) /\ NoneReturns(s, t, K)
               /\ TurnedTo(s, t, h.dhPub, fresh, K)
<1> DEFINE h == m.header
           t == Turned(s, h, fresh)
           t1 == IF s.dhRemote = NoPub THEN s ELSE cacheSkipped(s, s.dhRemote, h.prevN)
<1>1. h.dhPub \in K /\ h.prevN \in Nat
  BY DEF Message
<1>2. CASE h.dhPub = s.dhRemote
  <2>1. t = s
    BY <1>2 DEF Turned
  <2> HIDE DEF t
  <2> QED
    BY <1>2, <2>1 DEF NoneReturns, TurnedTo, t
<1>3. CASE h.dhPub # s.dhRemote
  <2>1. t = dhRatchetStep(t1, h.dhPub, fresh)
    BY <1>3 DEF Turned
  <2>2. IsRatchetState(t1, K) /\ Tidy(owner, t1) /\ NoneReturns(s, t1, K)
    <3>1. CASE s.dhRemote = NoPub
      BY <3>1 DEF NoneReturns
    <3>2. CASE s.dhRemote # NoPub
      <4>1. s.dhRemote \in K
        BY <3>2 DEF IsRatchetState, Fields
      <4>2. t1 = cacheSkipped(s, s.dhRemote, h.prevN)
        BY <3>2
      <4> QED
        BY <1>1, <4>1, <4>2, CacheStep, CacheTidy
    <3> QED
      BY <3>1, <3>2
  <2> HIDE DEF t1
  <2>3. IsRatchetState(t, K) /\ Stepped(t1, t, h.dhPub, fresh)
    BY <1>1, <2>1, <2>2, DhStep
  <2>4. Tidy(owner, t) /\ NoneReturns(t1, t, K)
    BY <1>1, <2>1, <2>2, DhTidy
  <2>5. NoneReturns(s, t, K)
    BY <2>2, <2>4, NoneReturnsTransitive
  <2> HIDE DEF t
  <2>6. t.dhRemote = h.dhPub /\ t.dhSelf = fresh /\ t.sendCounter = 0
    BY <2>3 DEF Stepped
  <2>7. \E root \in Root(K) :
           t.sendChain = {FirstChainKey(Append(root, {fresh, h.dhPub}))}
    <3>1. t1.rootKey \in Root(K) /\ t1.dhSelf \in K
      BY <2>2 DEF IsRatchetState, Fields
    <3>2. RecvRoot(t1, h.dhPub) \in Root(K)
      BY <1>1, <3>1 DEF RecvRoot, Root
    <3>3. t.sendChain = {FirstChainKey(t.rootKey)}
          /\ t.rootKey = Append(RecvRoot(t1, h.dhPub), {fresh, h.dhPub})
      BY <2>3 DEF Stepped
    <3> QED
      BY <3>2, <3>3
  <2> QED
    BY <1>3, <2>3, <2>4, <2>5, <2>6, <2>7 DEF TurnedTo, SendsFresh, t
<1> QED
  BY <1>2, <1>3

(***************************************************************************)
(* A chain advanced past the key at its head.                              *)
(***************************************************************************)
LEMMA TakeStep ==
    ASSUME NEW K, NEW u, IsRatchetState(u, K), NEW owner, Tidy(owner, u),
           NEW key \in u.recvChain
    PROVE  LET t == HeadTaken(u)
           IN  /\ IsRatchetState(t, K) /\ SameOtherwise(u, t)
               /\ Tidy(owner, t) /\ NoneReturns(u, t, K) /\ Spent(t, key)
<1> DEFINE chain == {Advance(c, 1) : c \in u.recvChain}
           next == Advance(key, 1)
           t == [u EXCEPT !.recvChain = chain, !.recvCounter = u.recvCounter + 1]
<1>1. /\ key \in ChainKey(K) /\ u.recvChain = {key} /\ u.recvCounter + 1 \in Nat
      /\ key.n = u.recvCounter /\ key.n \in Nat /\ Len(key.root) \in Nat
      /\ Len(key.root) <= Len(u.rootKey)
  BY DEF IsRatchetState, Fields, Tidy, ChainKey, Root
<1>2. next \in ChainKey(K) /\ next.root = key.root /\ next.n = key.n + 1
  <2>1. key \in ChainKey(K) /\ 1 \in Nat
    BY <1>1
  <2> QED
    BY <2>1, AdvanceShape
<1>3. chain = {next}
  <2>1. u.recvChain = {key}
    BY <1>1
  <2> QED
    BY <2>1
<1> HIDE DEF chain, next
<1>4. /\ t \in Fields(K, u.skipped) /\ SameOtherwise(u, t)
      /\ t.skipped = u.skipped /\ t.recvChain = {next}
      /\ t.recvCounter = u.recvCounter + 1
  BY <1>1, <1>2, <1>3 DEF IsRatchetState, Fields, SameOtherwise
<1> HIDE DEF t
<1>5. IsRatchetState(t, K)
  BY <1>4 DEF IsRatchetState, SameOtherwise
<1>6. \A k \in ChainKey(K) : Behind(u, k) => Behind(t, k)
  BY <1>1, <1>2, <1>4 DEF Behind, Derives, SameOtherwise, ChainKey
<1>7. SkippedKeys(t) = SkippedKeys(u)
  BY <1>4 DEF SkippedKeys, SkippedSlots
<1>8. NoneReturns(u, t, K)
  BY <1>6, <1>7 DEF NoneReturns, Spent
<1>9. Tidy(owner, t)
  <2>1. ASSUME NEW r \in DOMAIN t.skipped, NEW c \in DOMAIN t.skipped[r]
        PROVE  /\ t.skipped[r][c].n = c
               /\ EndsIn(owner, t.skipped[r][c].root, r)
               /\ Behind(t, t.skipped[r][c])
    <3>1. u.skipped[r][c] \in ChainKey(K)
      BY <1>4, <2>1 DEF IsRatchetState, IsSkippedMap
    <3> QED
      BY <1>4, <1>6, <2>1, <3>1 DEF Tidy
  <2>2. \A c \in t.recvChain : /\ Len(c.root) <= Len(t.rootKey)
                              /\ c.n = t.recvCounter
                              /\ EndsIn(owner, c.root, t.dhRemote)
    BY <1>1, <1>2, <1>4 DEF Tidy, SameOtherwise
  <2> QED
    BY <1>4, <2>1, <2>2 DEF Tidy, SameOtherwise
<1>10. key \notin SkippedKeys(u)
  <2> SUFFICES ASSUME NEW r \in DOMAIN u.skipped, NEW c \in DOMAIN u.skipped[r],
                      u.skipped[r][c] = key
               PROVE  FALSE
    BY SkippedKeysAre
  <2> QED
    BY <1>1 DEF Tidy, Behind, Derives
<1>11. Behind(t, key)
  BY <1>1, <1>2, <1>4 DEF Behind, Derives, SameOtherwise
<1> QED
  BY <1>4, <1>5, <1>7, <1>8, <1>9, <1>10, <1>11 DEF Spent, HeadTaken, t, chain

(***************************************************************************)
(* decryptRatchet, when it returns a plaintext: the key was not spent, it  *)
(* is now, no key came back, and the sending side changed only if the DH   *)
(* step was made, to a chain that mixes in the fresh pair.                 *)
(***************************************************************************)
SendsAsBefore(s, t) ==
    t.sendChain = s.sendChain /\ t.dhSelf = s.dhSelf /\ t.sendCounter = s.sendCounter

LEMMA DecryptStep ==
    ASSUME NEW K, NEW s, IsRatchetState(s, K), NEW owner, Tidy(owner, s),
           NEW m \in Message(K), m.header.dhPub[1] # owner, m.header.dhPub # NoPub,
           NEW fresh \in K, fresh[1] = owner, Opens(s, m, fresh)
    PROVE  LET t == AfterDecrypt(s, m, fresh)
           IN  /\ IsRatchetState(t, K) /\ Tidy(owner, t) /\ NoneReturns(s, t, K)
               /\ ~Spent(s, m.key) /\ Spent(t, m.key)
               /\ ~StepsRatchet(s, m.header) => SendsAsBefore(s, t)
               /\ StepsRatchet(s, m.header) => SendsFresh(t, m.header.dhPub, fresh, K)
<1> DEFINE h == m.header
           t == AfterDecrypt(s, m, fresh)
           v == Turned(s, h, fresh)
           u == cacheSkipped(v, h.dhPub, h.counter)
<1>0. h.dhPub \in K /\ h.counter \in Nat /\ m.key \in ChainKey(K)
  BY DEF Message
<1>1. CASE HasSkipped(s, h)
  <2>1. t = DropSkipped(s, h) /\ s.skipped[h.dhPub][h.counter] = m.key
    BY <1>1 DEF AfterDecrypt, Opens
  <2>2. IsRatchetState(t, K) /\ SameOtherwise(s, t)
    BY <1>1, <2>1, DropStep
  <2>3. Tidy(owner, t) /\ NoneReturns(s, t, K) /\ Spent(t, m.key)
    BY <1>1, <2>1, DropTidy
  <2>4. m.key \in SkippedKeys(s)
    BY <1>1, <2>1, SkippedKeysAre DEF HasSkipped
  <2> HIDE DEF t
  <2> QED
    BY <1>1, <2>2, <2>3, <2>4
       DEF Spent, StepsRatchet, SendsAsBefore, SameOtherwise, t
<1>2. CASE ~HasSkipped(s, h)
  <2>1. /\ IsRatchetState(v, K) /\ Tidy(owner, v) /\ NoneReturns(s, v, K)
        /\ TurnedTo(s, v, h.dhPub, fresh, K)
    BY TurnStep
  <2>2. /\ t = HeadTaken(u)
        /\ m.key \in u.recvChain
    BY <1>2 DEF AfterDecrypt, Opens, MessageKey
  <2> HIDE DEF v
  <2>3. IsRatchetState(u, K) /\ SameOtherwise(v, u)
    BY <1>0, <2>1, CacheStep
  <2>4. Tidy(owner, u) /\ NoneReturns(v, u, K)
    BY <1>0, <2>1, CacheTidy DEF TurnedTo
  <2> HIDE DEF u
  <2>5. /\ IsRatchetState(t, K) /\ SameOtherwise(u, t)
        /\ Tidy(owner, t) /\ NoneReturns(u, t, K) /\ Spent(t, m.key)
    BY <2>2, <2>3, <2>4, TakeStep
  <2>6. NoneReturns(s, u, K)
    BY <2>1, <2>4, NoneReturnsTransitive
  <2>7. NoneReturns(s, t, K)
    BY <2>5, <2>6, NoneReturnsTransitive
  <2>8. ~Behind(u, m.key)
    BY <1>0, <2>2 DEF Behind, Derives, ChainKey
  <2>9. ~Spent(s, m.key)
    BY <1>0, <2>6, <2>8 DEF NoneReturns, Spent
  <2> HIDE DEF t
  <2>10. /\ t.sendChain = v.sendChain /\ t.dhSelf = v.dhSelf
         /\ t.sendCounter = v.sendCounter
    BY <2>3, <2>5 DEF SameOtherwise
  <2> QED
    BY <1>2, <2>1, <2>5, <2>7, <2>9, <2>10
       DEF StepsRatchet, SendsAsBefore, TurnedTo, SendsFresh, t
<1> QED
  BY <1>1, <1>2

(***************************************************************************)
(* A root that mixes in a pair outside K is no root over K.                *)
(***************************************************************************)
LEMMA FreshRoot ==
    ASSUME NEW K, NEW L, NEW fresh, fresh \notin K, NEW x,
           NEW root \in Root(L), {fresh, x} \in SUBSET L, NEW old \in Root(K)
    PROVE  Append(root, {fresh, x}) # old
<1> DEFINE new == Append(root, {fresh, x})
<1>1. new \in Seq(SUBSET L) /\ Len(new) \in Nat /\ Len(new) > 0 /\ new[Len(new)] = {fresh, x}
  BY DEF Root
<1>2. old \in Seq(SUBSET K)
  BY DEF Root
<1>3. ASSUME new = old
      PROVE  FALSE
  <2> HIDE DEF new
  <2>1. old[Len(old)] \in SUBSET K /\ old[Len(old)] = {fresh, x}
    BY <1>1, <1>2, <1>3
  <2> QED
    BY <2>1
<1> QED
  BY <1>3

(***************************************************************************)
(* Without a DH step the fresh pair plays no part in a decryption.         *)
(***************************************************************************)
LEMMA NoStepNoFresh ==
    ASSUME NEW s, NEW m, NEW f1, NEW f2, ~StepsRatchet(s, m.header), Opens(s, m, f1)
    PROVE  Opens(s, m, f2) /\ AfterDecrypt(s, m, f1) = AfterDecrypt(s, m, f2)
BY DEF StepsRatchet, Opens, AfterDecrypt, Turned

(***************************************************************************)
(* encryptRatchet moves the sending chain one key on and touches nothing   *)
(* the receiving side depends on.                                          *)
(***************************************************************************)
LEMMA EncryptStep ==
    ASSUME NEW K, NEW s, IsRatchetState(s, K), CanEncrypt(s)
    PROVE  LET t == AfterEncrypt(s)
               k == Sealed(s).key
           IN  /\ t.sendChain = {Advance(k, 1)}
               /\ Advance(k, 1).root = k.root /\ Advance(k, 1).n = k.n + 1 /\ k.n \in Nat
               /\ Sealed(s).header.dhPub = s.dhSelf
               /\ \A key : Spent(t, key) <=> Spent(s, key)
               /\ \A owner : Tidy(owner, s) => Tidy(owner, t)
<1> DEFINE t == AfterEncrypt(s)
           k == Sealed(s).key
<1>1. /\ s \in Fields(K, s.skipped) /\ s.sendChain = {k} /\ k \in ChainKey(K)
  BY EncryptShape DEF IsRatchetState, Fields
<1>2. Sealed(s).header.dhPub = s.dhSelf
  BY DEF Sealed
<1> HIDE DEF k
<1>3. /\ t.sendChain = {Advance(c, 1) : c \in s.sendChain}
      /\ t.rootKey = s.rootKey /\ t.recvChain = s.recvChain /\ t.skipped = s.skipped
      /\ t.dhSelf = s.dhSelf /\ t.dhRemote = s.dhRemote /\ t.recvCounter = s.recvCounter
  BY <1>1 DEF AfterEncrypt, Fields
<1> HIDE DEF t
<1>4. t.sendChain = {Advance(k, 1)}
  BY <1>1, <1>3
<1>5. k.n \in Nat /\ Advance(k, 1).root = k.root /\ Advance(k, 1).n = k.n + 1
  <2>1. k.n \in Nat
    BY <1>1 DEF ChainKey
  <2>2. 1 \in Nat
    OBVIOUS
  <2> QED
    BY <1>1, <2>1, <2>2, AdvanceShape
<1>6. \A key : /\ Spent(t, key) <=> Spent(s, key)
               /\ Behind(t, key) <=> Behind(s, key)
  BY <1>3 DEF Spent, Behind, SkippedKeys, SkippedSlots
<1>7. \A owner : Tidy(owner, s) => Tidy(owner, t)
  BY <1>3, <1>6 DEF Tidy
<1> QED
  BY <1>2, <1>4, <1>5, <1>6, <1>7 DEF t, k

(***************************************************************************)
(* decryptRatchet again, for a session over K and the pair that            *)
(* generateX25519KeyPair() returns: L holds that pair if it is used.       *)
(***************************************************************************)
LEMMA DecryptFresh ==
    ASSUME NEW K, NEW L, K \subseteq L,
           NEW s, IsRatchetState(s, K), NEW owner, Tidy(owner, s),
           NEW m \in Message(K), m.header.dhPub[1] # owner, m.header.dhPub # NoPub,
           NEW fresh, fresh[1] = owner, Opens(s, m, fresh),
           StepsRatchet(s, m.header) => fresh \in L
    PROVE  LET t == AfterDecrypt(s, m, fresh)
           IN  /\ IsRatchetState(t, L) /\ Tidy(owner, t) /\ NoneReturns(s, t, L)
               /\ ~Spent(s, m.key) /\ Spent(t, m.key)
               /\ ~StepsRatchet(s, m.header) => SendsAsBefore(s, t)
               /\ StepsRatchet(s, m.header) => SendsFresh(t, m.header.dhPub, fresh, L)
<1>1. IsRatchetState(s, L) /\ m \in Message(L)
  BY StateGrows, RootGrows
<1>2. CASE StepsRatchet(s, m.header)
  BY <1>1, <1>2, DecryptStep
<1>3. CASE ~StepsRatchet(s, m.header)
  <2>1. s.dhSelf \in L /\ s.dhSelf[1] = owner
    BY <1>1 DEF IsRatchetState, Fields, Tidy
  <2>2. Opens(s, m, s.dhSelf) /\ AfterDecrypt(s, m, fresh) = AfterDecrypt(s, m, s.dhSelf)
    BY <1>3, NoStepNoFresh
  <2> QED
    BY <1>1, <1>3, <2>1, <2>2, DecryptStep
<1> QED
  BY <1>2, <1>3

(***************************************************************************)
(* The two ends of a handshake start tidy.                                 *)
(***************************************************************************)
LEMMA AliceShape ==
    ASSUME NEW K, NEW root \in Root(K), NEW dhSelf \in K, NEW remote \in K
    PROVE  LET t == initRatchetAsAlice(root, dhSelf, remote)
           IN  /\ IsRatchetState(t, K) /\ Tidy(dhSelf[1], t)
               /\ t.sendChain = {FirstChainKey(Append(root, {dhSelf, remote}))}
<1> DEFINE t == initRatchetAsAlice(root, dhSelf, remote)
           sendRoot == Append(root, {dhSelf, remote})
           chain == {FirstChainKey(sendRoot)}
<1>1. sendRoot \in Root(K)
  BY DEF Root
<1>2. chain \subseteq ChainKey(K) /\ \A c, d \in chain : c = d
  BY <1>1 DEF FirstChainKey, ChainKey
<1>3. t = [ dhSelf |-> dhSelf, dhRemote |-> remote, rootKey |-> sendRoot,
            sendChain |-> chain, recvChain |-> {},
            sendCounter |-> 0, recvCounter |-> 0, prevSendCounter |-> 0,
            skipped |-> <<>> ]
  BY DEF initRatchetAsAlice, rootKdf, dh, NoChain
<1> HIDE DEF t, chain, sendRoot
<1>4. t \in Fields(K, t.skipped) /\ DOMAIN t.skipped = {} /\ t.recvChain = {}
      /\ t.sendChain = chain /\ t.dhSelf = dhSelf
  BY <1>1, <1>2, <1>3 DEF Fields
<1>5. IsRatchetState(t, K)
  BY <1>2, <1>4 DEF IsRatchetState, IsSkippedMap
<1>6. Tidy(dhSelf[1], t)
  BY <1>4 DEF Tidy
<1> QED
  BY <1>4, <1>5, <1>6 DEF t, chain, sendRoot

LEMMA BobShape ==
    ASSUME NEW K, NEW root \in Root(K), NEW dhSelf \in K
    PROVE  LET t == initRatchetAsBob(root, dhSelf)
           IN  IsRatchetState(t, K) /\ Tidy(dhSelf[1], t) /\ t.sendChain = {}
<1> DEFINE t == initRatchetAsBob(root, dhSelf)
<1>1. t = [ dhSelf |-> dhSelf, dhRemote |-> NoPub, rootKey |-> root,
            sendChain |-> {}, recvChain |-> {},
            sendCounter |-> 0, recvCounter |-> 0, prevSendCounter |-> 0,
            skipped |-> <<>> ]
  BY DEF initRatchetAsBob, NoChain
<1> HIDE DEF t
<1>2. t \in Fields(K, t.skipped) /\ DOMAIN t.skipped = {} /\ t.recvChain = {}
      /\ t.sendChain = {} /\ t.dhSelf = dhSelf
  BY <1>1 DEF Fields
<1>3. IsRatchetState(t, K)
  BY <1>2 DEF IsRatchetState, IsSkippedMap
<1>4. Tidy(dhSelf[1], t)
  BY <1>2 DEF Tidy
<1> QED
  BY <1>2, <1>3, <1>4 DEF t

(***************************************************************************)
(* The cache slot by slot, and where the receiving chain stands.           *)
(***************************************************************************)
HasSlot(s, r, c) == r \in DOMAIN s.skipped /\ c \in DOMAIN s.skipped[r]
KeyOf(root, n) == [root |-> root, n |-> n]

\* The receiving chain is none, or stands where its counter says.
Stands(s, root) == s.recvChain = {} \/ s.recvChain = {KeyOf(root, s.recvCounter)}

SealsAlike(s, t) == SameOtherwise(s, t) /\ t.prevSendCounter = s.prevSendCounter

\* From s to t the cache gains the slots of remote with the counters in new,
\* each with the key its place on the chain says.
Gains(s, t, remote, new, root) ==
    /\ \A r, c : HasSlot(t, r, c) <=> HasSlot(s, r, c) \/ (r = remote /\ c \in new)
    /\ \A r, c : HasSlot(s, r, c) /\ ~(r = remote /\ c \in new) => t.skipped[r][c] = s.skipped[r][c]
    /\ \A c \in new : t.skipped[remote][c] = KeyOf(root, c)

LEMMA AdvanceKeyOf ==
    ASSUME NEW root, NEW a \in Nat, NEW b \in Nat, a <= b
    PROVE  Advance(KeyOf(root, a), b - a) = KeyOf(root, b)
BY DEF Advance, KeyOf

LEMMA CacheGains ==
    ASSUME NEW K, NEW s, IsRatchetState(s, K), NEW root, Stands(s, root),
           NEW remote, NEW upTo \in Nat
    PROVE  LET t == cacheSkipped(s, remote, upTo)
               new == ToSkip(s, upTo)
           IN  /\ SealsAlike(s, t)
               /\ Gains(s, t, remote, new, root)
               /\ Stands(t, root) /\ (t.recvChain = {} <=> s.recvChain = {})
               /\ t.recvCounter = IF new = {} THEN s.recvCounter ELSE upTo
<1> DEFINE new == ToSkip(s, upTo)
           k == CHOOSE c \in s.recvChain : TRUE
           bucket == Bucket(s, remote)
           filled == [ c \in DOMAIN bucket \union new |->
                        IF c \in new THEN Advance(k, c - s.recvCounter) ELSE bucket[c] ]
           sk == [ r \in DOMAIN s.skipped \union {remote} |->
                      IF r = remote THEN filled ELSE s.skipped[r] ]
           moved == {Advance(c, upTo - s.recvCounter) : c \in s.recvChain}
           t == [s EXCEPT !.skipped = sk, !.recvChain = moved, !.recvCounter = upTo]
<1>1. CASE new = {}
  <2>1. cacheSkipped(s, remote, upTo) = s
    BY <1>1 DEF cacheSkipped
  <2> QED
    BY <1>1, <2>1 DEF SealsAlike, SameOtherwise, Gains
<1>2. CASE new # {}
  <2>1. cacheSkipped(s, remote, upTo) = t
    BY <1>2 DEF cacheSkipped, MessageKey
  <2>2. s.recvCounter \in Nat
    BY DEF IsRatchetState, Fields
  <2>3. s.recvChain # {} /\ new = s.recvCounter .. (upTo - 1) /\ s.recvCounter < upTo
    BY <1>2, <2>2 DEF ToSkip, NoChain
  <2>4. s.recvChain = {KeyOf(root, s.recvCounter)} /\ k = KeyOf(root, s.recvCounter)
    BY <2>3 DEF Stands
  <2>5. moved = {KeyOf(root, upTo)}
    <3>1. Advance(KeyOf(root, s.recvCounter), upTo - s.recvCounter) = KeyOf(root, upTo)
      BY <2>2, <2>3, AdvanceKeyOf
    <3> QED
      BY <2>4, <3>1
  <2>6. \A c \in new : filled[c] = KeyOf(root, c)
    <3>1. \A c \in new : Advance(KeyOf(root, s.recvCounter), c - s.recvCounter) = KeyOf(root, c)
      <4> SUFFICES ASSUME NEW c \in new
                   PROVE  Advance(KeyOf(root, s.recvCounter), c - s.recvCounter) = KeyOf(root, c)
        OBVIOUS
      <4>1. c \in Nat /\ s.recvCounter <= c
        BY <2>2, <2>3
      <4> QED
        BY <2>2, <4>1, AdvanceKeyOf
    <3> HIDE DEF k, new
    <3> QED
      BY <2>4, <3>1
  <2>7. /\ t.skipped = sk /\ t.recvChain = moved /\ t.recvCounter = upTo
        /\ SealsAlike(s, t)
    <3> HIDE DEF sk, moved
    <3> QED
      BY DEF IsRatchetState, Fields, SealsAlike, SameOtherwise
  <2>8. ASSUME NEW r, NEW c
        PROVE  /\ HasSlot(t, r, c) <=> HasSlot(s, r, c) \/ (r = remote /\ c \in new)
               /\ HasSlot(s, r, c) /\ ~(r = remote /\ c \in new) => t.skipped[r][c] = s.skipped[r][c]
    <3>1. DOMAIN bucket = IF remote \in DOMAIN s.skipped THEN DOMAIN s.skipped[remote] ELSE {}
      BY DEF Bucket
    <3>2. remote \in DOMAIN s.skipped => bucket = s.skipped[remote]
      BY DEF Bucket
    <3> HIDE DEF bucket, new, k, t
    <3>3. CASE r = remote
      <4>1. t.skipped[r] = filled /\ r \in DOMAIN t.skipped
        BY <2>7, <3>3
      <4> QED
        BY <3>1, <3>2, <3>3, <4>1 DEF HasSlot
    <3>4. CASE r # remote
      BY <2>7, <3>4 DEF HasSlot
    <3> QED
      BY <3>3, <3>4
  <2>9. \A c \in new : t.skipped[remote][c] = KeyOf(root, c)
    <3>1. t.skipped[remote] = filled
      BY <2>7
    <3> HIDE DEF filled
    <3> QED
      BY <2>6, <3>1
  <2> HIDE DEF t, new, moved, sk
  <2>10. Gains(s, t, remote, new, root)
    BY <2>8, <2>9 DEF Gains
  <2>11. Stands(t, root) /\ (t.recvChain = {} <=> s.recvChain = {})
    BY <2>3, <2>5, <2>7 DEF Stands
  <2> QED
    BY <1>2, <2>1, <2>7, <2>10, <2>11 DEF new
<1> QED
  BY <1>1, <1>2

LEMMA DropLoses ==
    ASSUME NEW K, NEW s, IsRatchetState(s, K), NEW h, HasSkipped(s, h)
    PROVE  LET t == DropSkipped(s, h)
           IN  /\ SealsAlike(s, t)
               /\ t.recvChain = s.recvChain /\ t.recvCounter = s.recvCounter
               /\ \A r, c : HasSlot(t, r, c) <=> HasSlot(s, r, c) /\ ~(r = h.dhPub /\ c = h.counter)
               /\ \A r, c : HasSlot(t, r, c) => t.skipped[r][c] = s.skipped[r][c]
<1> DEFINE bucket == s.skipped[h.dhPub]
           rest == Restrict(bucket, DOMAIN bucket \ {h.counter})
           sk == IF DOMAIN rest = {}
                 THEN Restrict(s.skipped, DOMAIN s.skipped \ {h.dhPub})
                 ELSE [s.skipped EXCEPT ![h.dhPub] = rest]
           t == [s EXCEPT !.skipped = sk]
<1>1. DropSkipped(s, h) = t
  BY DEF DropSkipped
<1>2. /\ t.skipped = sk /\ t.recvChain = s.recvChain /\ t.recvCounter = s.recvCounter
      /\ SealsAlike(s, t)
  <2> HIDE DEF sk
  <2> QED
    BY DEF IsRatchetState, Fields, SealsAlike, SameOtherwise
<1>3. h.dhPub \in DOMAIN s.skipped
  BY DEF HasSkipped
<1>4. /\ DOMAIN rest = DOMAIN bucket \ {h.counter}
      /\ \A c \in DOMAIN rest : rest[c] = bucket[c]
  BY DEF Restrict
<1>5. ASSUME NEW r, NEW c
      PROVE  /\ HasSlot(t, r, c) <=> HasSlot(s, r, c) /\ ~(r = h.dhPub /\ c = h.counter)
             /\ HasSlot(t, r, c) => t.skipped[r][c] = s.skipped[r][c]
  <2>1. CASE DOMAIN rest = {}
    <3>1. /\ DOMAIN sk = DOMAIN s.skipped \ {h.dhPub}
          /\ \A q \in DOMAIN sk : sk[q] = s.skipped[q]
      BY <2>1 DEF Restrict
    <3> HIDE DEF sk, rest, t
    <3> QED
      BY <1>2, <1>4, <2>1, <3>1 DEF HasSlot
  <2>2. CASE DOMAIN rest # {}
    <3> HIDE DEF rest
    <3>1. DOMAIN sk = DOMAIN s.skipped /\ sk[h.dhPub] = rest
          /\ \A q \in DOMAIN sk : q # h.dhPub => sk[q] = s.skipped[q]
      BY <1>3, <2>2
    <3> HIDE DEF sk, t
    <3>2. CASE r = h.dhPub
      BY <1>2, <1>3, <1>4, <3>1, <3>2 DEF HasSlot
    <3>3. CASE r # h.dhPub
      BY <1>2, <3>1, <3>3 DEF HasSlot
    <3> QED
      BY <3>2, <3>3
  <2> QED
    BY <2>1, <2>2
<1>6. /\ \A r, c : HasSlot(t, r, c) <=> HasSlot(s, r, c) /\ ~(r = h.dhPub /\ c = h.counter)
      /\ \A r, c : HasSlot(t, r, c) => t.skipped[r][c] = s.skipped[r][c]
  <2> HIDE DEF t
  <2> QED
    BY <1>5
<1> HIDE DEF t
<1> QED
  BY <1>1, <1>2, <1>6

(***************************************************************************)
(* decryptRatchet without a cached key: on the chain at hand, and with the *)
(* DH step.                                                                *)
(***************************************************************************)
LEMMA DhFull ==
    ASSUME NEW K, NEW s, IsRatchetState(s, K), NEW newRemote, NEW fresh
    PROVE  LET t == dhRatchetStep(s, newRemote, fresh)
           IN  /\ Stepped(s, t, newRemote, fresh)
               /\ t.prevSendCounter = s.sendCounter
<1> DEFINE recvRoot == Append(s.rootKey, {s.dhSelf, newRemote})
           sendRoot == Append(recvRoot, {fresh, newRemote})
           rc == {FirstChainKey(recvRoot)}
           sc == {FirstChainKey(sendRoot)}
           t == [s EXCEPT !.prevSendCounter = s.sendCounter, !.sendCounter = 0,
                          !.recvCounter = 0, !.dhRemote = newRemote,
                          !.recvChain = rc, !.dhSelf = fresh,
                          !.rootKey = sendRoot, !.sendChain = sc ]
<1>1. dhRatchetStep(s, newRemote, fresh) = t
  BY DEF dhRatchetStep, rootKdf, dh
<1>2. /\ t.recvChain = rc /\ t.rootKey = sendRoot /\ t.sendChain = sc
      /\ t.sendCounter = 0 /\ t.recvCounter = 0 /\ t.prevSendCounter = s.sendCounter
      /\ t.dhSelf = fresh /\ t.dhRemote = newRemote /\ t.skipped = s.skipped
  <2> HIDE DEF rc, sc, sendRoot
  <2> QED
    BY DEF IsRatchetState, Fields
<1> HIDE DEF t
<1> QED
  BY <1>1, <1>2 DEF Stepped, RecvRoot

LEMMA HeadFull ==
    ASSUME NEW K, NEW u, IsRatchetState(u, K), NEW root,
           u.recvChain = {KeyOf(root, u.recvCounter)}
    PROVE  LET t == HeadTaken(u)
           IN  /\ SealsAlike(u, t) /\ t.skipped = u.skipped
               /\ t.recvCounter = u.recvCounter + 1
               /\ t.recvChain = {KeyOf(root, u.recvCounter + 1)}
<1> DEFINE chain == {Advance(c, 1) : c \in u.recvChain}
           t == [u EXCEPT !.recvChain = chain, !.recvCounter = u.recvCounter + 1]
<1>1. HeadTaken(u) = t
  BY DEF HeadTaken
<1>2. u.recvCounter \in Nat
  BY DEF IsRatchetState, Fields
<1>3. chain = {KeyOf(root, u.recvCounter + 1)}
  <2>1. Advance(KeyOf(root, u.recvCounter), 1) = KeyOf(root, u.recvCounter + 1)
    BY <1>2 DEF Advance, KeyOf
  <2> QED
    BY <2>1
<1>4. /\ t.recvChain = chain /\ t.recvCounter = u.recvCounter + 1
      /\ t.skipped = u.skipped /\ SealsAlike(u, t)
  <2> HIDE DEF chain
  <2> QED
    BY DEF IsRatchetState, Fields, SealsAlike, SameOtherwise
<1> HIDE DEF t, chain
<1> QED
  BY <1>1, <1>3, <1>4

\* cacheSkipped up to the message's counter, then the head.
LEMMA TakesUpTo ==
    ASSUME NEW K, NEW s, IsRatchetState(s, K), NEW root, Stands(s, root),
           NEW remote \in K, NEW n \in Nat, NEW key, key.n = n,
           key \in cacheSkipped(s, remote, n).recvChain
    PROVE  LET t == HeadTaken(cacheSkipped(s, remote, n))
           IN  /\ s.recvChain # {} /\ s.recvCounter <= n /\ key = KeyOf(root, n)
               /\ SealsAlike(s, t)
               /\ t.recvCounter = n + 1 /\ t.recvChain = {KeyOf(root, n + 1)}
               /\ Gains(s, t, remote, s.recvCounter .. (n - 1), root)
<1> DEFINE new == ToSkip(s, n)
           u == cacheSkipped(s, remote, n)
           t == HeadTaken(u)
<1>1. /\ SealsAlike(s, u) /\ Gains(s, u, remote, new, root)
      /\ Stands(u, root) /\ (u.recvChain = {} <=> s.recvChain = {})
      /\ u.recvCounter = IF new = {} THEN s.recvCounter ELSE n
  BY CacheGains
<1>2. IsRatchetState(u, K)
  BY CacheStep
<1> HIDE DEF u
<1>3. u.recvChain # {} /\ s.recvChain # {}
  BY <1>1 DEF u
<1>4. u.recvChain = {KeyOf(root, u.recvCounter)} /\ key = KeyOf(root, u.recvCounter)
  BY <1>1, <1>3 DEF Stands, u
<1>5. u.recvCounter = n
  BY <1>4 DEF KeyOf
<1>6. s.recvCounter \in Nat /\ new = s.recvCounter .. (n - 1)
  BY <1>3 DEF IsRatchetState, Fields, ToSkip, NoChain
<1>7. s.recvCounter <= n
  <2>1. CASE new = {}
    BY <1>1, <1>5, <1>6, <2>1
  <2>2. CASE new # {}
    BY <1>6, <2>2
  <2> QED
    BY <2>1, <2>2
<1>8. /\ SealsAlike(u, t) /\ t.skipped = u.skipped
      /\ t.recvCounter = u.recvCounter + 1
      /\ t.recvChain = {KeyOf(root, u.recvCounter + 1)}
  BY <1>2, <1>4, HeadFull
<1> HIDE DEF t
<1>9. SealsAlike(s, t)
  BY <1>1, <1>8 DEF SealsAlike, SameOtherwise
<1>10. Gains(s, t, remote, new, root)
  BY <1>1, <1>8 DEF Gains, HasSlot
<1> HIDE DEF new
<1> QED
  BY <1>3, <1>4, <1>5, <1>6, <1>7, <1>8, <1>9, <1>10 DEF t, u

LEMMA TakesNext ==
    ASSUME NEW K, NEW s, IsRatchetState(s, K), NEW root, Stands(s, root),
           NEW m \in Message(K), m.key.n = m.header.counter, NEW fresh,
           m.header.dhPub = s.dhRemote, ~HasSkipped(s, m.header), Opens(s, m, fresh)
    PROVE  LET t == AfterDecrypt(s, m, fresh)
               n == m.header.counter
           IN  /\ s.recvChain # {} /\ s.recvCounter <= n /\ m.key = KeyOf(root, n)
               /\ SealsAlike(s, t)
               /\ t.recvCounter = n + 1 /\ t.recvChain = {KeyOf(root, n + 1)}
               /\ Gains(s, t, m.header.dhPub, s.recvCounter .. (n - 1), root)
<1> DEFINE h == m.header
<1>1. h.dhPub \in K /\ h.counter \in Nat
  BY DEF Message
<1>2. Turned(s, h, fresh) = s
  BY DEF Turned
<1>3. AfterDecrypt(s, m, fresh) = HeadTaken(cacheSkipped(s, h.dhPub, h.counter))
  BY <1>2 DEF AfterDecrypt
<1>4. m.key \in cacheSkipped(s, h.dhPub, h.counter).recvChain
  BY <1>2 DEF Opens, MessageKey
<1> QED
  BY <1>1, <1>3, <1>4, TakesUpTo

Closing(s, h) == IF s.dhRemote = NoPub THEN {} ELSE ToSkip(s, h.prevN)

\* From s to t the message m turned the ratchet.
Turns(s, t, m, fresh, root) ==
    LET h == m.header
        recv == RecvRoot(s, h.dhPub)
    IN  /\ m.key = KeyOf(recv, h.counter)
        /\ t.dhSelf = fresh /\ t.dhRemote = h.dhPub
        /\ t.rootKey = Append(recv, {fresh, h.dhPub})
        /\ t.sendChain = {KeyOf(t.rootKey, 0)}
        /\ t.sendCounter = 0 /\ t.prevSendCounter = s.sendCounter
        /\ t.recvCounter = h.counter + 1 /\ t.recvChain = {KeyOf(recv, h.counter + 1)}
        /\ \E v : /\ Gains(s, v, s.dhRemote, Closing(s, h), root)
                  /\ Gains(v, t, h.dhPub, 0 .. (h.counter - 1), recv)

LEMMA TurnsNext ==
    ASSUME NEW K, NEW s, IsRatchetState(s, K), NEW root, Stands(s, root),
           NEW m \in Message(K), m.key.n = m.header.counter, NEW fresh \in K,
           m.header.dhPub # s.dhRemote, ~HasSkipped(s, m.header), Opens(s, m, fresh)
    PROVE  Turns(s, AfterDecrypt(s, m, fresh), m, fresh, root)
<1> DEFINE h == m.header
           c == IF s.dhRemote = NoPub THEN s ELSE cacheSkipped(s, s.dhRemote, h.prevN)
           v == dhRatchetStep(c, h.dhPub, fresh)
           t == AfterDecrypt(s, m, fresh)
           recv == RecvRoot(s, h.dhPub)
<1>1. h.dhPub \in K /\ h.counter \in Nat /\ h.prevN \in Nat
  BY DEF Message
<1>2. IsRatchetState(c, K) /\ SealsAlike(s, c) /\ Gains(s, c, s.dhRemote, Closing(s, h), root)
  <2>1. CASE s.dhRemote = NoPub
    BY <2>1 DEF SealsAlike, SameOtherwise, Gains, Closing
  <2>2. CASE s.dhRemote # NoPub
    <3>1. s.dhRemote \in K
      BY <2>2 DEF IsRatchetState, Fields
    <3>2. c = cacheSkipped(s, s.dhRemote, h.prevN)
      BY <2>2
    <3> HIDE DEF c
    <3> QED
      BY <1>1, <2>2, <3>1, <3>2, CacheStep, CacheGains DEF Closing
  <2> QED
    BY <2>1, <2>2
<1>3. /\ Turned(s, h, fresh) = v
      /\ t = HeadTaken(cacheSkipped(v, h.dhPub, h.counter))
      /\ m.key \in cacheSkipped(v, h.dhPub, h.counter).recvChain
  BY DEF Turned, AfterDecrypt, Opens, MessageKey
<1> HIDE DEF c
<1>4. /\ Stepped(c, v, h.dhPub, fresh) /\ v.prevSendCounter = c.sendCounter
      /\ IsRatchetState(v, K)
  BY <1>1, <1>2, DhStep, DhFull
<1> HIDE DEF v, t
<1>5. /\ v.recvChain = {KeyOf(recv, 0)} /\ v.recvCounter = 0
      /\ v.rootKey = Append(recv, {fresh, h.dhPub})
      /\ v.sendChain = {KeyOf(v.rootKey, 0)}
      /\ v.sendCounter = 0 /\ v.prevSendCounter = s.sendCounter
      /\ v.dhSelf = fresh /\ v.dhRemote = h.dhPub /\ v.skipped = c.skipped
  BY <1>2, <1>4 DEF SealsAlike, SameOtherwise, Stepped, RecvRoot, FirstChainKey, KeyOf
<1>6. Gains(s, v, s.dhRemote, Closing(s, h), root)
  BY <1>2, <1>5 DEF Gains, HasSlot
<1>7. Stands(v, recv)
  BY <1>5 DEF Stands
<1> HIDE DEF recv
<1>8. /\ m.key = KeyOf(recv, h.counter) /\ SealsAlike(v, t)
      /\ t.recvCounter = h.counter + 1 /\ t.recvChain = {KeyOf(recv, h.counter + 1)}
      /\ Gains(v, t, h.dhPub, v.recvCounter .. (h.counter - 1), recv)
  BY <1>1, <1>3, <1>4, <1>7, TakesUpTo
<1>9. Gains(v, t, h.dhPub, 0 .. (h.counter - 1), recv)
  BY <1>5, <1>8
<1>10. /\ t.dhSelf = fresh /\ t.dhRemote = h.dhPub /\ t.rootKey = Append(recv, {fresh, h.dhPub})
       /\ t.sendChain = {KeyOf(t.rootKey, 0)}
       /\ t.sendCounter = 0 /\ t.prevSendCounter = s.sendCounter
  BY <1>5, <1>8 DEF SealsAlike, SameOtherwise
<1> QED
  BY <1>6, <1>8, <1>9, <1>10 DEF Turns, t, recv

(***************************************************************************)
(* The caps of the cache.                                                  *)
(***************************************************************************)
Capped(s) ==
    /\ \A r \in DOMAIN s.skipped :
          /\ DOMAIN s.skipped[r] # {}
          /\ IsFiniteSet(DOMAIN s.skipped[r])
          /\ Cardinality(DOMAIN s.skipped[r]) <= MaxSkip
    /\ IsFiniteSet(SkippedSlots(s)) /\ totalSkipped(s) <= GlobalSkipCap

LEMMA SlotsAre ==
    ASSUME NEW s
    PROVE  \A x : x \in SkippedSlots(s) <=> \E r, c : x = <<r, c>> /\ HasSlot(s, r, c)
BY DEF SkippedSlots, HasSlot

LEMMA PairsCount ==
    ASSUME NEW r, NEW S, IsFiniteSet(S)
    PROVE  IsFiniteSet({r} \X S) /\ Cardinality({r} \X S) = Cardinality(S)
<1> DEFINE f == [c \in S |-> <<r, c>>]
<1>1. f \in Bijection(S, {r} \X S)
  <2>1. f \in [S -> {r} \X S]
    OBVIOUS
  <2>2. \A a, b \in S : f[a] = f[b] => a = b
    OBVIOUS
  <2>3. \A y \in {r} \X S : \E c \in S : f[c] = y
    OBVIOUS
  <2> HIDE DEF f
  <2> QED
    BY <2>1, <2>2, <2>3 DEF Bijection, Injection, Surjection, IsInjective
<1> QED
  BY <1>1, FS_Bijection DEF ExistsBijection

LEMMA UnionAtMost ==
    ASSUME NEW S, IsFiniteSet(S), NEW T, IsFiniteSet(T)
    PROVE  /\ IsFiniteSet(S \union T)
           /\ Cardinality(S \union T) <= Cardinality(S) + Cardinality(T)
<1>1. /\ IsFiniteSet(S \union T)
      /\ Cardinality(S \union T) = Cardinality(S) + Cardinality(T) - Cardinality(S \intersect T)
  BY FS_Union
<1>2. Cardinality(S) \in Nat /\ Cardinality(T) \in Nat
  BY FS_CardinalityType
<1>3. Cardinality(S \intersect T) \in Nat
  BY FS_Intersection, FS_CardinalityType
<1> QED
  BY <1>1, <1>2, <1>3

LEMMA ToSkipFinite ==
    ASSUME NEW K, NEW s, IsRatchetState(s, K), NEW upTo \in Nat
    PROVE  /\ IsFiniteSet(ToSkip(s, upTo)) /\ Cardinality(ToSkip(s, upTo)) \in Nat
           /\ ToSkip(s, upTo) # {} => Cardinality(ToSkip(s, upTo)) > 0
<1>1. s.recvCounter \in Nat /\ upTo - 1 \in Int
  BY DEF IsRatchetState, Fields
<1>2. IsFiniteSet(s.recvCounter .. (upTo - 1))
  BY <1>1, FS_Interval
<1>3. IsFiniteSet(ToSkip(s, upTo))
  BY <1>2, FS_EmptySet DEF ToSkip
<1>4. Cardinality(ToSkip(s, upTo)) \in Nat
  BY <1>3, FS_CardinalityType
<1>5. Cardinality(ToSkip(s, upTo)) = 0 <=> ToSkip(s, upTo) = {}
  BY <1>3, FS_EmptySet
<1> QED
  BY <1>3, <1>4, <1>5

\* The loop of cacheSkipped respects both caps.
LEMMA CacheCapped ==
    ASSUME NEW K, NEW s, IsRatchetState(s, K), NEW root, Stands(s, root), Capped(s),
           NEW remote \in K, NEW upTo \in Nat, SkipAllowed(s, remote, upTo)
    PROVE  Capped(cacheSkipped(s, remote, upTo))
<1> DEFINE new == ToSkip(s, upTo)
           t == cacheSkipped(s, remote, upTo)
           bucket == DOMAIN Bucket(s, remote)
<1>1. CASE new = {}
  <2>1. t = s
    BY <1>1 DEF cacheSkipped
  <2> HIDE DEF t
  <2> QED
    BY <2>1 DEF t
<1>2. CASE new # {}
  <2>1. IsFiniteSet(new) /\ Cardinality(new) \in Nat /\ Cardinality(new) > 0
    BY <1>2, ToSkipFinite
  <2>2. /\ Cardinality(bucket) + Cardinality(new) <= MaxSkip
        /\ totalSkipped(s) + Cardinality(new) <= GlobalSkipCap
    BY <2>1 DEF SkipAllowed
  <2>3. IsFiniteSet(bucket) /\ Cardinality(bucket) \in Nat
    <3>1. IsFiniteSet(bucket)
      BY FS_EmptySet DEF Capped, Bucket
    <3> QED
      BY <3>1, FS_CardinalityType
  <2>4. \A r, c : HasSlot(t, r, c) <=> HasSlot(s, r, c) \/ (r = remote /\ c \in new)
    <3>1. Gains(s, t, remote, new, root)
      BY CacheGains
    <3> QED
      BY <3>1 DEF Gains
  <2>5. DOMAIN t.skipped \subseteq DOMAIN s.skipped \union {remote}
    <3>1. t = s \/ \E k \in s.recvChain : CachedTo(s, t, remote, upTo, k)
      BY CacheStep
    <3> HIDE DEF t
    <3> QED
      BY <3>1 DEF CachedTo
  <2>6. \A c : c \in bucket <=> HasSlot(s, remote, c)
    BY DEF Bucket, HasSlot
  <2> HIDE DEF t, new, bucket
  <2>7. ASSUME NEW r \in DOMAIN t.skipped
        PROVE  /\ DOMAIN t.skipped[r] # {}
               /\ IsFiniteSet(DOMAIN t.skipped[r])
               /\ Cardinality(DOMAIN t.skipped[r]) <= MaxSkip
    <3>1. CASE r = remote
      <4>1. DOMAIN t.skipped[r] = bucket \union new
        BY <2>4, <2>6, <3>1 DEF HasSlot
      <4>2. IsFiniteSet(bucket \union new) /\ Cardinality(bucket \union new) <= Cardinality(bucket) + Cardinality(new)
        BY <2>1, <2>3, UnionAtMost
      <4>3. Cardinality(bucket \union new) \in Nat
        BY <4>2, FS_CardinalityType
      <4>4. Cardinality(bucket \union new) <= MaxSkip
        BY <2>1, <2>2, <2>3, <4>2, <4>3, SkipCapsAssumption
      <4> QED
        BY <1>2, <4>1, <4>2, <4>4 DEF new
    <3>2. CASE r # remote
      <4>1. r \in DOMAIN s.skipped
        BY <2>5, <3>2
      <4>2. DOMAIN t.skipped[r] = DOMAIN s.skipped[r]
        BY <2>4, <3>2, <4>1 DEF HasSlot
      <4> QED
        BY <4>1, <4>2 DEF Capped
    <3> QED
      BY <3>1, <3>2
  <2>8. SkippedSlots(t) = SkippedSlots(s) \union ({remote} \X new)
    <3>1. \A x : x \in SkippedSlots(t) <=> x \in SkippedSlots(s) \/ x \in {remote} \X new
      BY <2>4, SlotsAre
    <3> QED
      BY <3>1
  <2>9. IsFiniteSet(SkippedSlots(t)) /\ totalSkipped(t) <= GlobalSkipCap
    <3>1. IsFiniteSet({remote} \X new) /\ Cardinality({remote} \X new) = Cardinality(new)
      BY <2>1, PairsCount
    <3>2. IsFiniteSet(SkippedSlots(s)) /\ Cardinality(SkippedSlots(s)) \in Nat
      BY FS_CardinalityType DEF Capped
    <3> DEFINE all == SkippedSlots(s) \union ({remote} \X new)
    <3>3. IsFiniteSet(all)
          /\ Cardinality(all) <= Cardinality(SkippedSlots(s)) + Cardinality({remote} \X new)
      BY <3>1, <3>2, UnionAtMost
    <3>4. Cardinality(all) \in Nat
      BY <3>3, FS_CardinalityType
    <3> HIDE DEF all
    <3>5. Cardinality(all) <= GlobalSkipCap
      BY <2>1, <2>2, <3>1, <3>2, <3>3, <3>4, SkipCapsAssumption DEF totalSkipped
    <3> QED
      BY <2>8, <3>3, <3>5 DEF totalSkipped, all
  <2> QED
    BY <2>7, <2>9 DEF Capped, t
<1> QED
  BY <1>1, <1>2

\* tryDecryptSkipped leaves no bucket empty.
LEMMA DropCapped ==
    ASSUME NEW K, NEW s, IsRatchetState(s, K), NEW h, HasSkipped(s, h), Capped(s)
    PROVE  Capped(DropSkipped(s, h))
<1> DEFINE bucket == s.skipped[h.dhPub]
           rest == Restrict(bucket, DOMAIN bucket \ {h.counter})
           sk == IF DOMAIN rest = {}
                 THEN Restrict(s.skipped, DOMAIN s.skipped \ {h.dhPub})
                 ELSE [s.skipped EXCEPT ![h.dhPub] = rest]
           t == DropSkipped(s, h)
<1>1. t.skipped = sk
  <2>1. t = [s EXCEPT !.skipped = sk]
    BY DEF DropSkipped
  <2> HIDE DEF sk, t
  <2> QED
    BY <2>1 DEF IsRatchetState, Fields
<1>2. DOMAIN rest \subseteq DOMAIN bucket
  BY DEF Restrict
<1>3. ASSUME NEW r \in DOMAIN sk
      PROVE  r \in DOMAIN s.skipped /\ DOMAIN sk[r] # {} /\ DOMAIN sk[r] \subseteq DOMAIN s.skipped[r]
  <2>1. CASE DOMAIN rest = {}
    <3>1. sk = Restrict(s.skipped, DOMAIN s.skipped \ {h.dhPub})
      BY <2>1
    <3> HIDE DEF sk, rest
    <3>2. r \in DOMAIN s.skipped /\ sk[r] = s.skipped[r]
      BY <1>3, <3>1 DEF Restrict
    <3> QED
      BY <3>2 DEF Capped
  <2>2. CASE DOMAIN rest # {}
    <3>1. sk = [s.skipped EXCEPT ![h.dhPub] = rest]
      BY <2>2
    <3> HIDE DEF sk, rest
    <3>2. r \in DOMAIN s.skipped /\ sk[r] = IF r = h.dhPub THEN rest ELSE s.skipped[r]
      BY <1>3, <3>1
    <3> QED
      BY <1>2, <2>2, <3>2 DEF Capped
  <2> QED
    BY <2>1, <2>2
<1> HIDE DEF sk, t
<1>4. ASSUME NEW r \in DOMAIN t.skipped
      PROVE  /\ DOMAIN t.skipped[r] # {}
             /\ IsFiniteSet(DOMAIN t.skipped[r])
             /\ Cardinality(DOMAIN t.skipped[r]) <= MaxSkip
  <2>1. /\ r \in DOMAIN s.skipped /\ DOMAIN t.skipped[r] # {}
        /\ DOMAIN t.skipped[r] \in SUBSET DOMAIN s.skipped[r]
    BY <1>1, <1>3, <1>4
  <2>2. IsFiniteSet(DOMAIN s.skipped[r]) /\ Cardinality(DOMAIN s.skipped[r]) <= MaxSkip
    BY <2>1 DEF Capped
  <2>3. /\ IsFiniteSet(DOMAIN t.skipped[r])
        /\ Cardinality(DOMAIN t.skipped[r]) <= Cardinality(DOMAIN s.skipped[r])
    BY <2>1, <2>2, FS_Subset
  <2>4. Cardinality(DOMAIN t.skipped[r]) \in Nat /\ Cardinality(DOMAIN s.skipped[r]) \in Nat
    BY <2>2, <2>3, FS_CardinalityType
  <2> QED
    BY <2>1, <2>2, <2>3, <2>4, SkipCapsAssumption
<1>5. SkippedSlots(t) \in SUBSET SkippedSlots(s)
  <2>1. \A r, c : HasSlot(t, r, c) => HasSlot(s, r, c)
    BY <1>1, <1>3 DEF HasSlot
  <2> QED
    BY <2>1, SlotsAre
<1>6. IsFiniteSet(SkippedSlots(t)) /\ totalSkipped(t) <= GlobalSkipCap
  <2>1. IsFiniteSet(SkippedSlots(s)) /\ Cardinality(SkippedSlots(s)) <= GlobalSkipCap
    BY DEF Capped, totalSkipped
  <2>2. /\ IsFiniteSet(SkippedSlots(t))
        /\ Cardinality(SkippedSlots(t)) <= Cardinality(SkippedSlots(s))
    BY <1>5, <2>1, FS_Subset
  <2>3. Cardinality(SkippedSlots(t)) \in Nat /\ Cardinality(SkippedSlots(s)) \in Nat
    BY <2>1, <2>2, FS_CardinalityType
  <2> QED
    BY <2>1, <2>2, <2>3, SkipCapsAssumption DEF totalSkipped
<1> QED
  BY <1>4, <1>6 DEF Capped, t

LEMMA SameCacheCapped ==
    ASSUME NEW s, NEW t, t.skipped = s.skipped, Capped(s)
    PROVE  Capped(t)
<1>1. SkippedSlots(t) = SkippedSlots(s)
  BY DEF SkippedSlots
<1> QED
  BY <1>1 DEF Capped, totalSkipped

LEMMA DecryptCapped ==
    ASSUME NEW K, NEW s, IsRatchetState(s, K), NEW root, Stands(s, root), Capped(s),
           NEW m \in Message(K), NEW fresh \in K, Opens(s, m, fresh)
    PROVE  Capped(AfterDecrypt(s, m, fresh))
<1> DEFINE h == m.header
           c == IF s.dhRemote = NoPub THEN s ELSE cacheSkipped(s, s.dhRemote, h.prevN)
           v == Turned(s, h, fresh)
           u == cacheSkipped(v, h.dhPub, h.counter)
           t == AfterDecrypt(s, m, fresh)
<1>0. h.dhPub \in K /\ h.counter \in Nat /\ h.prevN \in Nat
  BY DEF Message
<1>1. CASE HasSkipped(s, h)
  BY <1>1, DropCapped DEF AfterDecrypt
<1>2. CASE ~HasSkipped(s, h)
  <2>1. /\ t = HeadTaken(u) /\ SkipAllowed(v, h.dhPub, h.counter)
        /\ h.dhPub # s.dhRemote => ClosesAllowed(s, h)
    BY <1>2 DEF AfterDecrypt, Opens
  <2>2. IsRatchetState(v, K) /\ Capped(v) /\ \E r : Stands(v, r)
    <3>1. CASE h.dhPub = s.dhRemote
      BY <3>1 DEF Turned
    <3>2. CASE h.dhPub # s.dhRemote
      <4>1. IsRatchetState(c, K) /\ Capped(c)
        <5>1. CASE s.dhRemote = NoPub
          BY <5>1
        <5>2. CASE s.dhRemote # NoPub
          <6>1. s.dhRemote \in K /\ SkipAllowed(s, s.dhRemote, h.prevN)
            BY <2>1, <3>2, <5>2 DEF IsRatchetState, Fields, ClosesAllowed
          <6>2. c = cacheSkipped(s, s.dhRemote, h.prevN)
            BY <5>2
          <6> HIDE DEF c
          <6> QED
            BY <1>0, <6>1, <6>2, CacheStep, CacheCapped
        <5> QED
          BY <5>1, <5>2
      <4>2. v = dhRatchetStep(c, h.dhPub, fresh)
        BY <3>2 DEF Turned
      <4> HIDE DEF c, v
      <4>3. IsRatchetState(v, K) /\ Stepped(c, v, h.dhPub, fresh)
        BY <1>0, <4>1, <4>2, DhStep
      <4>4. v.skipped = c.skipped /\ Stands(v, RecvRoot(c, h.dhPub))
        BY <4>3 DEF Stepped, Stands, FirstChainKey, KeyOf
      <4> QED
        BY <4>1, <4>3, <4>4, SameCacheCapped
    <3> QED
      BY <3>1, <3>2
  <2> HIDE DEF v
  <2>3. IsRatchetState(u, K) /\ Capped(u)
    BY <1>0, <2>1, <2>2, CacheStep, CacheCapped
  <2> HIDE DEF u
  <2>4. HeadTaken(u).skipped = u.skipped
    BY <2>3 DEF HeadTaken, IsRatchetState, Fields
  <2> QED
    BY <2>1, <2>3, <2>4, SameCacheCapped DEF t
<1> QED
  BY <1>1, <1>2

(***************************************************************************)
(* encryptRatchet: the message has the next place on the sending chain.    *)
(***************************************************************************)
LEMMA EncryptFull ==
    ASSUME NEW K, NEW s, IsRatchetState(s, K), CanEncrypt(s), NEW root,
           s.sendChain \subseteq {KeyOf(root, s.sendCounter)}
    PROVE  LET t == AfterEncrypt(s)
               m == Sealed(s)
           IN  /\ m.header.dhPub = s.dhSelf /\ m.header.counter = s.sendCounter
               /\ m.header.prevN = s.prevSendCounter /\ m.key = KeyOf(root, s.sendCounter)
               /\ t.sendChain = {KeyOf(root, s.sendCounter + 1)}
               /\ t.sendCounter = s.sendCounter + 1 /\ t.prevSendCounter = s.prevSendCounter
               /\ t.dhSelf = s.dhSelf /\ t.dhRemote = s.dhRemote /\ t.rootKey = s.rootKey
               /\ t.recvChain = s.recvChain /\ t.recvCounter = s.recvCounter
               /\ t.skipped = s.skipped
<1> DEFINE c == CHOOSE c \in s.sendChain : TRUE
           next == {Advance(d, 1) : d \in s.sendChain}
           t == [s EXCEPT !.sendChain = next, !.sendCounter = s.sendCounter + 1]
<1>1. s.sendChain = {KeyOf(root, s.sendCounter)} /\ c = KeyOf(root, s.sendCounter)
  BY DEF CanEncrypt, NoChain
<1>2. s.sendCounter \in Nat
  BY DEF IsRatchetState, Fields
<1>3. next = {KeyOf(root, s.sendCounter + 1)}
  <2>1. Advance(KeyOf(root, s.sendCounter), 1) = KeyOf(root, s.sendCounter + 1)
    BY <1>2 DEF Advance, KeyOf
  <2> QED
    BY <1>1, <2>1
<1>4. Sealed(s) = [ header |-> [ dhPub |-> s.dhSelf, prevN |-> s.prevSendCounter,
                                 counter |-> s.sendCounter ], key |-> c ]
  BY DEF Sealed, MessageKey
<1>5. AfterEncrypt(s) = t
  BY DEF AfterEncrypt
<1>6. /\ t.sendChain = next
      /\ t.sendCounter = s.sendCounter + 1 /\ t.prevSendCounter = s.prevSendCounter
      /\ t.dhSelf = s.dhSelf /\ t.dhRemote = s.dhRemote /\ t.rootKey = s.rootKey
      /\ t.recvChain = s.recvChain /\ t.recvCounter = s.recvCounter
      /\ t.skipped = s.skipped
  <2> HIDE DEF next
  <2> QED
    BY DEF IsRatchetState, Fields
<1> HIDE DEF c, t, next
<1> QED
  BY <1>1, <1>3, <1>4, <1>5, <1>6

\* cacheSkipped finds the key of a message on a chain it may walk up to there.
LEMMA WalksTo ==
    ASSUME NEW K, NEW s, IsRatchetState(s, K), NEW root, NEW remote, NEW n \in Nat,
           s.recvChain = {KeyOf(root, s.recvCounter)}, s.recvCounter <= n
    PROVE  KeyOf(root, n) \in cacheSkipped(s, remote, n).recvChain
<1> DEFINE t == cacheSkipped(s, remote, n)
           new == ToSkip(s, n)
<1>1. Stands(s, root)
  BY DEF Stands
<1>2. /\ Stands(t, root) /\ (t.recvChain = {} <=> s.recvChain = {})
      /\ t.recvCounter = IF new = {} THEN s.recvCounter ELSE n
  BY <1>1, CacheGains
<1>3. s.recvCounter \in Nat /\ new = s.recvCounter .. (n - 1)
  BY DEF IsRatchetState, Fields, ToSkip, NoChain
<1> HIDE DEF t
<1>4. new = {} => s.recvCounter = n
  <2>1. s.recvCounter < n => s.recvCounter \in s.recvCounter .. (n - 1)
    BY <1>3
  <2> QED
    BY <1>3, <2>1
<1> HIDE DEF new
<1>5. t.recvCounter = n
  BY <1>2, <1>4
<1>6. t.recvChain = {KeyOf(root, n)}
  BY <1>2, <1>5 DEF Stands
<1> QED
  BY <1>6 DEF t

\* As many as are told apart by a function on M are no more than M.
LEMMA Covers ==
    ASSUME NEW M, IsFiniteSet(M), NEW g, NEW B, \A b \in B : \E j \in M : g[j] = b
    PROVE  /\ IsFiniteSet(B) /\ Cardinality(B) <= Cardinality(M)
           /\ Cardinality(B) \in Nat /\ Cardinality(M) \in Nat
<1> DEFINE f == [j \in M |-> g[j]]
           T == {f[j] : j \in M}
<1>1. f \in Surjection(M, T)
  BY DEF Surjection
<1>2. \A j \in M : f[j] = g[j]
  OBVIOUS
<1> HIDE DEF f
<1>3. B \in SUBSET T
  BY <1>2
<1> HIDE DEF T
<1>4. IsFiniteSet(T) /\ Cardinality(T) <= Cardinality(M)
  BY <1>1, FS_Surjection
<1>5. IsFiniteSet(B) /\ Cardinality(B) <= Cardinality(T)
  BY <1>3, <1>4, FS_Subset
<1>6. Cardinality(B) \in Nat /\ Cardinality(T) \in Nat /\ Cardinality(M) \in Nat
  BY <1>4, <1>5, FS_CardinalityType
<1> QED
  BY <1>4, <1>5, <1>6

LEMMA SumsUp ==
    ASSUME NEW S, IsFiniteSet(S), NEW T, IsFiniteSet(T), \A x \in S : x \notin T
    PROVE  Cardinality(S \union T) = Cardinality(S) + Cardinality(T)
<1>1. S \intersect T = {}
  OBVIOUS
<1>2. Cardinality(S \union T) = Cardinality(S) + Cardinality(T) - Cardinality(S \intersect T)
  BY FS_Union
<1>3. Cardinality(S \intersect T) = 0
  BY <1>1, FS_EmptySet
<1>4. Cardinality(S) \in Nat /\ Cardinality(T) \in Nat
  BY FS_CardinalityType
<1> QED
  BY <1>2, <1>3, <1>4

\* The places g gives M that are in the bucket of the place of j.
InBucket(M, g, j) == {k \in M : g[k][1] = g[j][1]}

FitsSkipCaps(M, g) ==
    /\ IsFiniteSet(M) /\ Cardinality(M) <= GlobalSkipCap
    /\ \A j \in M : Cardinality(InBucket(M, g, j)) <= MaxSkip

\* The slots of s, and those of remote in new, are places of M; the latter are new.
HoldsPlaces(M, g, s, remote, new) ==
    /\ \A r, c : HasSlot(s, r, c) \/ (r = remote /\ c \in new) => \E j \in M : g[j] = <<r, c>>
    /\ \A c \in new : ~HasSlot(s, remote, c)

\* The caps leave room for the new slots when M fits the caps.
LEMMA RoomAmong ==
    ASSUME NEW M, NEW g, FitsSkipCaps(M, g), NEW s, NEW remote, NEW new, IsFiniteSet(new),
           HoldsPlaces(M, g, s, remote, new)
    PROVE  Cardinality(new) > 0 =>
               /\ Cardinality(DOMAIN Bucket(s, remote)) + Cardinality(new) <= MaxSkip
               /\ totalSkipped(s) + Cardinality(new) <= GlobalSkipCap
<1> DEFINE bucket == DOMAIN Bucket(s, remote)
           slots == SkippedSlots(s)
           more == {remote} \X new
<1>1. Cardinality(new) > 0 => \E c : c \in new
  <2>1. new = {} => Cardinality(new) = 0
    BY FS_EmptySet
  <2> QED
    BY <2>1
<1>2. \A c : c \in bucket <=> HasSlot(s, remote, c)
  BY DEF Bucket, HasSlot
<1>3. /\ \A r, c : HasSlot(s, r, c) \/ (r = remote /\ c \in new) => \E j \in M : g[j] = <<r, c>>
      /\ \A c \in new : ~HasSlot(s, remote, c)
      /\ IsFiniteSet(M) /\ Cardinality(M) <= GlobalSkipCap
      /\ \A j \in M : Cardinality(InBucket(M, g, j)) <= MaxSkip
  BY DEF FitsSkipCaps, HoldsPlaces
<1> HIDE DEF bucket, slots, more
<1>4. totalSkipped(s) + Cardinality(new) <= GlobalSkipCap
  <2>1. IsFiniteSet(more) /\ Cardinality(more) = Cardinality(new)
    BY PairsCount DEF more
  <2>2. \A b \in slots \union more : \E j \in M : g[j] = b
    <3>1. \A b \in slots : \E r, c : b = <<r, c>> /\ HasSlot(s, r, c)
      BY SlotsAre DEF slots
    <3>2. \A b \in more : \E c : b = <<remote, c>> /\ c \in new
      BY DEF more
    <3> SUFFICES ASSUME NEW b \in slots \union more PROVE \E j \in M : g[j] = b
      OBVIOUS
    <3>3. \E r, c : b = <<r, c>> /\ (HasSlot(s, r, c) \/ (r = remote /\ c \in new))
      BY <3>1, <3>2
    <3> QED
      BY <1>3, <3>3
  <2>3. /\ IsFiniteSet(slots \union more) /\ Cardinality(slots \union more) <= Cardinality(M)
        /\ Cardinality(slots \union more) \in Nat /\ Cardinality(M) \in Nat
    BY <1>3, <2>2, Covers
  <2>4. slots \in SUBSET (slots \union more)
    OBVIOUS
  <2>5. IsFiniteSet(slots)
    BY <2>3, <2>4, FS_Subset
  <2>6. \A x \in slots : x \notin more
    <3>1. ASSUME NEW x \in slots, x \in more PROVE FALSE
      <4>1. PICK r, c : x = <<r, c>> /\ HasSlot(s, r, c)
        BY <3>1, SlotsAre DEF slots
      <4>2. r = remote /\ c \in new
        BY <3>1, <4>1 DEF more
      <4> QED
        BY <1>3, <4>1, <4>2
    <3> QED
      BY <3>1
  <2>7. Cardinality(slots \union more) = Cardinality(slots) + Cardinality(more)
    BY <2>1, <2>5, <2>6, SumsUp
  <2>8. totalSkipped(s) = Cardinality(slots)
    BY DEF totalSkipped, slots
  <2>9. Cardinality(slots) + Cardinality(new) <= Cardinality(M)
    BY <2>1, <2>3, <2>7
  <2>10. Cardinality(slots) \in Nat /\ Cardinality(new) \in Nat
    BY <2>5, FS_CardinalityType
  <2> QED
    BY <1>3, <2>3, <2>8, <2>9, <2>10, SkipCapsAssumption
<1>5. ASSUME NEW c0 \in new
      PROVE  Cardinality(bucket) + Cardinality(new) <= MaxSkip
  <2>1. PICK j0 \in M : g[j0] = <<remote, c0>>
    BY <1>3
  <2> DEFINE Mb == InBucket(M, g, j0)
             at == [j \in M |-> g[j][2]]
  <2>2. IsFiniteSet(Mb) /\ Cardinality(Mb) <= MaxSkip
    <3>1. Mb \in SUBSET M
      BY DEF InBucket
    <3>2. Cardinality(Mb) <= MaxSkip
      BY <1>3
    <3> HIDE DEF Mb
    <3> QED
      BY <1>3, <3>1, <3>2, FS_Subset
  <2>3. ASSUME NEW c \in bucket \union new PROVE \E j \in Mb : at[j] = c
    <3>1. PICK j \in M : g[j] = <<remote, c>>
      BY <1>2, <1>3
    <3>2. g[j][1] = remote /\ g[j0][1] = remote /\ g[j][2] = c
      BY <2>1, <3>1
    <3>3. j \in Mb
      BY <3>2 DEF InBucket
    <3> QED
      BY <3>2, <3>3
  <2> HIDE DEF Mb, at
  <2>4. /\ IsFiniteSet(bucket \union new) /\ Cardinality(bucket \union new) <= Cardinality(Mb)
        /\ Cardinality(bucket \union new) \in Nat /\ Cardinality(Mb) \in Nat
    BY <2>2, <2>3, Covers
  <2>5. bucket \in SUBSET (bucket \union new)
    OBVIOUS
  <2>6. IsFiniteSet(bucket)
    BY <2>4, <2>5, FS_Subset
  <2>7. \A x \in bucket : x \notin new
    BY <1>2, <1>3
  <2>8. Cardinality(bucket \union new) = Cardinality(bucket) + Cardinality(new)
    BY <2>6, <2>7, SumsUp
  <2>9. Cardinality(bucket) \in Nat /\ Cardinality(new) \in Nat
    BY <2>6, FS_CardinalityType
  <2> QED
    BY <2>2, <2>4, <2>8, <2>9, SkipCapsAssumption
<1> QED
  BY <1>1, <1>4, <1>5 DEF bucket
=============================================================================
