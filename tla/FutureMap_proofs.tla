--------------------------- MODULE FutureMap_proofs ---------------------------
(***************************************************************************)
(* The ring of FutureMap is long enough for every max_running_requests,    *)
(* every context length and every chunk size.                              *)
(*                                                                         *)
(* SlotIntact is not inductive.  What carries it is an account of the      *)
(* slots: used, the slots handed out by the last decode and since, is paid *)
(* for by the requests that are still in the running batch, MaxPasses each *)
(* (Account), so it stays below the length of the ring; and the slots that *)
(* are still to be read are among the last used ones (Window).             *)
(***************************************************************************)
EXTENDS FutureMap, FiniteSetTheorems, TLAPS

Account ==
    /\ Cardinality(Merged) + Cardinality(chunked) <= MaxRunning
    /\ used <= MaxPasses * Cardinality(Merged) + passes

ChunkInv ==
    /\ chunked \subseteq last /\ running \cap chunked = {}
    /\ chunked = {} \/ \E r \in Reqs : chunked = {r}
    /\ passes < MaxPasses /\ (chunked = {} => passes = 0)

\* s is one of the last n slots handed out: in this lap or in the lap before.
InWindow(s, ct, n) == (ct - n < s /\ s <= ct) \/ ct + future_limit - n < s

Window == \A r \in running \cup last : slot[r] \in Nat /\ InWindow(slot[r], future_ct, used)

IInv == TypeOK /\ Account /\ ChunkInv /\ Window /\ lost = {}

\* Products the solvers need a hand with.
LEMMA Products ==
    ASSUME NEW p \in Nat, NEW a \in Nat, NEW b \in Nat
    PROVE  /\ p * a \in Nat
           /\ p * (a + b) = p * a + p * b
           /\ a <= b => p * a <= p * b
           /\ p >= 1 => a <= p * a
<1>1. p * a \in Nat  OBVIOUS
<1>2. p * (a + b) = p * a + p * b  OBVIOUS
<1>3. a <= b => p * a <= p * b  OBVIOUS
<1>4. p >= 1 => a <= p * a  OBVIOUS
<1> QED  BY <1>1, <1>2, <1>3, <1>4

LEMMA LimitFacts ==
    /\ future_limit \in Nat /\ MaxPasses * MaxRunning \in Nat
    /\ MaxPasses * MaxRunning + MaxRunning <= future_limit
    /\ future_limit >= 1
    /\ future_buffer_len = future_limit + 2 * MaxRunning
<1>1. MaxPasses \in Nat /\ MaxRunning \in Nat /\ MaxRunning >= 1 /\ MaxChunks \in Nat
      /\ MaxPasses <= MaxChunks + 2
  BY FutureAssumption
<1>2. MaxRunning * MaxPasses <= MaxRunning * (MaxChunks + 2)
  BY <1>1, Products
<1>3. future_limit = MaxRunning * (MaxChunks + 2) + MaxRunning * 1
  <2>1. MaxRunning * ((MaxChunks + 2) + 1) = MaxRunning * (MaxChunks + 2) + MaxRunning * 1
    BY <1>1, Products
  <2>2. 3 + MaxChunks = (MaxChunks + 2) + 1
    BY <1>1
  <2> QED  BY <2>1, <2>2 DEF future_limit
<1>4. MaxRunning * MaxPasses = MaxPasses * MaxRunning /\ MaxRunning * 1 = MaxRunning
  BY <1>1
<1>5. MaxPasses * MaxRunning \in Nat /\ MaxRunning * (MaxChunks + 2) \in Nat
  BY <1>1, Products
<1> QED  BY <1>1, <1>2, <1>3, <1>4, <1>5 DEF future_buffer_len

\* The counter of alloc_future_indices wraps at most once.
LEMMA Wrap ==
    ASSUME NEW L \in Nat, L >= 1, NEW a \in 0 .. (L - 1), NEW b \in 0 .. L
    PROVE  (a + b) % L = IF a + b < L THEN a + b ELSE a + b - L
<1>1. a + b < L => (a + b) % L = a + b
  OBVIOUS
<1>2. a + b >= L => (a + b) % L = a + b - L
  OBVIOUS
<1> QED  BY <1>1, <1>2

\* The arithmetic of one allocation of b slots after n others.
LEMMA WindowMoves ==
    ASSUME NEW ct \in 0 .. (future_limit - 1), NEW n \in Nat, NEW b \in 0 .. MaxRunning,
           n + b <= future_limit, NEW s \in Nat
    PROVE  LET ct2 == (ct + b) % future_limit
           IN  /\ ct2 \in 0 .. (future_limit - 1)
               /\ InWindow(s, ct, n) => InWindow(s, ct2, n + b) /\ s \notin (ct + 1) .. (ct + b)
               /\ s \in (ct + 1) .. (ct + b) =>
                    /\ InWindow(s, ct2, b) /\ InWindow(s, ct2, n + b)
                    /\ s \in 0 .. (future_buffer_len - 1)
<1> DEFINE ct2 == (ct + b) % future_limit
<1>1. future_limit \in Nat /\ future_limit >= 1 /\ b <= future_limit /\ MaxRunning \in Nat
      /\ future_buffer_len = future_limit + 2 * MaxRunning
  BY LimitFacts, FutureAssumption
<1>2. ct2 = IF ct + b < future_limit THEN ct + b ELSE ct + b - future_limit
  <2>1. b \in 0 .. future_limit
    BY <1>1
  <2> QED  BY <1>1, <2>1, Wrap DEF ct2
<1> HIDE DEF ct2
<1>3. ct2 \in 0 .. (future_limit - 1)
  BY <1>1, <1>2
<1>4. InWindow(s, ct, n) => InWindow(s, ct2, n + b) /\ s \notin (ct + 1) .. (ct + b)
  BY <1>1, <1>2 DEF InWindow
<1>5. s \in (ct + 1) .. (ct + b) => InWindow(s, ct2, b) /\ InWindow(s, ct2, n + b)
  BY <1>1, <1>2 DEF InWindow
<1>6. s \in (ct + 1) .. (ct + b) => s \in 0 .. (future_buffer_len - 1)
  BY <1>1
<1> QED  BY <1>3, <1>4, <1>5, <1>6 DEF ct2

\* run_batch writes no slot that a request still has to read.
LEMMA RunBatch ==
    ASSUME IInv, NEW B \in SUBSET Reqs, run_batch(B),
           Cardinality(B) \in 0 .. MaxRunning, used + Cardinality(B) <= future_limit,
           running' \subseteq (running \cup last)
    PROVE  /\ future_ct' \in 0 .. (future_limit - 1)
           /\ slot' \in [Reqs -> 0 .. (future_buffer_len - 1)]
           /\ lost' = {}
           /\ \A r \in B : /\ InWindow(slot'[r], future_ct', Cardinality(B))
                           /\ InWindow(slot'[r], future_ct', used + Cardinality(B))
           /\ \A r \in running' \ B : InWindow(slot'[r], future_ct', used + Cardinality(B))
<1> DEFINE b == Cardinality(B)
           W == (future_ct + 1) .. (future_ct + b)
<1>1. /\ future_ct \in 0 .. (future_limit - 1) /\ used \in Nat /\ b \in 0 .. MaxRunning
      /\ used + b <= future_limit /\ slot \in [Reqs -> 0 .. (future_buffer_len - 1)]
      /\ running \cup last \subseteq Reqs /\ running' \subseteq Reqs
  BY DEF IInv, TypeOK
<1>2. PICK f \in [B -> W] :
        slot' = [r \in Reqs |-> IF r \in B THEN f[r] ELSE IF r \in running' THEN slot[r] ELSE 0]
  BY DEF run_batch, Bijection, Injection, Slots
<1>3. future_ct' = (future_ct + b) % future_limit
  BY DEF run_batch, alloc_future_indices
<1>4. lost' = {r \in running' \ B : r \in lost \/ slot[r] \in W}
  BY DEF run_batch, Slots
<1> HIDE DEF b
<1>5. future_ct \in Int /\ future_limit \in Nat /\ b \in Nat /\ MaxRunning \in Nat
      /\ future_buffer_len - 1 \in Nat
  BY <1>1, LimitFacts, FutureAssumption
<1>6. future_ct' \in 0 .. (future_limit - 1)
  <2>1. 0 \in Nat  OBVIOUS
  <2> QED  BY <1>1, <1>3, <2>1, WindowMoves
<1>7. ASSUME NEW r \in B
      PROVE  /\ slot'[r] \in 0 .. (future_buffer_len - 1)
             /\ InWindow(slot'[r], future_ct', b) /\ InWindow(slot'[r], future_ct', used + b)
  <2>1. slot'[r] = f[r] /\ f[r] \in W
    BY <1>2
  <2>2. f[r] \in Nat
    BY <2>1, <1>5, <1>1
  <2> QED  BY <2>1, <2>2, <1>1, <1>3, WindowMoves
<1>8. ASSUME NEW r \in running' \ B
      PROVE  InWindow(slot'[r], future_ct', used + b) /\ slot[r] \notin W
  <2>1. r \in Reqs /\ slot'[r] = slot[r]
    BY <1>1, <1>2
  <2>2. slot[r] \in Nat /\ InWindow(slot[r], future_ct, used)
    BY DEF IInv, Window
  <2> QED  BY <2>1, <2>2, <1>1, <1>3, WindowMoves
<1>9. lost' = {}
  BY <1>4, <1>8 DEF IInv
<1>10. slot' \in [Reqs -> 0 .. (future_buffer_len - 1)]
  <2>1. ASSUME NEW r \in Reqs
        PROVE  slot'[r] \in 0 .. (future_buffer_len - 1)
    <3>1. CASE r \in B  BY <3>1, <1>7
    <3>2. CASE r \notin B  BY <3>2, <1>1, <1>2, <1>5
    <3> QED  BY <3>1, <3>2
  <2>2. slot' = [r \in Reqs |-> slot'[r]]
    BY <1>2
  <2> QED  BY <2>1, <2>2
<1> QED  BY <1>6, <1>7, <1>8, <1>9, <1>10 DEF b

LEMMA FiniteFacts ==
    ASSUME NEW S \in SUBSET Reqs
    PROVE  IsFiniteSet(S) /\ Cardinality(S) \in Nat
BY FutureAssumption, FS_Subset, FS_CardinalityType

LEMMA DisjointUnion ==
    ASSUME NEW S, NEW T, IsFiniteSet(S), IsFiniteSet(T), S \cap T = {}
    PROVE  /\ IsFiniteSet(S \cup T)
           /\ Cardinality(S) \in Nat /\ Cardinality(T) \in Nat
           /\ Cardinality(S \cup T) = Cardinality(S) + Cardinality(T)
<1>1. Cardinality(S) \in Nat /\ Cardinality(T) \in Nat
  BY FS_CardinalityType
<1>2. Cardinality(S \cap T) = 0
  BY FS_EmptySet
<1>3. IsFiniteSet(S \cup T)
      /\ Cardinality(S \cup T) = Cardinality(S) + Cardinality(T) - Cardinality(S \cap T)
  BY FS_Union
<1> QED  BY <1>1, <1>2, <1>3

\* The account is what keeps the slots in use within the ring.
LEMMA AccountBounds ==
    ASSUME IInv
    PROVE  /\ used <= MaxPasses * MaxRunning /\ used + MaxRunning <= future_limit
           /\ Merged \in SUBSET Reqs /\ Cardinality(Merged) \in 0 .. MaxRunning
           /\ Cardinality(chunked) \in Nat /\ used \in Nat
<1>1. Merged \in SUBSET Reqs /\ chunked \in SUBSET Reqs /\ used \in Nat /\ passes \in Nat
  BY DEF IInv, TypeOK, Merged
<1>2. Cardinality(Merged) \in Nat /\ Cardinality(chunked) \in Nat
  BY <1>1, FiniteFacts
<1>3. MaxPasses \in Nat /\ MaxRunning \in Nat /\ MaxPasses >= 1
  BY FutureAssumption
<1>4. passes <= MaxPasses * Cardinality(chunked)
  <2>1. CASE chunked = {}
    BY <2>1, <1>1, <1>2, <1>3, Products DEF IInv, ChunkInv
  <2>2. CASE chunked # {}
    <3>1. Cardinality(chunked) = 1
      BY <2>2, FS_Singleton DEF IInv, ChunkInv
    <3> QED  BY <3>1, <1>1, <1>3 DEF IInv, ChunkInv
  <2> QED  BY <2>1, <2>2
<1>5. used <= MaxPasses * (Cardinality(Merged) + Cardinality(chunked))
  <2>1. /\ MaxPasses * (Cardinality(Merged) + Cardinality(chunked))
             = MaxPasses * Cardinality(Merged) + MaxPasses * Cardinality(chunked)
        /\ MaxPasses * Cardinality(Merged) \in Nat /\ MaxPasses * Cardinality(chunked) \in Nat
    BY <1>2, <1>3, Products
  <2> QED  BY <2>1, <1>1, <1>4 DEF IInv, Account
<1>6. MaxPasses * (Cardinality(Merged) + Cardinality(chunked)) <= MaxPasses * MaxRunning
  <2>1. Cardinality(Merged) + Cardinality(chunked) \in Nat
    BY <1>2
  <2> QED  BY <2>1, <1>3, Products DEF IInv, Account
<1>7. used <= MaxPasses * MaxRunning
  <2>1. MaxPasses * (Cardinality(Merged) + Cardinality(chunked)) \in Nat
        /\ MaxPasses * MaxRunning \in Nat
    BY <1>2, <1>3, Products
  <2> QED  BY <2>1, <1>1, <1>5, <1>6
<1>8. used + MaxRunning <= future_limit
  BY <1>1, <1>3, <1>7, LimitFacts
<1>9. Cardinality(Merged) <= MaxRunning
  BY <1>2, <1>3 DEF IInv, Account
<1> QED  BY <1>1, <1>2, <1>3, <1>7, <1>8, <1>9

\* A prefill batch of k requests is paid for by the requests it adds to the
\* running batch and by the pass of the request that stays chunked.
LEMMA PrefillPays ==
    ASSUME IInv, NEW B \in SUBSET Reqs, NEW c \in SUBSET Reqs, NEW p \in Nat,
           B # {}, chunked \subseteq B,
           \/ c = {} /\ p = 0
           \/ \E r \in B : /\ c = {r}
                          /\ p = IF r \in chunked THEN passes + 1 ELSE 1
    PROVE  LET k == Cardinality(B)
           IN  /\ Cardinality(c) \in {0, 1} /\ k \in Nat /\ Cardinality(c) <= k
               /\ passes + k <= MaxPasses * (k - Cardinality(c)) + p
<1> DEFINE k == Cardinality(B)
<1>1. k \in Nat /\ k >= 1 /\ IsFiniteSet(B)
  BY FiniteFacts, FS_EmptySet
<1>2. MaxPasses \in Nat /\ MaxPasses >= 1 /\ passes \in Nat /\ passes < MaxPasses
      /\ (chunked = {} => passes = 0)
  BY FutureAssumption DEF IInv, TypeOK, ChunkInv
<1> HIDE DEF k
<1>3. k - 1 \in Nat /\ k - 1 <= MaxPasses * (k - 1) /\ MaxPasses * k = MaxPasses * (k - 1) + MaxPasses
  <2>1. k - 1 \in Nat /\ (k - 1) + 1 = k
    BY <1>1
  <2>2. MaxPasses * ((k - 1) + 1) = MaxPasses * (k - 1) + MaxPasses * 1
    BY <2>1, <1>2, Products
  <2> QED  BY <2>1, <2>2, <1>2, Products
<1>4. MaxPasses * (k - 1) \in Nat /\ MaxPasses * k \in Nat
  BY <1>1, <1>2, <1>3, Products
<1>5. CASE c = {} /\ p = 0
  <2>1. Cardinality(c) = 0
    BY <1>5, FS_EmptySet
  <2>2. k - Cardinality(c) = k
    BY <2>1, <1>1
  <2> QED  BY <2>1, <2>2, <1>1, <1>2, <1>3, <1>4, <1>5 DEF k
<1>6. ASSUME NEW r \in B, c = {r}, p = IF r \in chunked THEN passes + 1 ELSE 1
      PROVE  /\ Cardinality(c) = 1
             /\ passes + k <= MaxPasses * (k - 1) + p
  <2>1. Cardinality(c) = 1
    BY <1>6, FS_Singleton
  <2>2. CASE r \in chunked
    BY <2>1, <2>2, <1>6, <1>1, <1>2, <1>3, <1>4
  <2>3. CASE chunked = {}
    BY <2>1, <2>3, <1>6, <1>1, <1>2, <1>3, <1>4
  <2>4. CASE r \notin chunked /\ chunked # {}
    <3>1. k # 1
      BY <1>1, <2>4, FS_Singleton DEF k
    <3>2. k - 2 \in Nat /\ (k - 2) + 1 = k - 1
      BY <1>1, <3>1
    <3>3. MaxPasses * ((k - 2) + 1) = MaxPasses * (k - 2) + MaxPasses * 1
          /\ MaxPasses * (k - 2) \in Nat /\ k - 2 <= MaxPasses * (k - 2)
      BY <3>2, <1>2, Products
    <3>4. MaxPasses * (k - 1) = MaxPasses * (k - 2) + MaxPasses
      BY <3>2, <3>3, <1>2
    <3> QED  BY <3>2, <3>3, <3>4, <2>1, <2>4, <1>6, <1>1, <1>2, <1>4
  <2> QED  BY <2>1, <2>2, <2>3, <2>4
<1> QED  BY <1>1, <1>5, <1>6 DEF k

LEMMA PrefillStep ==
    ASSUME IInv, NEW B \in SUBSET Reqs, NEW c, c \in {{}} \cup {{r} : r \in B},
           NEW fin \in SUBSET last, Prefill(B, c, fin)
    PROVE  IInv'
<1> DEFINE n == Cardinality(Merged)
           k == Cardinality(B)
           m == Cardinality(c)
           N == Merged \cup (B \ c)
<1>1. /\ used + MaxRunning <= future_limit /\ Merged \in SUBSET Reqs /\ n \in 0 .. MaxRunning
      /\ used \in Nat /\ MaxRunning \in Nat /\ MaxPasses \in Nat /\ MaxPasses >= 1
  BY AccountBounds, FutureAssumption
<1>2. /\ B # {} /\ B \cap Merged = {} /\ chunked \subseteq B /\ n + k <= MaxRunning
      /\ running' = Merged /\ last' = B /\ chunked' = c /\ used' = used + k
      /\ run_batch(B) /\ process_batch_result(fin)
      /\ \/ c = {} /\ passes' = 0
         \/ \E r \in B : /\ c = {r}
                        /\ (IF r \in chunked THEN passes + 1 ELSE 1) < MaxPasses
                        /\ passes' = IF r \in chunked THEN passes + 1 ELSE 1
  BY DEF Prefill
<1>3. c \in SUBSET B /\ c \in SUBSET Reqs /\ passes \in Nat
  BY DEF IInv, TypeOK
<1>4. passes' \in Nat /\ passes' < MaxPasses /\ (c = {} => passes' = 0)
  BY <1>1, <1>2, <1>3
<1>5. m \in {0, 1} /\ k \in Nat /\ m <= k /\ passes + k <= MaxPasses * (k - m) + passes'
  <2>1. \/ c = {} /\ passes' = 0
        \/ \E r \in B : /\ c = {r}
                       /\ passes' = IF r \in chunked THEN passes + 1 ELSE 1
    BY <1>2
  <2> QED  BY <2>1, <1>2, <1>3, <1>4, PrefillPays
<1>6. Cardinality(N) = n + k - m /\ IsFiniteSet(N)
  <2>1. IsFiniteSet(Merged) /\ IsFiniteSet(B) /\ IsFiniteSet(c) /\ IsFiniteSet(B \ c)
        /\ Cardinality(B \ c) \in Nat
    BY <1>1, <1>3, FiniteFacts
  <2>2. Cardinality(B \ c) = k - m
    <3>1. (B \ c) \cup c = B /\ (B \ c) \cap c = {}
      BY <1>3
    <3>2. Cardinality((B \ c) \cup c) = Cardinality(B \ c) + m
      BY <2>1, <3>1, DisjointUnion
    <3> HIDE DEF m
    <3>3. k = Cardinality(B \ c) + m
      BY <3>1, <3>2
    <3> HIDE DEF k
    <3> QED  BY <3>3, <2>1, <1>5
  <2>3. Merged \cap (B \ c) = {}
    BY <1>2
  <2>4. IsFiniteSet(N) /\ Cardinality(N) = n + Cardinality(B \ c)
    BY <2>1, <2>3, DisjointUnion
  <2> HIDE DEF n, k, m, N
  <2> QED  BY <2>2, <2>4, <1>1, <1>5
<1>7. Merged' = N /\ running' \cup last' = Merged \cup B
  BY <1>2 DEF Merged
<1> HIDE DEF n, k, m, N
<1>8. Account'
  <2>1. Cardinality(N) + m <= MaxRunning
    BY <1>1, <1>2, <1>5, <1>6
  <2>2. used + k <= MaxPasses * (n + k - m) + passes'
    <3>1. /\ MaxPasses * (n + (k - m)) = MaxPasses * n + MaxPasses * (k - m)
          /\ MaxPasses * n \in Nat /\ MaxPasses * (k - m) \in Nat
      <4>1. n \in Nat /\ k - m \in Nat
        BY <1>1, <1>5
      <4> QED  BY <4>1, <1>1, Products
    <3>2. used <= MaxPasses * n + passes
      BY DEF IInv, Account, n
    <3>3. n + k - m = n + (k - m)
      BY <1>1, <1>5
    <3> QED  BY <3>1, <3>2, <3>3, <1>1, <1>3, <1>4, <1>5
  <2> QED  BY <2>1, <2>2, <1>2, <1>6, <1>7 DEF Account, m
<1>9. /\ future_ct' \in 0 .. (future_limit - 1)
      /\ slot' \in [Reqs -> 0 .. (future_buffer_len - 1)] /\ lost' = {}
      /\ \A r \in Merged \cup B : InWindow(slot'[r], future_ct', used')
  <2>1. Cardinality(B) \in 0 .. MaxRunning /\ used + Cardinality(B) <= future_limit
    BY <1>1, <1>2, <1>5, LimitFacts DEF k, n
  <2>2. running' \subseteq running \cup last
    BY <1>2 DEF Merged
  <2>3. /\ future_ct' \in 0 .. (future_limit - 1)
        /\ slot' \in [Reqs -> 0 .. (future_buffer_len - 1)] /\ lost' = {}
        /\ \A r \in B : InWindow(slot'[r], future_ct', used + Cardinality(B))
        /\ \A r \in running' \ B : InWindow(slot'[r], future_ct', used + Cardinality(B))
    BY <1>2, <2>1, <2>2, RunBatch
  <2> QED  BY <2>3, <1>2 DEF k
<1>10. Window'
  <2>1. ASSUME NEW r \in Reqs  PROVE slot'[r] \in Nat
    <3>1. future_buffer_len - 1 \in Int
      BY LimitFacts, <1>1
    <3> QED  BY <3>1, <1>9
  <2> QED  BY <2>1, <1>1, <1>7, <1>9 DEF Window
<1>11. ChunkInv'
  BY <1>2, <1>3, <1>4 DEF ChunkInv
<1>12. TypeOK'
  <2>1. used' \in Nat /\ passes' \in 0 .. MaxPasses
    BY <1>1, <1>2, <1>4, <1>5
  <2>2. finished' \subseteq Reqs
    BY <1>1, <1>2 DEF process_batch_result
  <2>3. lost' \subseteq Reqs /\ running' \subseteq Reqs /\ last' \subseteq Reqs /\ chunked' \subseteq Reqs
    BY <1>1, <1>2, <1>3, <1>9
  <2> QED  BY <2>1, <2>2, <2>3, <1>9 DEF TypeOK
<1> QED  BY <1>8, <1>9, <1>10, <1>11, <1>12 DEF IInv

LEMMA DecodeStep ==
    ASSUME IInv, NEW retracted \in SUBSET Merged, NEW fin \in SUBSET last,
           Decode(retracted, fin)
    PROVE  IInv'
<1> DEFINE D == (Merged \ finished) \ retracted
           d == Cardinality(D)
<1>1. /\ used + MaxRunning <= future_limit /\ Merged \in SUBSET Reqs
      /\ Cardinality(Merged) \in 0 .. MaxRunning
      /\ used \in Nat /\ MaxRunning \in Nat /\ MaxPasses \in Nat /\ MaxPasses >= 1
  BY AccountBounds, FutureAssumption
<1>2. /\ chunked = {} /\ running' = D /\ last' = D /\ used' = d
      /\ run_batch(D) /\ process_batch_result(fin) /\ chunked' = {} /\ passes' = passes
  BY DEF Decode
<1>3. D \in SUBSET Merged /\ D \in SUBSET Reqs /\ D \subseteq running \cup last
  BY <1>1 DEF Merged
<1>4. d \in Nat /\ d <= Cardinality(Merged)
  BY <1>1, <1>3, FiniteFacts, FS_Subset
<1>5. Merged' = D
  BY <1>2 DEF Merged
<1>6. passes = 0
  BY <1>2 DEF IInv, ChunkInv
<1> HIDE DEF D
<1>7. /\ future_ct' \in 0 .. (future_limit - 1)
      /\ slot' \in [Reqs -> 0 .. (future_buffer_len - 1)] /\ lost' = {}
      /\ \A r \in D : InWindow(slot'[r], future_ct', used')
  <2>1. d \in 0 .. MaxRunning /\ used + d <= future_limit
    BY <1>1, <1>4, LimitFacts
  <2>2. running' \subseteq running \cup last
    BY <1>2, <1>3
  <2> QED  BY <1>2, <1>3, <2>1, <2>2, RunBatch
<1>8. Account'
  <2>1. Cardinality(chunked') = 0
    BY <1>2, FS_EmptySet
  <2>2. d <= MaxPasses * d
    BY <1>1, <1>4, Products
  <2>3. d + 0 <= MaxRunning /\ d <= MaxPasses * d + 0
    BY <1>1, <1>4, <2>2
  <2> QED  BY <2>1, <2>3, <1>2, <1>5, <1>6 DEF Account
<1>9. Window'
  <2>1. ASSUME NEW r \in Reqs  PROVE slot'[r] \in Nat
    <3>1. future_buffer_len - 1 \in Int
      BY LimitFacts, <1>1
    <3> QED  BY <3>1, <1>7
  <2> QED  BY <2>1, <1>2, <1>3, <1>7 DEF Window
<1>10. ChunkInv'
  BY <1>2, <1>6 DEF ChunkInv, IInv
<1>11. TypeOK'
  <2>1. finished' \subseteq Reqs
    BY <1>2, <1>3 DEF process_batch_result
  <2>2. used' \in Nat /\ passes' \in 0 .. MaxPasses
    BY <1>2, <1>4 DEF IInv, TypeOK
  <2> QED  BY <2>1, <2>2, <1>2, <1>3, <1>7 DEF TypeOK
<1> QED  BY <1>7, <1>8, <1>9, <1>10, <1>11 DEF IInv

LEMMA InitHolds == Init => IInv
<1> SUFFICES ASSUME Init PROVE IInv
  OBVIOUS
<1>1. Merged = {} /\ Cardinality({}) = 0
  BY FS_EmptySet DEF Init, Merged
<1>2. MaxPasses * 0 = 0 /\ MaxRunning \in Nat /\ MaxPasses \in Nat /\ MaxPasses >= 1
  BY FutureAssumption
<1>3. Account
  BY <1>1, <1>2 DEF Init, Account
<1>4. TypeOK
  BY <1>2, LimitFacts DEF Init, TypeOK
<1> QED  BY <1>2, <1>3, <1>4 DEF Init, IInv, ChunkInv, Window

LEMMA Inductive == IInv /\ [Next]_vars => IInv'
<1> SUFFICES ASSUME IInv, [Next]_vars PROVE IInv'
  OBVIOUS
<1>1. CASE UNCHANGED vars
  BY <1>1 DEF vars, IInv, TypeOK, Account, ChunkInv, Window, InWindow, Merged
<1>2. ASSUME NEW B \in SUBSET Reqs, NEW fin \in SUBSET last,
             NEW c \in {{}} \cup {{r} : r \in B}, Prefill(B, c, fin)
      PROVE  IInv'
  BY <1>2, PrefillStep
<1>3. ASSUME NEW retracted \in SUBSET Merged, NEW fin \in SUBSET last, Decode(retracted, fin)
      PROVE  IInv'
  BY <1>3, DecodeStep
<1> QED  BY <1>1, <1>2, <1>3 DEF Next

\* The invariant that carries the others: types, the account of the slots, the
\* one chunked request, and the window of slots that are still to be read.
THEOREM RingInvariant == Spec => []IInv
BY InitHolds, Inductive, PTL DEF Spec

\* The tokens that the overlap loop passes from batch to batch are never taken
\* from, or given to, another request: the slot of an unfinished request is
\* written by nobody else before its next decode.
THEOREM SlotsStayIntact == Spec => []SlotIntact
<1>1. IInv => SlotIntact
  BY DEF IInv, SlotIntact
<1> QED  BY <1>1, RingInvariant, PTL

\* Between two decodes the ring is not lapped, however the prefills are cut.
THEOREM RingNeverLapped == Spec => []NoLap
<1>1. IInv => NoLap
  BY AccountBounds DEF NoLap
<1> QED  BY <1>1, RingInvariant, PTL
==============================================================================
