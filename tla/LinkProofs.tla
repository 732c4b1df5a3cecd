----------------------------- MODULE LinkProofs ------------------------------
(***************************************************************************)
(* What is proved of the links into the tree inside Site, in every tree:   *)
(* where a path leads, what a walk down from the home page meets, where an *)
(* album's old path ends up, and in which order its photos stand there.    *)
(***************************************************************************)
EXTENDS MoveProofs, FiniteSetTheorems

-----------------------------------------------------------------------------
(* Functions defined by recursion over 0..N: they exist.                    *)

IsIterate(f, N, first, step) == f = [n \in 0..N |-> IF n = 0 THEN first ELSE step[<<n, f[n - 1]>>]]

IsStep(S, first, step) == first \in S /\ step \in [Nat \X S -> S]

LEMMA IterateIs ==
  ASSUME NEW S, NEW first, NEW step, IsStep(S, first, step), NEW N \in Nat, NEW f, IsIterate(f, N, first, step)
  PROVE  DOMAIN f = 0..N /\ f[0] = first /\ (\A n \in 1..N : f[n] = step[<<n, f[n - 1]>>]) /\ f \in [0..N -> S]
<1> DEFINE F(n) == IF n = 0 THEN first ELSE step[<<n, f[n - 1]>>]
<1>1. f = [n \in 0..N |-> F(n)]
  BY DEF IsIterate
<1>2. DOMAIN f = 0..N /\ \A n \in 0..N : f[n] = F(n)
  <2> HIDE DEF F
  <2> QED BY <1>1
<1>3. f[0] = first /\ \A n \in 1..N : f[n] = step[<<n, f[n - 1]>>]
  <2>1. 0 \in 0..N /\ \A n \in 1..N : n \in 0..N /\ n # 0
    OBVIOUS
  <2> QED BY <1>2, <2>1
<1> DEFINE T == {n \in 0..N : f[n] \notin S}
<1>4. T = {}
  <2> SUFFICES ASSUME T # {} PROVE FALSE
    OBVIOUS
  <2>1. T \in SUBSET Nat
    OBVIOUS
  <2>2. PICK n \in T : \A m \in T : n <= m
    BY <2>1, LeastNumber
  <2>3. n # 0 /\ n \in 1..N /\ n - 1 \in 0..N /\ n - 1 \notin T /\ n \in Nat
    BY <1>3, <2>2 DEF IsStep
  <2>4. f[n - 1] \in S /\ f[n] = step[<<n, f[n - 1]>>]
    BY <1>3, <2>3
  <2> HIDE DEF T
  <2>5. f[n] \in S
    <3>1. <<n, f[n - 1]>> \in Nat \X S
      BY <2>3, <2>4
    <3> QED BY <2>4, <3>1 DEF IsStep
  <2> QED BY <2>2, <2>5 DEF T
<1>5. f \in [0..N -> S]
  <2> HIDE DEF F
  <2>1. f = [n \in 0..N |-> f[n]]
    BY <1>1, <1>2
  <2>2. \A n \in 0..N : f[n] \in S
    BY <1>4
  <2> QED BY <2>1, <2>2
<1> QED BY <1>2, <1>3, <1>5

LEMMA IterateExists ==
  ASSUME NEW S, NEW first, NEW step, IsStep(S, first, step), NEW N \in Nat
  PROVE  \E f : IsIterate(f, N, first, step)
<1> DEFINE T == {M \in Nat : ~ \E f : IsIterate(f, M, first, step)}
<1> SUFFICES ASSUME T # {} PROVE FALSE
  OBVIOUS
<1>1. PICK M \in T : \A m \in T : M <= m
  <2>1. T \in SUBSET Nat
    OBVIOUS
  <2> HIDE DEF T
  <2> QED BY <2>1, LeastNumber
<1>2. CASE M = 0
  <2> DEFINE f == [n \in 0..0 |-> first]
  <2>1. \A n \in 0..0 : n = 0
    OBVIOUS
  <2>2. IsIterate(f, 0, first, step)
    BY <2>1 DEF IsIterate
  <2> QED BY <1>1, <1>2, <2>2
<1>3. CASE M # 0
  <2>1. M - 1 \in Nat /\ M - 1 \notin T /\ M \in Nat
    BY <1>1, <1>3
  <2>2. PICK f : IsIterate(f, M - 1, first, step)
    BY <2>1
  <2>3. DOMAIN f = 0..(M - 1) /\ f[0] = first /\ \A n \in 1..(M - 1) : f[n] = step[<<n, f[n - 1]>>]
    <3> DEFINE K == M - 1
    <3>1. K \in Nat /\ IsIterate(f, K, first, step)
      BY <2>1, <2>2
    <3> HIDE DEF T, K
    <3>2. DOMAIN f = 0..K /\ f[0] = first /\ \A n \in 1..K : f[n] = step[<<n, f[n - 1]>>]
      BY <3>1, IterateIs
    <3> QED BY <3>2 DEF K
  <2> DEFINE h == [n \in 0..M |-> IF n = M THEN step[<<M, f[M - 1]>>] ELSE f[n]]
             H(n) == IF n = 0 THEN first ELSE step[<<n, h[n - 1]>>]
  <2>4. \A n \in 0..M : h[n] = H(n)
    <3> TAKE n \in 0..M
    <3>1. CASE n = 0
      BY <1>3, <2>1, <2>3, <3>1
    <3>2. CASE n # 0 /\ n # M
      <4>1. n \in 1..(M - 1) /\ n - 1 \in 0..M /\ n - 1 # M
        BY <2>1, <3>2
      <4>2. h[n] = f[n] /\ h[n - 1] = f[n - 1]
        BY <3>2, <4>1
      <4> HIDE DEF h
      <4> QED BY <2>3, <3>2, <4>1, <4>2
    <3>3. CASE n = M
      <4>1. M - 1 \in 0..M /\ M - 1 # M
        BY <2>1
      <4>2. h[M] = step[<<M, f[M - 1]>>] /\ h[M - 1] = f[M - 1]
        BY <3>3, <4>1
      <4> HIDE DEF h
      <4> QED BY <1>3, <3>3, <4>2
    <3> QED BY <3>1, <3>2, <3>3
  <2>5. h = [n \in 0..M |-> h[n]]
    OBVIOUS
  <2> HIDE DEF h, H
  <2>6. h = [n \in 0..M |-> H(n)]
    BY <2>4, <2>5
  <2>7. IsIterate(h, M, first, step)
    BY <2>6 DEF H, IsIterate
  <2> QED BY <1>1, <2>7
<1> QED BY <1>2, <1>3

-----------------------------------------------------------------------------
(* Where a path leads.                                                      *)

IsWalk(W, path) ==
  W = [n \in 0..Len(path) |-> IF n = 0 THEN {NoFolder} ELSE UNION {Matching(p, path[n]) : p \in W[n - 1]}]

LEMMA WalkExists == ASSUME NEW path, Len(path) \in Nat PROVE \E W : IsWalk(W, path)
<1> DEFINE S == SUBSET (DOMAIN folders \cup {NoFolder})
           step == [x \in Nat \X S |-> UNION {Matching(p, path[x[1]]) : p \in x[2]}]
           N == Len(path)
<1>1. IsStep(S, {NoFolder}, step)
  <2>1. \A x \in Nat \X S : UNION {Matching(p, path[x[1]]) : p \in x[2]} \in S
    BY DEF Matching
  <2> QED BY <2>1 DEF IsStep
<1>2. \A n \in Nat, P \in S : step[<<n, P>>] = UNION {Matching(p, path[n]) : p \in P}
  OBVIOUS
<1> HIDE DEF S, step
<1>3. PICK W : IsIterate(W, N, {NoFolder}, step)
  BY <1>1, IterateExists
<1>4. DOMAIN W = 0..N /\ W[0] = {NoFolder} /\ (\A n \in 1..N : W[n] = step[<<n, W[n - 1]>>]) /\ W \in [0..N -> S]
  BY <1>1, <1>3, IterateIs
<1> DEFINE E(n) == IF n = 0 THEN {NoFolder} ELSE UNION {Matching(p, path[n]) : p \in W[n - 1]}
<1>5. ASSUME NEW n \in 0..N PROVE W[n] = E(n)
  <2>1. CASE n = 0
    BY <1>4, <2>1
  <2>2. CASE n # 0
    <3>1. n \in 1..N /\ n - 1 \in 0..N /\ n \in Nat
      BY <2>2
    <3>2. W[n - 1] \in S
      BY <1>4, <3>1
    <3>3. W[n] = UNION {Matching(p, path[n]) : p \in W[n - 1]}
      BY <1>2, <1>4, <3>1, <3>2
    <3> QED BY <2>2, <3>3
  <2> QED BY <2>1, <2>2
<1>6. W = [n \in 0..N |-> W[n]]
  BY <1>4
<1> HIDE DEF E
<1>7. W = [n \in 0..N |-> E(n)]
  BY <1>5, <1>6
<1> QED BY <1>7 DEF E, IsWalk

LEMMA WalkIs ==
  ASSUME NEW path, Len(path) \in Nat
  PROVE  /\ Walk(path)[0] = {NoFolder}
         /\ \A n \in 1..Len(path) : Walk(path)[n] = UNION {Matching(p, path[n]) : p \in Walk(path)[n - 1]}
<1> DEFINE W == Walk(path)
           E(n) == IF n = 0 THEN {NoFolder} ELSE UNION {Matching(p, path[n]) : p \in W[n - 1]}
<1>1. IsWalk(W, path)
  BY WalkExists DEF Walk, IsWalk
<1>2. W = [n \in 0..Len(path) |-> E(n)]
  BY <1>1 DEF IsWalk
<1>3. \A n \in 0..Len(path) : W[n] = E(n)
  <2> HIDE DEF W, E
  <2> QED BY <1>2
<1>4. 0 \in 0..Len(path) /\ \A n \in 1..Len(path) : n \in 0..Len(path) /\ n # 0
  OBVIOUS
<1> HIDE DEF W
<1> QED BY <1>3, <1>4 DEF W

-----------------------------------------------------------------------------
(* The path of a folder leads to it.                                        *)

\* A chain starts at a root, and each of its folders is in the one before.
LEMMA ChainLinks ==
  ASSUME NEW fs, NEW C, Parents(fs), IsChain(C, fs), NEW f \in DOMAIN fs
  PROVE  fs[C[f][1]].parent = NoFolder /\ \A k \in 2..Len(C[f]) : fs[C[f][k]].parent = C[f][k - 1]
<1> DEFINE Good(x) == fs[C[x][1]].parent = NoFolder /\ \A k \in 2..Len(C[x]) : fs[C[x][k]].parent = C[x][k - 1]
           S == {x \in DOMAIN fs : ~ Good(x)}
<1> SUFFICES ASSUME S # {} PROVE FALSE
  OBVIOUS
<1>1. PICK x \in S : fs[x].parent \notin S
  BY DEF Parents, WellFounded
<1> DEFINE p == fs[x].parent
<1>2. C[x] = IF p = NoFolder THEN <<x>> ELSE Append(C[p], x)
  BY <1>1, ChainIs
<1>3. CASE p = NoFolder
  <2>1. C[x] = <<x>>
    BY <1>2, <1>3
  <2>2. C[x][1] = x /\ Len(C[x]) = 1
    BY <2>1
  <2>3. Good(x)
    BY <1>3, <2>2
  <2> QED BY <1>1, <2>3
<1>4. CASE p # NoFolder
  <2>1. p \in DOMAIN fs /\ p \notin S
    BY <1>1, <1>4 DEF Parents
  <2>2. C[p] \in Seq(DOMAIN fs) /\ Len(C[p]) \in Nat \ {0} /\ C[p][Len(C[p])] = p
    <3> HIDE DEF p, S
    <3> QED BY <2>1, ChainTypes
  <2>3. Good(p)
    BY <2>1
  <2> DEFINE n == Len(C[p])
  <2>4. Len(C[x]) = n + 1 /\ C[x][n + 1] = x /\ \A k \in 1..n : C[x][k] = C[p][k]
    <3>1. \A s \in Seq(DOMAIN fs) : /\ Len(Append(s, x)) = Len(s) + 1 /\ Append(s, x)[Len(s) + 1] = x
                                    /\ \A k \in 1..Len(s) : Append(s, x)[k] = s[k]
      BY <1>1
    <3> HIDE DEF p
    <3> QED BY <1>2, <1>4, <2>2, <3>1
  <2>5. fs[C[x][1]].parent = NoFolder
    <3>1. 1 \in 1..n
      BY <2>2
    <3> QED BY <2>3, <2>4, <3>1
  <2>6. ASSUME NEW k \in 2..(n + 1) PROVE fs[C[x][k]].parent = C[x][k - 1]
    <3>1. CASE k = n + 1
      <4>1. k - 1 = n /\ n \in 1..n
        BY <2>2, <3>1
      <4>2. C[x][k] = x /\ C[x][k - 1] = p
        BY <2>2, <2>4, <3>1, <4>1
      <4> QED BY <4>2
    <3>2. CASE k # n + 1
      <4>1. k \in 2..n /\ k \in 1..n /\ k - 1 \in 1..n
        BY <2>2, <3>2
      <4> HIDE DEF p
      <4>2. C[x][k] = C[p][k] /\ C[x][k - 1] = C[p][k - 1]
        BY <2>4, <4>1
      <4> QED BY <2>3, <4>1, <4>2
    <3> QED BY <3>1, <3>2
  <2>7. Good(x)
    BY <2>4, <2>5, <2>6
  <2> QED BY <1>1, <2>7
<1> QED BY <1>3, <1>4

\* Siblings with one slug are one folder, at the root too.
NoTwins(fs) == \A f, x \in DOMAIN fs : fs[f].parent = fs[x].parent /\ fs[f].slug = fs[x].slug => f = x

LEMMA MatchingOne ==
  ASSUME NoTwins(folders), NEW x \in DOMAIN folders
  PROVE  Matching(folders[x].parent, folders[x].slug) = {x}
  BY DEF Matching, NoTwins

\* After k segments of a path the walk stands on the k-th folder of f's chain.
Along(path, f, k) ==
  /\ Walk(path)[k] = {Chain[f][k]} /\ Walk(path)[k - 1] = {folders[Chain[f][k]].parent}
  /\ Matching(folders[Chain[f][k]].parent, path[k]) = {Chain[f][k]}

LEMMA WalkAlong ==
  ASSUME Tree, NoTwins(folders), NEW f \in DOMAIN folders, NEW path, Len(path) \in Nat,
         Len(Chain[f]) <= Len(path), \A k \in 1..Len(Chain[f]) : path[k] = folders[Chain[f][k]].slug
  PROVE  \A k \in 1..Len(Chain[f]) : Along(path, f, k)
<1> DEFINE c == Chain[f]
           W == Walk(path)
           n == Len(c)
           Good(k) == W[k] = {c[k]} /\ W[k - 1] = {folders[c[k]].parent}
           T == {k \in 1..n : ~ Good(k)}
<1>1. Parents(folders) /\ IsChain(Chain, folders)
  BY TreeParents, ChainNow DEF Tree
<1>2. c \in Seq(DOMAIN folders) /\ n \in Nat \ {0}
  BY <1>1, ChainTypes
<1>3. folders[c[1]].parent = NoFolder /\ \A k \in 2..n : folders[c[k]].parent = c[k - 1]
  BY <1>1, ChainLinks
<1>4. W[0] = {NoFolder} /\ \A k \in 1..Len(path) : W[k] = UNION {Matching(p, path[k]) : p \in W[k - 1]}
  BY WalkIs
<1>5. \A k \in 1..n : c[k] \in DOMAIN folders
  BY <1>2
<1>6. \A k \in 1..n : Matching(folders[c[k]].parent, path[k]) = {c[k]}
  <2> TAKE k \in 1..n
  <2>1. c[k] \in DOMAIN folders /\ path[k] = folders[c[k]].slug
    BY <1>5
  <2> HIDE DEF c, n
  <2> QED BY <2>1, MatchingOne
<1> HIDE DEF c, W
<1>7. T = {}
  <2> SUFFICES ASSUME T # {} PROVE FALSE
    OBVIOUS
  <2>1. T \in SUBSET Nat
    BY <1>2
  <2>2. PICK k \in T : \A m \in T : k <= m
    <3> HIDE DEF T
    <3> QED BY <2>1, LeastNumber
  <2>3. k \in 1..n /\ k \in 1..Len(path)
    BY <1>2 DEF c
  <2>4. W[k - 1] = {folders[c[k]].parent}
    <3>1. CASE k = 1
      BY <1>3, <1>4, <3>1
    <3>2. CASE k # 1
      <4>1. k \in 2..n /\ k - 1 \in 1..n /\ k - 1 \notin T
        BY <1>2, <2>2, <2>3, <3>2
      <4>2. W[k - 1] = {c[k - 1]}
        BY <4>1
      <4> QED BY <1>3, <4>1, <4>2
    <3> QED BY <3>1, <3>2
  <2>5. W[k] = Matching(folders[c[k]].parent, path[k])
    <3>1. W[k] = UNION {Matching(p, path[k]) : p \in {folders[c[k]].parent}}
      BY <1>4, <2>3, <2>4
    <3> QED BY <3>1
  <2> QED BY <1>6, <2>2, <2>3, <2>4, <2>5
<1> QED BY <1>6, <1>7 DEF c, W, Along

\* The slugs from the root down to a folder.
SlugPath(C, fs, f) == [i \in DOMAIN C[f] |-> fs[C[f][i]].slug]

PathFacts(C, fs, f, path) ==
  /\ Len(path) = Len(C[f]) /\ Len(C[f]) \in Nat \ {0}
  /\ \A k \in 1..Len(C[f]) : path[k] = fs[C[f][k]].slug
  /\ path \in Seq({fs[x].slug : x \in DOMAIN fs})
  /\ fs[f].parent = NoFolder => path = <<fs[f].slug>>
  /\ fs[f].parent # NoFolder => path = Append(SlugPath(C, fs, fs[f].parent), fs[f].slug)

LEMMA SlugPathIs ==
  ASSUME NEW fs, NEW C, Parents(fs), IsChain(C, fs), NEW f \in DOMAIN fs
  PROVE  PathFacts(C, fs, f, SlugPath(C, fs, f))
<1> DEFINE V == {fs[x].slug : x \in DOMAIN fs}
<1>1. ASSUME NEW x \in DOMAIN fs
      PROVE  /\ C[x] \in Seq(DOMAIN fs) /\ Len(C[x]) \in Nat \ {0} /\ SlugPath(C, fs, x) \in Seq(V)
             /\ Len(SlugPath(C, fs, x)) = Len(C[x])
             /\ \A k \in 1..Len(C[x]) : SlugPath(C, fs, x)[k] = fs[C[x][k]].slug
  <2>1. C[x] \in Seq(DOMAIN fs) /\ Len(C[x]) \in Nat \ {0}
    BY <1>1, ChainTypes
  <2>2. DOMAIN C[x] = 1..Len(C[x]) /\ \A k \in 1..Len(C[x]) : C[x][k] \in DOMAIN fs
    BY <2>1
  <2>3. SlugPath(C, fs, x) \in [1..Len(C[x]) -> V]
    BY <2>2 DEF SlugPath
  <2>4. \A m \in Nat : \A s \in [1..m -> V] : s \in Seq(V) /\ Len(s) = m
    OBVIOUS
  <2>5. SlugPath(C, fs, x) \in Seq(V) /\ Len(SlugPath(C, fs, x)) = Len(C[x])
    <3> HIDE DEF V
    <3> QED BY <2>1, <2>3, <2>4
  <2> QED BY <2>1, <2>2, <2>5 DEF SlugPath
<1>2. C[f] = IF fs[f].parent = NoFolder THEN <<f>> ELSE Append(C[fs[f].parent], f)
  BY ChainIs
<1>3. CASE fs[f].parent = NoFolder
  <2>1. C[f] = <<f>>
    BY <1>2, <1>3
  <2>2. SlugPath(C, fs, f) = <<fs[f].slug>>
    <3>1. DOMAIN <<f>> = 1..1 /\ <<f>>[1] = f
      OBVIOUS
    <3>2. SlugPath(C, fs, f) = [i \in 1..1 |-> fs[f].slug]
      BY <2>1, <3>1 DEF SlugPath
    <3> QED BY <3>2
  <2> QED BY <1>1, <1>3, <2>2 DEF PathFacts
<1>4. CASE fs[f].parent # NoFolder
  <2> DEFINE p == fs[f].parent
             s == SlugPath(C, fs, p)
             t == SlugPath(C, fs, f)
             n == Len(C[p])
  <2>1. p \in DOMAIN fs
    BY <1>4 DEF Parents
  <2>2. C[f] = Append(C[p], f) /\ C[p] \in Seq(DOMAIN fs) /\ n \in Nat
    BY <1>1, <1>2, <1>4, <2>1
  <2>3. Len(C[f]) = n + 1 /\ C[f][n + 1] = f /\ \A k \in 1..n : C[f][k] = C[p][k]
    <3>1. \A q \in Seq(DOMAIN fs) : /\ Len(Append(q, f)) = Len(q) + 1 /\ Append(q, f)[Len(q) + 1] = f
                                    /\ \A k \in 1..Len(q) : Append(q, f)[k] = q[k]
      OBVIOUS
    <3> HIDE DEF p
    <3> QED BY <2>2, <3>1
  <2>4. s \in Seq(V) /\ t \in Seq(V) /\ Len(s) = n /\ Len(t) = n + 1 /\ fs[f].slug \in V
    BY <1>1, <2>1, <2>3
  <2>5. t[n + 1] = fs[f].slug /\ \A k \in 1..n : t[k] = s[k]
    <3>1. n + 1 \in 1..(n + 1) /\ \A k \in 1..n : k \in 1..(n + 1)
      BY <2>2
    <3>2. \A k \in 1..(n + 1) : t[k] = fs[C[f][k]].slug
      BY <1>1, <2>3
    <3>3. \A k \in 1..n : s[k] = fs[C[p][k]].slug
      BY <1>1, <2>1
    <3> QED BY <2>3, <3>1, <3>2, <3>3
  <2>6. \A u, v \in Seq(V) : \A e \in V : \A m \in Nat :
          Len(u) = m /\ Len(v) = m + 1 /\ v[m + 1] = e /\ (\A k \in 1..m : v[k] = u[k]) => v = Append(u, e)
    OBVIOUS
  <2>7. t = Append(s, fs[f].slug)
    <3> HIDE DEF V, s, t, n
    <3> QED BY <2>2, <2>4, <2>5, <2>6
  <2> QED BY <1>1, <1>4, <2>7 DEF PathFacts
<1> QED BY <1>3, <1>4

LEMMA AppendIs ==
  ASSUME NEW V, NEW u \in Seq(V), NEW v \in Seq(V), NEW e \in V,
         Len(v) = Len(u) + 1, v[Len(u) + 1] = e, \A k \in 1..Len(u) : v[k] = u[k]
  PROVE  v = Append(u, e)
  OBVIOUS

LEMMA PathIs ==
  ASSUME Tree, NEW f \in DOMAIN folders
  PROVE  /\ Len(PathOf(f)) = Len(Chain[f]) /\ Len(Chain[f]) \in Nat \ {0}
         /\ \A k \in 1..Len(Chain[f]) : PathOf(f)[k] = folders[Chain[f][k]].slug
         /\ PathOf(f) \in Seq({folders[x].slug : x \in DOMAIN folders})
         /\ folders[f].parent = NoFolder => PathOf(f) = <<folders[f].slug>>
         /\ folders[f].parent # NoFolder => PathOf(f) = Append(PathOf(folders[f].parent), folders[f].slug)
<1>1. Parents(folders) /\ IsChain(Chain, folders)
  BY TreeParents, ChainNow DEF Tree
<1>2. \A x : PathOf(x) = SlugPath(Chain, folders, x)
  BY DEF PathOf, SlugPath
<1> DEFINE C == Chain
<1> HIDE DEF C
<1>3. Parents(folders) /\ IsChain(C, folders) /\ \A x : PathOf(x) = SlugPath(C, folders, x)
  BY <1>1, <1>2 DEF C
<1>4. PathFacts(C, folders, f, SlugPath(C, folders, f))
  BY <1>3, SlugPathIs
<1> QED BY <1>3, <1>4 DEF C, PathFacts

LEMMA NoClash == ASSUME ~ SlugClash
                 PROVE  NoTwins(folders) /\ \A g \in DOMAIN galleries : Matching(galleries[g].folder, galleries[g].slug) = {}
  BY DEF SlugClash, NoTwins

\* A path of slugs that begins with that of a folder.
LEMMA PrefixWalk ==
  ASSUME Tree, NoTwins(folders), NEW f \in DOMAIN folders, NEW path, Len(path) \in Nat, Len(Chain[f]) <= Len(path),
         \A k \in 1..Len(Chain[f]) : path[k] = PathOf(f)[k]
  PROVE  /\ Walk(path)[Len(Chain[f])] = {f}
         /\ \A k \in 1..Len(Chain[f]) : \A p \in Walk(path)[k - 1] : Matching(p, path[k]) # {}
         /\ Walk(path)[Len(Chain[f]) - 1] = {folders[f].parent}
<1>1. \A k \in 1..Len(Chain[f]) : path[k] = folders[Chain[f][k]].slug
  BY PathIs
<1>2. \A k \in 1..Len(Chain[f]) : Along(path, f, k)
  BY <1>1, WalkAlong
<1>3. Parents(folders) /\ IsChain(Chain, folders)
  BY TreeParents, ChainNow DEF Tree
<1>4. Chain[f][Len(Chain[f])] = f /\ Len(Chain[f]) \in Nat \ {0}
  BY <1>3, ChainTypes
<1>5. Len(Chain[f]) \in 1..Len(Chain[f])
  BY <1>4
<1> QED BY <1>2, <1>4, <1>5 DEF Along

LEMMA FolderResolves ==
  ASSUME Tree, ~ SlugClash, NEW f \in DOMAIN folders
  PROVE  Resolve(PathOf(f)) = {f}
<1> DEFINE path == PathOf(f)
           n == Len(path)
           W == Walk(path)
<1>1. n = Len(Chain[f]) /\ n \in Nat \ {0}
  BY PathIs
<1>2. W[n] = {f} /\ W[n - 1] = {folders[f].parent} /\ \A k \in 1..n : \A p \in W[k - 1] : Matching(p, path[k]) # {}
  BY <1>1, NoClash, PrefixWalk
<1>3. LastGallery(path, folders[f].parent) = {}
  <2>1. n \in 1..n
    BY <1>1
  <2>2. Matching(folders[f].parent, path[n]) # {}
    BY <1>2, <2>1
  <2> QED BY <2>2 DEF LastGallery
<1>4. Resolve(path) = W[n] \cup UNION {LastGallery(path, p) : p \in W[n - 1]}
  <2> HIDE DEF path
  <2> QED BY <1>2 DEF Resolve
<1> HIDE DEF path, n, W
<1>5. UNION {LastGallery(path, p) : p \in W[n - 1]} = {}
  BY <1>2, <1>3
<1> QED BY <1>2, <1>4, <1>5 DEF path

LEMMA GalleryPathIs ==
  ASSUME Tree, NEW g \in DOMAIN galleries
  PROVE  LET path == GalleryPath(g)
             c == Chain[galleries[g].folder]
         IN  /\ galleries[g].folder \in DOMAIN folders
             /\ Len(path) = Len(c) + 1 /\ Len(c) \in Nat \ {0} /\ path[Len(path)] = galleries[g].slug
             /\ \A k \in 1..Len(c) : path[k] = PathOf(galleries[g].folder)[k]
<1> DEFINE f == galleries[g].folder
           e == galleries[g].slug
           s == PathOf(f)
           V == {folders[x].slug : x \in DOMAIN folders}
<1>1. f \in DOMAIN folders
  BY DEF Tree, Whole, Intact
<1>2. s \in Seq(V) /\ Len(s) = Len(Chain[f]) /\ Len(s) \in Nat \ {0}
  <2> HIDE DEF f
  <2> QED BY <1>1, PathIs
<1>3. \A t \in Seq(V) : /\ Len(Append(t, e)) = Len(t) + 1 /\ Append(t, e)[Len(t) + 1] = e
                        /\ \A k \in 1..Len(t) : Append(t, e)[k] = t[k]
  <2> HIDE DEF V, e
  <2> QED OBVIOUS
<1>4. GalleryPath(g) = Append(s, e)
  BY DEF GalleryPath
<1> HIDE DEF s, e, V
<1>5. Len(Append(s, e)) = Len(s) + 1 /\ Append(s, e)[Len(s) + 1] = e /\ \A k \in 1..Len(s) : Append(s, e)[k] = s[k]
  BY <1>2, <1>3
<1> QED BY <1>1, <1>2, <1>4, <1>5 DEF s, e

LEMMA GalleryResolves ==
  ASSUME Tree, ~ SlugClash, NEW g \in DOMAIN galleries, galleries[g].published, galleries[g].visibility # "private"
  PROVE  Resolve(GalleryPath(g)) = {g}
<1> DEFINE path == GalleryPath(g)
           f == galleries[g].folder
           m == Len(Chain[f])
           n == Len(path)
           W == Walk(path)
<1>1. /\ f \in DOMAIN folders /\ n = m + 1 /\ m \in Nat \ {0} /\ path[n] = galleries[g].slug
      /\ \A k \in 1..m : path[k] = PathOf(f)[k]
  BY GalleryPathIs
<1>2. NoTwins(folders) /\ Matching(f, galleries[g].slug) = {}
  BY NoClash
<1>3. n \in Nat /\ m <= n
  BY <1>1
<1>4. W[m] = {f} /\ \A k \in 1..m : \A p \in W[k - 1] : Matching(p, path[k]) # {}
  <2> HIDE DEF path, f
  <2> QED BY <1>1, <1>2, <1>3, PrefixWalk
<1>5. n - 1 = m /\ n \in 1..n /\ \A k \in 1..n : k = n \/ k \in 1..m
  BY <1>1
<1>6. W[n] = {}
  <2>1. W[n] = UNION {Matching(p, path[n]) : p \in W[n - 1]}
    BY <1>3, <1>5, WalkIs
  <2> HIDE DEF path, f, W
  <2>2. W[n] = UNION {Matching(p, path[n]) : p \in {f}}
    BY <1>4, <1>5, <2>1
  <2> QED BY <1>1, <1>2, <2>2
<1>7. LastGallery(path, f) = {g}
  <2>1. f # NoFolder
    BY <1>1, SceneAssumption DEF Tree, Whole
  <2>2. \A x \in DOMAIN galleries : galleries[x].folder = f /\ galleries[x].slug = galleries[g].slug => x = g
    BY DEF Tree, Whole, Intact
  <2> HIDE DEF path
  <2> QED BY <1>1, <1>2, <2>1, <2>2 DEF LastGallery
<1>8. Resolve(path) = W[n] \cup UNION {LastGallery(path, p) : p \in W[n - 1]}
  <2>1. ~ \E k \in 1..n : \E p \in W[k - 1] : Matching(p, path[k]) = {} /\ ~ (k = n /\ LastGallery(path, p) # {})
    <3> SUFFICES ASSUME NEW k \in 1..n, NEW p \in W[k - 1], Matching(p, path[k]) = {} PROVE k = n /\ LastGallery(path, p) # {}
      OBVIOUS
    <3>1. k = n
      BY <1>4, <1>5
    <3>2. p = f
      BY <1>4, <1>5, <3>1
    <3> QED BY <1>7, <3>1, <3>2
  <2> HIDE DEF path, f
  <2> QED BY <2>1 DEF Resolve
<1> HIDE DEF path, f, W, n
<1>9. UNION {LastGallery(path, p) : p \in W[n - 1]} = {g}
  BY <1>4, <1>5, <1>7
<1> QED BY <1>6, <1>8, <1>9 DEF path

-----------------------------------------------------------------------------
(* The grid of a folder's page: level by level, the public folders below.   *)

Few == IsFiniteSet(DOMAIN folders)
Levels == Cardinality(DOMAIN folders)

Deeper(s) == {<<x, Append(s[2], folders[x].slug)>> : x \in {c \in Children(s[1]) : Public(c)}}
AreSections(S, f, path) ==
  S = [n \in 0..Levels |-> IF n = 0 THEN {<<f, path>>} ELSE S[n - 1] \cup UNION {Deeper(s) : s \in S[n - 1]}]

Link(V) == (DOMAIN folders) \X Seq(V)

LEMMA SectionsExist ==
  ASSUME Few, NEW f \in DOMAIN folders, NEW V, \A x \in DOMAIN folders : folders[x].slug \in V, NEW path \in Seq(V)
  PROVE  \E S : AreSections(S, f, path)
<1> DEFINE D == SUBSET Link(V)
           first == {<<f, path>>}
           step == [x \in Nat \X D |-> x[2] \cup UNION {Deeper(s) : s \in x[2]}]
           K == Levels
<1>0. K \in Nat
  BY FS_CardinalityType DEF Few, Levels
<1>1. IsStep(D, first, step)
  <2>1. \A s \in Link(V) : Deeper(s) \subseteq Link(V)
    <3> TAKE s \in Link(V)
    <3>1. s[2] \in Seq(V)
      BY DEF Link
    <3>2. ASSUME NEW x \in DOMAIN folders PROVE <<x, Append(s[2], folders[x].slug)>> \in Link(V)
      <4>1. folders[x].slug \in V
        BY <3>2
      <4>2. \A t \in Seq(V), e \in V : Append(t, e) \in Seq(V)
        OBVIOUS
      <4>3. Append(s[2], folders[x].slug) \in Seq(V)
        BY <3>1, <4>1, <4>2
      <4>4. \A t : t \in Seq(V) => <<x, t>> \in Link(V)
        BY <3>2 DEF Link
      <4> QED BY <4>3, <4>4
    <3> QED BY <3>2 DEF Deeper, Children
  <2>2. first \in D
    BY DEF Link
  <2> HIDE DEF first
  <2>3. \A x \in Nat \X D : x[2] \cup UNION {Deeper(s) : s \in x[2]} \in D
    BY <2>1
  <2> HIDE DEF D
  <2> QED BY <2>2, <2>3 DEF IsStep
<1>2. \A n \in Nat, P \in D : step[<<n, P>>] = P \cup UNION {Deeper(s) : s \in P}
  OBVIOUS
<1> HIDE DEF D, step, first
<1>3. PICK S : IsIterate(S, K, first, step)
  BY <1>0, <1>1, IterateExists
<1>4. DOMAIN S = 0..K /\ S[0] = first /\ (\A n \in 1..K : S[n] = step[<<n, S[n - 1]>>]) /\ S \in [0..K -> D]
  BY <1>0, <1>1, <1>3, IterateIs
<1> DEFINE E(n) == IF n = 0 THEN first ELSE S[n - 1] \cup UNION {Deeper(s) : s \in S[n - 1]}
<1>5. ASSUME NEW n \in 0..K PROVE S[n] = E(n)
  <2>1. CASE n = 0
    BY <1>4, <2>1
  <2>2. CASE n # 0
    <3>1. n \in 1..K /\ n - 1 \in 0..K /\ n \in Nat
      BY <1>0, <2>2
    <3>2. S[n - 1] \in D
      BY <1>4, <3>1
    <3>3. S[n] = S[n - 1] \cup UNION {Deeper(s) : s \in S[n - 1]}
      BY <1>2, <1>4, <3>1, <3>2
    <3> QED BY <2>2, <3>3
  <2> QED BY <2>1, <2>2
<1>6. S = [n \in 0..K |-> S[n]]
  BY <1>4
<1> HIDE DEF E
<1>7. S = [n \in 0..K |-> E(n)]
  BY <1>5, <1>6
<1> QED BY <1>7 DEF E, AreSections, first

SectionsOf(f, path) == CHOOSE S : AreSections(S, f, path)

LEMMA SectionsAre ==
  ASSUME Few, NEW f \in DOMAIN folders, NEW V, \A x \in DOMAIN folders : folders[x].slug \in V, NEW path \in Seq(V)
  PROVE  LET S == SectionsOf(f, path) IN
           /\ S[0] = {<<f, path>>} /\ Sections(f, path) = S[Levels] /\ Levels \in Nat
           /\ \A n \in 1..Levels : S[n] = S[n - 1] \cup UNION {Deeper(s) : s \in S[n - 1]}
<1> DEFINE S == SectionsOf(f, path)
           E(n) == IF n = 0 THEN {<<f, path>>} ELSE S[n - 1] \cup UNION {Deeper(s) : s \in S[n - 1]}
<1>0. Levels \in Nat
  BY FS_CardinalityType DEF Few, Levels
<1>1. AreSections(S, f, path)
  BY SectionsExist DEF SectionsOf
<1>2. Sections(f, path) = S[Levels]
  BY DEF Sections, SectionsOf, AreSections, Levels, Deeper
<1> HIDE DEF S
<1>3. S = [n \in 0..Levels |-> E(n)]
  BY <1>1 DEF AreSections
<1>4. \A n \in 0..Levels : S[n] = E(n)
  <2> HIDE DEF E
  <2> QED BY <1>3
<1>5. 0 \in 0..Levels /\ \A n \in 1..Levels : n \in 0..Levels /\ n # 0
  BY <1>0
<1>6. S[0] = {<<f, path>>} /\ \A n \in 1..Levels : S[n] = S[n - 1] \cup UNION {Deeper(s) : s \in S[n - 1]}
  BY <1>4, <1>5
<1> QED BY <1>0, <1>2, <1>6 DEF S

\* Every section carries the path of its folder.
LEMMA SectionsHavePaths ==
  ASSUME Tree, Few, NEW f \in DOMAIN folders
  PROVE  \A s \in Sections(f, PathOf(f)) : s[1] \in DOMAIN folders /\ s[2] = PathOf(s[1])
<1>1. PathOf(f) \in Seq({folders[x].slug : x \in DOMAIN folders})
  BY PathIs
<1>2. PICK S : /\ S[0] = {<<f, PathOf(f)>>} /\ Sections(f, PathOf(f)) = S[Levels] /\ Levels \in Nat
               /\ \A n \in 1..Levels : S[n] = S[n - 1] \cup UNION {Deeper(s) : s \in S[n - 1]}
  BY <1>1, SectionsAre
<1> DEFINE Good(n) == \A s \in S[n] : s[1] \in DOMAIN folders /\ s[2] = PathOf(s[1])
           T == {n \in 0..Levels : ~ Good(n)}
<1>3. T = {}
  <2> SUFFICES ASSUME T # {} PROVE FALSE
    OBVIOUS
  <2>1. T \in SUBSET Nat
    BY <1>2
  <2>2. PICK n \in T : \A m \in T : n <= m
    <3> HIDE DEF T
    <3> QED BY <2>1, LeastNumber
  <2>3. Good(0)
    BY <1>2
  <2>4. n # 0
    BY <2>2, <2>3
  <2>5. n \in 1..Levels /\ n - 1 \in 0..Levels /\ n - 1 \notin T
    BY <1>2, <2>2, <2>4
  <2>6. Good(n - 1)
    BY <2>5
  <2>7. ASSUME NEW s, s[1] \in DOMAIN folders, s[2] = PathOf(s[1]), NEW t \in Deeper(s)
        PROVE  t[1] \in DOMAIN folders /\ t[2] = PathOf(t[1])
    <3>1. PICK x \in Children(s[1]) : t = <<x, Append(s[2], folders[x].slug)>>
      BY <2>7 DEF Deeper
    <3>2. x \in DOMAIN folders /\ folders[x].parent = s[1] /\ s[1] # NoFolder
      BY <2>7, SceneAssumption DEF Children, Tree, Whole
    <3>3. PathOf(x) = Append(PathOf(s[1]), folders[x].slug)
      BY <3>2, PathIs
    <3> QED BY <2>7, <3>1, <3>2, <3>3
  <2>8. Good(n)
    BY <1>2, <2>5, <2>6, <2>7
  <2> QED BY <2>2, <2>8
<1>4. Levels \in 0..Levels
  BY <1>2
<1> QED BY <1>2, <1>3, <1>4

LEMMA LinksHavePaths ==
  ASSUME Tree, Few, NEW f \in DOMAIN folders, NEW l \in GridLinks(f, PathOf(f))
  PROVE  \/ l[1] \in DOMAIN folders /\ l[2] = PathOf(l[1])
         \/ l[1] \in DOMAIN galleries /\ Listed(l[1]) /\ l[2] = GalleryPath(l[1])
<1>1. CASE l \in Sections(f, PathOf(f))
  BY <1>1, SectionsHavePaths
<1>2. CASE l \notin Sections(f, PathOf(f))
  <2>1. PICK s \in Sections(f, PathOf(f)) :
          l \in {<<g, Append(s[2], galleries[g].slug)>> : g \in {x \in DOMAIN galleries : galleries[x].folder = s[1] /\ Listed(x)}}
    BY <1>2 DEF GridLinks
  <2>2. PICK g \in DOMAIN galleries : galleries[g].folder = s[1] /\ Listed(g) /\ l = <<g, Append(s[2], galleries[g].slug)>>
    BY <2>1
  <2>3. s[2] = PathOf(s[1])
    BY SectionsHavePaths
  <2> QED BY <2>2, <2>3 DEF GalleryPath
<1> QED BY <1>1, <1>2

LEMMA FewStep == ASSUME Few, [Next]_siteVars PROVE Few'
<1>1. ASSUME NEW x, NEW p, NEW t, NEW v, InsertFolder(x, p, t, v) \/ InsertGallery(x, p, t, v) PROVE Few'
  <2>1. DOMAIN folders' = DOMAIN folders \cup {x} \/ folders' = folders
    BY <1>1 DEF InsertFolder, InsertGallery
  <2> QED BY <2>1, FS_AddElement DEF Few
<1>2. ASSUME DOMAIN folders' \subseteq DOMAIN folders PROVE Few'
  BY <1>2, FS_Subset DEF Few
<1>3. ASSUME Studio PROVE Few'
  <2>1. CASE PostInserts
    BY <1>1, <2>1 DEF PostInserts
  <2>2. CASE ~ PostInserts
    <3>1. DOMAIN folders' \subseteq DOMAIN folders
      BY <1>3, <2>2 DEF Studio, TreeNext, PostFolder, PostGallery, PostRefused, ShowFolder, RenameFolder, ShowGallery,
         RenameGallery, SetFolder, DeleteFolder, DeleteGallery, DeletePhoto
    <3> QED BY <1>2, <3>1
  <2> QED BY <2>1, <2>2
<1>4. ASSUME Importing PROVE Few'
  <2>1. CASE MakeFolder \/ MakeGallery
    BY <1>1, <2>1 DEF MakeFolder, MakeGallery
  <2>2. CASE ~ MakeFolder /\ ~ MakeGallery
    <3>1. folders' = folders
      BY <1>4, <2>2 DEF Importing, ImportNext, StartImport, BeginAlbum, FindFolder, FindGallery, PublishGallery, StoreImage,
         UpsertImage, QueueImage, BeginItems, InsertItem, WriteRedirect, FinishImport, CrashImport, treeVars
    <3> QED BY <1>2, <3>1
  <2> QED BY <2>1, <2>2
<1>5. ASSUME Dropping PROVE Few'
  <2> PICK d \in Drop :
        \/ \E f \in DOMAIN folders : StartDrop(d, f)
        \/ ListNames(d) \/ PostName(d) \/ InsertName(d) \/ InsertRefused(d) \/ Relist(d)
        \/ RequestFails(d)
    BY <1>5 DEF Dropping, DropNext
  <2>1. CASE InsertName(d)
    BY <1>1, <2>1 DEF InsertName
  <2>2. CASE ~ InsertName(d)
    <3>1. folders' = folders
      BY <2>2 DEF StartDrop, ListNames, PostName, InsertRefused, Relist, RequestFails, treeVars
    <3> QED BY <1>2, <3>1
  <2> QED BY <2>1, <2>2
<1>6. ASSUME Exporting \/ Scanning \/ Resetting \/ Ingesting \/ Operating \/ UNCHANGED siteVars PROVE Few'
  <2>1. folders' = folders
    BY <1>6, ScriptsLeaveRows DEF Exporting, Scanning, Resetting, Ingesting, Operating, siteVars, treeVars
  <2> QED BY <1>2, <2>1
<1> QED BY <1>3, <1>4, <1>5, <1>6 DEF Next

LEMMA FewStart == ASSUME Init PROVE Few
  BY SceneAssumption DEF Init, TreeInit, Few

\* Every link the site gives out opens the page of what it names, in whatever tree the
\* studio, drops and the importer have made, unless siblings share a slug
\* (resolve.ts, sitemap.ts, folder-section-grid.tsx, search/page.tsx).
THEOREM LinksLeadHome == Spec => []LinksResolve
<1> DEFINE IInv == Tree /\ Records /\ Types /\ Few
<1>1. Init => IInv
  BY TreeStart, RecordsStart, TypesStart, FewStart
<1>2. IInv /\ [Next]_siteVars => IInv'
  BY TreeStep, RecordsStep, TypesStep, FewStep
<1>3. IInv => LinksResolve
  <2> SUFFICES ASSUME IInv, ~ SlugClash, NEW l \in SitemapLinks \cup HomeLinks \cup PageLinks \cup RootLinks
               PROVE  Resolve(l[2]) = {l[1]}
    BY DEF LinksResolve
  <2> DEFINE Proper == \/ l[1] \in DOMAIN folders /\ l[2] = PathOf(l[1])
                       \/ l[1] \in DOMAIN galleries /\ Listed(l[1]) /\ l[2] = GalleryPath(l[1])
  <2>0. DOMAIN folders \subseteq Folder /\ DOMAIN galleries \subseteq Gallery
    BY DEF Types, TreeTypeOK
  <2>1. ASSUME Proper PROVE Resolve(l[2]) = {l[1]}
    BY <2>1, FolderResolves, GalleryResolves DEF Listed
  <2>2. CASE l \in SitemapLinks
    BY <2>1, <2>2 DEF SitemapLinks, SitemapFolders, SitemapGalleries
  <2>3. CASE l \in PageLinks
    <3>1. PICK f \in DOMAIN folders : l \in GridLinks(f, PathOf(f))
      BY <2>3 DEF PageLinks
    <3> QED BY <2>1, <3>1, LinksHavePaths
  <2>4. ASSUME NEW f \in Children(NoFolder) PROVE f \in DOMAIN folders /\ PathOf(f) = <<folders[f].slug>>
    BY <2>4, PathIs DEF Children
  <2>5. CASE l \in HomeLinks
    <3>1. PICK f \in RootFolders : l \in UNION {GridLinks(x, <<folders[f].slug>>) : x \in Resolve(<<folders[f].slug>>) \ {NotFound}}
      BY <2>5 DEF HomeLinks
    <3>2. PICK x \in Resolve(<<folders[f].slug>>) : l \in GridLinks(x, <<folders[f].slug>>)
      BY <3>1
    <3>3. f \in DOMAIN folders /\ PathOf(f) = <<folders[f].slug>>
      BY <2>4 DEF RootFolders
    <3>4. x = f
      BY <3>2, <3>3, FolderResolves
    <3>5. l \in GridLinks(f, PathOf(f))
      BY <3>2, <3>3, <3>4
    <3> QED BY <2>1, <3>3, <3>5, LinksHavePaths
  <2>6. CASE l \in RootLinks
    <3>0. l \in SearchLinks /\ (l[1] \in Children(NoFolder)
               \/ (l[1] \in DOMAIN galleries /\ galleries[l[1]].folder \in Children(NoFolder)))
      BY <2>6 DEF RootLinks
    <3>1. CASE \E f \in FoundFolders : l = <<f, <<folders[f].slug>>>>
      <4>1. PICK f \in FoundFolders : l = <<f, <<folders[f].slug>>>>
        BY <3>1
      <4>2. f \in DOMAIN folders /\ f \notin DOMAIN galleries
        BY <2>0, SceneAssumption DEF FoundFolders, Reachable
      <4>3. l[1] = f /\ f \in Children(NoFolder)
        BY <3>0, <4>1, <4>2
      <4>4. Proper
        BY <2>4, <4>1, <4>2, <4>3
      <4> QED BY <2>1, <4>4
    <3>2. CASE \E g \in FoundGalleries : l = <<g, <<folders[galleries[g].folder].slug, galleries[g].slug>>>>
      <4>1. PICK g \in FoundGalleries : l = <<g, <<folders[galleries[g].folder].slug, galleries[g].slug>>>>
        BY <3>2
      <4>2. g \in DOMAIN galleries /\ Listed(g) /\ g \notin DOMAIN folders
        BY <2>0, SceneAssumption DEF FoundGalleries
      <4>3. l[1] = g /\ galleries[g].folder \in Children(NoFolder)
        BY <3>0, <4>1, <4>2 DEF Children
      <4>4. PathOf(galleries[g].folder) = <<folders[galleries[g].folder].slug>>
        BY <2>4, <4>3
      <4>5. GalleryPath(g) = <<folders[galleries[g].folder].slug, galleries[g].slug>>
        <5>1. ASSUME NEW a, NEW b PROVE Append(<<a>>, b) = <<a, b>>
          <6> DEFINE u == <<a>>
                     v == <<a, b>>
          <6>1. u \in Seq({a, b}) /\ v \in Seq({a, b}) /\ b \in {a, b}
            OBVIOUS
          <6>2. Len(u) = 1 /\ Len(v) = 2 /\ v[2] = b /\ v[1] = u[1]
            OBVIOUS
          <6> HIDE DEF u, v
          <6>3. Len(v) = Len(u) + 1 /\ v[Len(u) + 1] = b /\ \A k \in 1..Len(u) : v[k] = u[k]
            BY <6>2
          <6>4. v = Append(u, b)
            BY <6>1, <6>3, AppendIs
          <6> QED BY <6>4 DEF u, v
        <5> QED BY <4>4, <5>1 DEF GalleryPath
      <4> QED BY <2>1, <4>1, <4>2, <4>5
    <3> QED BY <3>0, <3>1, <3>2 DEF SearchLinks
  <2> QED BY <2>2, <2>3, <2>5, <2>6
<1> QED BY <1>1, <1>2, <1>3, PTL DEF Spec

-----------------------------------------------------------------------------
(* Walking down from the home page.                                         *)

\* The k-th folder of a chain is k levels deep, so a chain has no folder twice ...
LEMMA ChainPrefix ==
  ASSUME NEW fs, NEW C, Parents(fs), IsChain(C, fs), NEW f \in DOMAIN fs
  PROVE  \A k \in 1..Len(C[f]) : C[f][k] \in DOMAIN fs /\ Len(C[C[f][k]]) = k
<1> DEFINE Good(x) == \A k \in 1..Len(C[x]) : Len(C[C[x][k]]) = k
           S == {x \in DOMAIN fs : ~ Good(x)}
<1>0. C[f] \in Seq(DOMAIN fs) /\ \A k \in 1..Len(C[f]) : C[f][k] \in DOMAIN fs
  <2>1. C[f] \in Seq(DOMAIN fs)
    BY ChainTypes
  <2> QED BY <2>1
<1> SUFFICES ASSUME S # {} PROVE FALSE
  BY <1>0
<1>1. PICK x \in S : fs[x].parent \notin S
  BY DEF Parents, WellFounded
<1> DEFINE p == fs[x].parent
<1>2. C[x] = IF p = NoFolder THEN <<x>> ELSE Append(C[p], x)
  BY <1>1, ChainIs
<1>3. CASE p = NoFolder
  <2>1. C[x] = <<x>>
    BY <1>2, <1>3
  <2>2. C[x][1] = x /\ Len(C[x]) = 1
    BY <2>1
  <2>3. Good(x)
    BY <2>2
  <2> QED BY <1>1, <2>3
<1>4. CASE p # NoFolder
  <2>1. p \in DOMAIN fs /\ Good(p)
    BY <1>1, <1>4 DEF Parents
  <2>2. C[p] \in Seq(DOMAIN fs) /\ Len(C[p]) \in Nat
    <3> HIDE DEF p, S, Good
    <3> QED BY <2>1, ChainTypes
  <2> DEFINE n == Len(C[p])
  <2>3. Len(C[x]) = n + 1 /\ C[x][n + 1] = x /\ \A k \in 1..n : C[x][k] = C[p][k]
    <3>1. \A s \in Seq(DOMAIN fs) : /\ Len(Append(s, x)) = Len(s) + 1 /\ Append(s, x)[Len(s) + 1] = x
                                    /\ \A k \in 1..Len(s) : Append(s, x)[k] = s[k]
      BY <1>1
    <3> HIDE DEF p
    <3> QED BY <1>2, <1>4, <2>2, <3>1
  <2>4. \A k \in 1..(n + 1) : k = n + 1 \/ k \in 1..n
    BY <2>2
  <2>5. Good(x)
    <3> HIDE DEF p
    <3> QED BY <2>1, <2>3, <2>4
  <2> QED BY <1>1, <2>5
<1> QED BY <1>3, <1>4

\* ... and is no longer than there are folders.
LEMMA DepthBound == ASSUME Tree, Few, NEW f \in DOMAIN folders PROVE Len(Chain[f]) <= Levels
<1> DEFINE c == Chain[f]
           n == Len(c)
<1>1. Parents(folders) /\ IsChain(Chain, folders)
  BY TreeParents, ChainNow DEF Tree
<1>2. c \in Seq(DOMAIN folders) /\ n \in Nat
  BY <1>1, ChainTypes
<1>3. \A k \in 1..n : Len(Chain[c[k]]) = k
  BY <1>1, ChainPrefix
<1>4. c \in [1..n -> DOMAIN folders]
  BY <1>2
<1>5. \A i, k \in 1..n : c[i] = c[k] => i = k
  <2> TAKE i, k \in 1..n
  <2> HAVE c[i] = c[k]
  <2>1. Len(Chain[c[i]]) = i /\ Len(Chain[c[k]]) = k
    BY <1>3
  <2> HIDE DEF c
  <2> QED BY <2>1
<1> HIDE DEF c, n
<1>6. c \in Injection(1..n, DOMAIN folders)
  BY <1>4, <1>5 DEF Injection, IsInjective
<1>7. Cardinality(1..n) <= Cardinality(DOMAIN folders)
  BY <1>6, FS_Injection DEF Few
<1>8. Cardinality(1..n) = n
  BY <1>2, FS_Interval
<1> QED BY <1>7, <1>8 DEF Levels, c, n

LEMMA ReachableDown ==
  ASSUME NEW y \in DOMAIN folders, Public(y), folders[y].parent \in Reachable \cup {NoFolder}
  PROVE  y \in Reachable
  BY DEF Reachable

LEMMA ReachablePublic == Reachable \subseteq {x \in DOMAIN folders : Public(x)}
<1> DEFINE S == {x \in DOMAIN folders : Public(x)}
<1>1. S \in SUBSET DOMAIN folders /\ \A y \in DOMAIN folders : Public(y) /\ folders[y].parent \in S \cup {NoFolder} => y \in S
  OBVIOUS
<1> HIDE DEF S
<1>2. Reachable \subseteq S
  BY <1>1 DEF Reachable
<1> QED BY <1>2 DEF S

\* What the grid of a root folder's page shows is reachable ...
LEMMA RootSections ==
  ASSUME Tree, Few, NEW r \in RootFolders, NEW s \in Sections(r, PathOf(r)) PROVE s[1] \in Reachable
<1> DEFINE S == SectionsOf(r, PathOf(r))
           Good(n) == \A t \in S[n] : t[1] \in Reachable
           T == {n \in 0..Levels : ~ Good(n)}
<1>0. r \in DOMAIN folders /\ Public(r) /\ folders[r].parent = NoFolder
  BY DEF RootFolders, Children
<1>1. PathOf(r) \in Seq({folders[x].slug : x \in DOMAIN folders})
  BY <1>0, PathIs
<1>2. /\ S[0] = {<<r, PathOf(r)>>} /\ Sections(r, PathOf(r)) = S[Levels] /\ Levels \in Nat
      /\ \A n \in 1..Levels : S[n] = S[n - 1] \cup UNION {Deeper(t) : t \in S[n - 1]}
  BY <1>0, <1>1, SectionsAre
<1>3. Good(0)
  BY <1>0, <1>2, ReachableDown
<1> HIDE DEF S
<1>4. T = {}
  <2> SUFFICES ASSUME T # {} PROVE FALSE
    OBVIOUS
  <2>1. T \in SUBSET Nat
    BY <1>2
  <2>2. PICK n \in T : \A m \in T : n <= m
    <3> HIDE DEF T
    <3> QED BY <2>1, LeastNumber
  <2>3. n # 0
    BY <1>3, <2>2
  <2>4. n \in 1..Levels /\ n - 1 \in 0..Levels /\ n - 1 \notin T
    BY <1>2, <2>2, <2>3
  <2>5. Good(n - 1)
    BY <2>4
  <2>6. ASSUME NEW t, t[1] \in Reachable, NEW u \in Deeper(t) PROVE u[1] \in Reachable
    <3>1. PICK x \in Children(t[1]) : Public(x) /\ u = <<x, Append(t[2], folders[x].slug)>>
      BY DEF Deeper
    <3>2. x \in DOMAIN folders /\ folders[x].parent = t[1]
      BY <3>1 DEF Children
    <3> QED BY <2>6, <3>1, <3>2, ReachableDown
  <2>7. Good(n)
    BY <1>2, <2>4, <2>5, <2>6
  <2> QED BY <2>2, <2>7
<1>5. Levels \in 0..Levels
  BY <1>2
<1> QED BY <1>2, <1>4, <1>5

LEMMA SectionsGrow ==
  ASSUME NEW S, Levels \in Nat, \A n \in 1..Levels : S[n] = S[n - 1] \cup UNION {Deeper(t) : t \in S[n - 1]},
         NEW m \in 0..Levels
  PROVE  S[m] \subseteq S[Levels]
<1> DEFINE T == {n \in 0..Levels : m <= n /\ ~ (S[m] \subseteq S[n])}
<1>1. T = {}
  <2> SUFFICES ASSUME T # {} PROVE FALSE
    OBVIOUS
  <2>1. T \in SUBSET Nat
    OBVIOUS
  <2>2. PICK n \in T : \A k \in T : n <= k
    <3> HIDE DEF T
    <3> QED BY <2>1, LeastNumber
  <2>3. n # m /\ m <= n - 1 /\ n \in 1..Levels /\ n - 1 \in 0..Levels /\ n - 1 \notin T
    BY <2>2
  <2>4. S[m] \subseteq S[n - 1] /\ S[n - 1] \subseteq S[n]
    BY <2>3
  <2> QED BY <2>2, <2>4
<1> QED BY <1>1

\* ... and what is reachable is on the grid of a root folder's page, at its depth.
LEMMA ReachableIsBrowsed ==
  ASSUME Tree, Few, NEW y \in Reachable
  PROVE  \E r \in RootFolders : \E s \in Sections(r, PathOf(r)) : s[1] = y
<1> DEFINE At(x, r) == \E s \in SectionsOf(r, PathOf(r))[Len(Chain[x]) - 1] : s[1] = x
           D == {x \in DOMAIN folders : \E r \in RootFolders : At(x, r)}
<1>0. NoFolder \notin DOMAIN folders
  BY SceneAssumption DEF Tree, Whole
<1>1. ASSUME NEW r \in RootFolders
      PROVE  LET S == SectionsOf(r, PathOf(r)) IN
             /\ S[0] = {<<r, PathOf(r)>>} /\ Sections(r, PathOf(r)) = S[Levels] /\ Levels \in Nat
             /\ \A n \in 1..Levels : S[n] = S[n - 1] \cup UNION {Deeper(t) : t \in S[n - 1]}
  <2>1. r \in DOMAIN folders
    BY DEF RootFolders, Children
  <2>2. PathOf(r) \in Seq({folders[x].slug : x \in DOMAIN folders})
    BY <2>1, PathIs
  <2> QED BY <2>1, <2>2, SectionsAre
<1>2. Parents(folders) /\ IsChain(Chain, folders)
  BY TreeParents, ChainNow DEF Tree
<1>3. ASSUME NEW x \in DOMAIN folders
      PROVE  /\ Len(Chain[x]) \in Nat /\ Len(Chain[x]) <= Levels
             /\ folders[x].parent = NoFolder => Len(Chain[x]) = 1
             /\ folders[x].parent # NoFolder =>
                  folders[x].parent \in DOMAIN folders /\ Len(Chain[x]) = Len(Chain[folders[x].parent]) + 1
  <2> DEFINE p == folders[x].parent
  <2>1. Chain[x] \in Seq(DOMAIN folders) /\ Chain[x] = IF p = NoFolder THEN <<x>> ELSE Append(Chain[p], x)
    BY <1>2, ChainTypes, ChainIs
  <2>2. p # NoFolder => p \in DOMAIN folders /\ Chain[p] \in Seq(DOMAIN folders)
    BY <1>2, ChainTypes DEF Parents
  <2>3. \A t \in Seq(DOMAIN folders) : Len(Append(t, x)) = Len(t) + 1
    OBVIOUS
  <2>4. Len(<<x>>) = 1
    OBVIOUS
  <2>5. Len(Chain[x]) <= Levels
    BY DepthBound
  <2> HIDE DEF p
  <2>6. Len(Chain[x]) \in Nat
    BY <2>1
  <2>7. p = NoFolder => Len(Chain[x]) = 1
    BY <2>1, <2>4
  <2>8. p # NoFolder => p \in DOMAIN folders /\ Len(Chain[x]) = Len(Chain[p]) + 1
    BY <2>1, <2>2, <2>3
  <2> QED BY <2>5, <2>6, <2>7, <2>8 DEF p
<1>4. ASSUME NEW x \in DOMAIN folders, Public(x), folders[x].parent \in D \cup {NoFolder} PROVE x \in D
  <2> DEFINE p == folders[x].parent
  <2>1. CASE p = NoFolder
    <3>1. x \in RootFolders
      BY <1>4, <2>1 DEF RootFolders, Children
    <3>2. Len(Chain[x]) - 1 = 0 /\ <<x, PathOf(x)>> \in SectionsOf(x, PathOf(x))[0]
      BY <1>1, <1>3, <2>1, <3>1
    <3> DEFINE s == <<x, PathOf(x)>>
    <3>3. s[1] = x
      OBVIOUS
    <3>4. s \in SectionsOf(x, PathOf(x))[Len(Chain[x]) - 1]
      BY <3>2
    <3> HIDE DEF s
    <3>5. At(x, x)
      BY <3>3, <3>4
    <3> QED BY <3>1, <3>5
  <2>2. CASE p # NoFolder
    <3>1. p \in D
      BY <1>4, <2>2
    <3>2. PICK r \in RootFolders : At(p, r)
      BY <3>1
    <3> DEFINE S == SectionsOf(r, PathOf(r))
               n == Len(Chain[p])
    <3>3. PICK s \in S[n - 1] : s[1] = p
      BY <3>2
    <3>4. p \in DOMAIN folders /\ Len(Chain[x]) = n + 1 /\ n \in Nat /\ n + 1 <= Levels
      BY <1>3, <2>2, <3>1
    <3>5. n # 0
      <4>1. folders[p].parent = NoFolder => n = 1
        BY <1>3, <3>4
      <4>2. folders[p].parent # NoFolder => n = Len(Chain[folders[p].parent]) + 1 /\ Len(Chain[folders[p].parent]) \in Nat
        BY <1>3, <3>4
      <4> HIDE DEF n
      <4> QED BY <4>1, <4>2
    <3>6. n \in 1..Levels /\ Len(Chain[x]) - 1 = n
      <4>1. Levels \in Nat
        BY <1>1
      <4> HIDE DEF n, p
      <4> QED BY <3>4, <3>5, <4>1
    <3>7. S[n] = S[n - 1] \cup UNION {Deeper(t) : t \in S[n - 1]}
      BY <1>1, <3>6
    <3> DEFINE t == <<x, Append(s[2], folders[x].slug)>>
    <3>8. t \in Deeper(s)
      BY <1>4, <3>3 DEF Deeper, Children
    <3>9. t \in S[n]
      <4> HIDE DEF t, S, n
      <4> QED BY <3>3, <3>7, <3>8
    <3>10. t[1] = x
      OBVIOUS
    <3>11. At(x, r)
      BY <3>6, <3>9, <3>10
    <3> QED BY <3>11
  <2> QED BY <2>1, <2>2
<1>5. y \in D
  <2>1. D \in SUBSET DOMAIN folders
    OBVIOUS
  <2> HIDE DEF D
  <2> QED BY <1>4, <2>1 DEF Reachable
<1>6. PICK r \in RootFolders : At(y, r)
  BY <1>5
<1> DEFINE m == Len(Chain[y]) - 1
           S == SectionsOf(r, PathOf(r))
<1>7. m \in 0..Levels /\ Levels \in Nat
  <2>1. y \in DOMAIN folders
    BY <1>5
  <2>2. Len(Chain[y]) \in Nat /\ Len(Chain[y]) <= Levels /\ Len(Chain[y]) # 0
    <3> DEFINE c == Len(Chain[y])
               q == folders[y].parent
    <3>1. c \in Nat /\ c <= Levels /\ (q = NoFolder => c = 1)
      BY <1>3, <2>1
    <3>2. q # NoFolder => q \in DOMAIN folders /\ c = Len(Chain[q]) + 1
      BY <1>3, <2>1
    <3>3. q # NoFolder => Len(Chain[q]) \in Nat
      BY <1>3, <3>2
    <3> HIDE DEF c, q
    <3>4. c # 0
      BY <3>1, <3>2, <3>3
    <3> QED BY <3>1, <3>4 DEF c
  <2>3. Levels \in Nat
    BY <1>1
  <2> QED BY <2>2, <2>3
<1>8. S[m] \subseteq S[Levels] /\ Sections(r, PathOf(r)) = S[Levels]
  <2>1. \A n \in 1..Levels : S[n] = S[n - 1] \cup UNION {Deeper(t) : t \in S[n - 1]}
    BY <1>1
  <2>2. Sections(r, PathOf(r)) = S[Levels]
    BY <1>1
  <2> HIDE DEF S, m
  <2> QED BY <1>7, <2>1, <2>2, SectionsGrow
<1> QED BY <1>6, <1>8

\* In every tree, walking down the grids from the public root folders meets exactly
\* the folders and galleries that search finds, and the photos of those galleries are
\* the ones keyword pages show (folder-section.ts, search/page.tsx, visibility.ts).
THEOREM GridsShowWhatSearchFinds == Spec => []BrowsingFindsAll
<1> DEFINE IInv == Tree /\ Records /\ Types /\ Few
<1>1. Init => IInv
  BY TreeStart, RecordsStart, TypesStart, FewStart
<1>2. IInv /\ [Next]_siteVars => IInv'
  BY TreeStep, RecordsStep, TypesStep, FewStep
<1>3. IInv => BrowsingFindsAll
  <2> SUFFICES ASSUME IInv PROVE BrowsingFindsAll
    OBVIOUS
  <2>1. ASSUME NEW r \in RootFolders PROVE <<folders[r].slug>> = PathOf(r)
    BY PathIs DEF RootFolders, Children
  <2>2. ASSUME NEW r \in RootFolders, NEW l \in GridLinks(r, PathOf(r)) PROVE l[1] \in FoundFolders \cup FoundGalleries
    <3>1. CASE l \in Sections(r, PathOf(r))
      BY <3>1, RootSections, ReachablePublic DEF FoundFolders
    <3>2. CASE l \notin Sections(r, PathOf(r))
      <4>1. PICK s \in Sections(r, PathOf(r)) :
              l \in {<<g, Append(s[2], galleries[g].slug)>> : g \in {x \in DOMAIN galleries : galleries[x].folder = s[1] /\ Listed(x)}}
        BY <3>2 DEF GridLinks
      <4>2. PICK g \in DOMAIN galleries : galleries[g].folder = s[1] /\ Listed(g) /\ l = <<g, Append(s[2], galleries[g].slug)>>
        BY <4>1
      <4>3. s[1] \in Reachable
        BY RootSections
      <4> QED BY <4>2, <4>3 DEF FoundGalleries
    <3> QED BY <3>1, <3>2
  <2>3. Browsed \subseteq FoundFolders \cup FoundGalleries
    <3> SUFFICES ASSUME NEW b \in Browsed PROVE b \in FoundFolders \cup FoundGalleries
      OBVIOUS
    <3>1. PICK r \in RootFolders : b \in {l[1] : l \in GridLinks(r, <<folders[r].slug>>)}
      BY DEF Browsed
    <3>2. PICK l \in GridLinks(r, PathOf(r)) : b = l[1]
      BY <2>1, <3>1
    <3> QED BY <2>2, <3>2
  <2>4. ASSUME NEW r \in RootFolders, NEW l \in GridLinks(r, PathOf(r)) PROVE l[1] \in Browsed
    <3>1. l[1] \in {k[1] : k \in GridLinks(r, <<folders[r].slug>>)}
      BY <2>1
    <3> QED BY <3>1 DEF Browsed
  <2>5. FoundFolders \subseteq Browsed
    <3> SUFFICES ASSUME NEW y \in FoundFolders PROVE y \in Browsed
      OBVIOUS
    <3>1. PICK r \in RootFolders : \E s \in Sections(r, PathOf(r)) : s[1] = y
      BY ReachableIsBrowsed DEF FoundFolders
    <3> QED BY <2>4, <3>1 DEF GridLinks
  <2>6. FoundGalleries \subseteq Browsed
    <3> SUFFICES ASSUME NEW g \in FoundGalleries PROVE g \in Browsed
      OBVIOUS
    <3>0. g \in DOMAIN galleries /\ Listed(g) /\ galleries[g].folder \in Reachable
      BY DEF FoundGalleries
    <3>1. PICK r \in RootFolders : \E s \in Sections(r, PathOf(r)) : s[1] = galleries[g].folder
      BY <3>0, ReachableIsBrowsed
    <3>2. PICK s \in Sections(r, PathOf(r)) : s[1] = galleries[g].folder
      BY <3>1
    <3> DEFINE l == <<g, Append(s[2], galleries[g].slug)>>
    <3>3. l \in GridLinks(r, PathOf(r))
      BY <3>0, <3>2 DEF GridLinks
    <3>4. l[1] = g
      OBVIOUS
    <3> HIDE DEF l
    <3> QED BY <2>4, <3>3, <3>4
  <2>7. Browsed \cap Gallery = FoundGalleries
    <3>1. DOMAIN folders \subseteq Folder /\ DOMAIN galleries \subseteq Gallery /\ Folder \cap Gallery = {}
      BY SceneAssumption DEF Types, TreeTypeOK
    <3>2. FoundFolders \subseteq Folder /\ FoundGalleries \subseteq Gallery
      BY <3>1 DEF FoundFolders, FoundGalleries, Reachable
    <3> QED BY <2>3, <2>6, <3>1, <3>2
  <2>8. ASSUME NEW a
        PROVE  a \in VisibleAssets <=> \E g \in FoundGalleries : a \in GalleryImages(g)
    BY DEF VisibleAssets, GalleryImages, FoundGalleries
  <2>9. VisibleAssets = UNION {GalleryImages(g) : g \in FoundGalleries}
    <3> DEFINE U == UNION {GalleryImages(g) : g \in FoundGalleries}
    <3>1. \A a : a \in U <=> \E g \in FoundGalleries : a \in GalleryImages(g)
      OBVIOUS
    <3> HIDE DEF U
    <3>2. \A a : a \in VisibleAssets <=> a \in U
      BY <2>8, <3>1
    <3>3. VisibleAssets = U
      BY <3>2
    <3> QED BY <3>3 DEF U
  <2> QED BY <2>3, <2>5, <2>6, <2>7, <2>9 DEF BrowsingFindsAll
<1> QED BY <1>1, <1>2, <1>3, PTL DEF Spec

-----------------------------------------------------------------------------
(* The importer walks down the path of an album.  Folders, galleries and    *)
(* chains are arguments, as above.                                          *)

FoldersOf(segments) == IF Len(segments) = 1 THEN <<Imported>> ELSE SubSeq(segments, 1, Len(segments) - 1)

\* From the root, n folders with the slugs of the first n names lead to p.
Leads(C, fs, p, names, n) ==
  IF n = 0 THEN p = NoFolder
  ELSE p \in DOMAIN fs /\ Len(C[p]) = n /\ \A k \in 1..n : fs[C[p][k]].slug = SlugOf[names[k]]

\* The gallery g is where the importer makes that of an album with this path.
Home(C, fs, gs, g, segments) ==
  /\ g \in DOMAIN gs /\ Leads(C, fs, gs[g].folder, FoldersOf(segments), Len(FoldersOf(segments)))
  /\ gs[g].slug = SlugOf[segments[Len(segments)]]

Pathname(r, n) == UrlPath[r.albums[n].album]

Way(C, fs, gs, r) ==
  LET names == FoldersOf(Pathname(r, r.next)) IN
  /\ r.at \in {"folder", "makeFolder"} => Leads(C, fs, r.parent, names, r.level - 1)
  /\ r.at \in {"gallery", "makeGallery"} => Leads(C, fs, r.parent, names, Len(names))
  /\ r.at \in {"publish", "images", "items"} => Home(C, fs, gs, r.gallery, Pathname(r, r.next))

Over(r) == {n \in DOMAIN r.albums : n < r.next}
Behind(C, fs, gs, old, r) ==
  /\ r.at = "done" => r.next > Len(r.albums)
  /\ \A n \in Over(r) : Pathname(r, n) \in old /\ \E g : Home(C, fs, gs, g, Pathname(r, n))

\* New rows aside, the tree and the slugs in it are as they were.
Settled(fs, gs, fs2, gs2) ==
  /\ Grown(fs, gs, fs2, gs2)
  /\ \A f \in DOMAIN fs : fs2[f].slug = fs[f].slug
  /\ \A g \in DOMAIN gs : gs2[g].slug = gs[g].slug

LEMMA RowsSettle == ASSUME RowsStay, ~ reshaped' PROVE Settled(folders, galleries, folders', galleries')
  BY RowsGrow DEF RowsStay, FolderStays, GalleryStays, Settled

LEMMA LeadsDown ==
  ASSUME NEW fs, NEW C, Parents(fs), IsChain(C, fs), NEW p, NEW names, NEW n \in Nat, Leads(C, fs, p, names, n),
         NEW x \in DOMAIN fs, fs[x].parent = p, fs[x].slug = SlugOf[names[n + 1]]
  PROVE  Leads(C, fs, x, names, n + 1)
<1>1. C[x] = IF p = NoFolder THEN <<x>> ELSE Append(C[p], x)
  BY ChainIs
<1>2. CASE n = 0
  <2>1. C[x] = <<x>>
    BY <1>1, <1>2 DEF Leads
  <2>2. Len(C[x]) = 1 /\ C[x][1] = x /\ \A k \in 1..1 : k = 1
    BY <2>1
  <2> QED BY <1>2, <2>2 DEF Leads
<1>3. CASE n # 0
  <2>1. p \in DOMAIN fs /\ p # NoFolder /\ Len(C[p]) = n /\ \A k \in 1..n : fs[C[p][k]].slug = SlugOf[names[k]]
    BY <1>3 DEF Leads, Parents
  <2>2. C[p] \in Seq(DOMAIN fs)
    BY <2>1, ChainTypes
  <2>3. \A s \in Seq(DOMAIN fs) : /\ Len(Append(s, x)) = Len(s) + 1 /\ Append(s, x)[Len(s) + 1] = x
                                  /\ \A k \in 1..Len(s) : Append(s, x)[k] = s[k]
    OBVIOUS
  <2>4. Len(C[x]) = n + 1 /\ C[x][n + 1] = x /\ \A k \in 1..n : C[x][k] = C[p][k]
    BY <1>1, <2>1, <2>2, <2>3
  <2>5. \A k \in 1..(n + 1) : k = n + 1 \/ k \in 1..n
    OBVIOUS
  <2>6. \A k \in 1..(n + 1) : fs[C[x][k]].slug = SlugOf[names[k]]
    BY <2>1, <2>4, <2>5
  <2>7. n + 1 # 0
    OBVIOUS
  <2> QED BY <2>4, <2>6, <2>7 DEF Leads
<1> QED BY <1>2, <1>3

LEMMA LeadsStays ==
  ASSUME NEW fs, NEW gs, NEW C, NEW fs2, NEW gs2, NEW D, Parents(fs), IsChain(C, fs), IsChain(D, fs2),
         Settled(fs, gs, fs2, gs2), NEW p, NEW names, NEW n, Leads(C, fs, p, names, n)
  PROVE  Leads(D, fs2, p, names, n)
<1>1. CASE n = 0
  BY <1>1 DEF Leads
<1>2. CASE n # 0
  <2>1. p \in DOMAIN fs /\ Len(C[p]) = n /\ \A k \in 1..n : fs[C[p][k]].slug = SlugOf[names[k]]
    BY <1>2 DEF Leads
  <2>2. D[p] = C[p]
    BY <2>1, ChainsStay DEF Settled
  <2>3. C[p] \in Seq(DOMAIN fs)
    BY <2>1, ChainTypes
  <2>4. \A k \in 1..n : C[p][k] \in DOMAIN fs
    BY <2>1, <2>3
  <2>5. p \in DOMAIN fs2 /\ \A k \in 1..n : fs2[C[p][k]].slug = fs[C[p][k]].slug
    BY <2>1, <2>4 DEF Settled, Grown
  <2> QED BY <1>2, <2>1, <2>2, <2>5 DEF Leads
<1> QED BY <1>1, <1>2

LEMMA HomeStays ==
  ASSUME NEW fs, NEW gs, NEW C, NEW fs2, NEW gs2, NEW D, Parents(fs), IsChain(C, fs), IsChain(D, fs2),
         Settled(fs, gs, fs2, gs2), NEW g, NEW segments, Home(C, fs, gs, g, segments)
  PROVE  Home(D, fs2, gs2, g, segments)
<1>1. /\ g \in DOMAIN gs /\ Leads(C, fs, gs[g].folder, FoldersOf(segments), Len(FoldersOf(segments)))
      /\ gs[g].slug = SlugOf[segments[Len(segments)]]
  BY DEF Home
<1>2. g \in DOMAIN gs2 /\ gs2[g].folder = gs[g].folder /\ gs2[g].slug = gs[g].slug
  BY <1>1 DEF Settled, Grown
<1>3. Leads(D, fs2, gs[g].folder, FoldersOf(segments), Len(FoldersOf(segments)))
  BY <1>1, LeadsStays
<1> QED BY <1>1, <1>2, <1>3 DEF Home

Placed(C, fs, gs, old, r) == Way(C, fs, gs, r) /\ Behind(C, fs, gs, old, r)

LEMMA PlacedStays ==
  ASSUME NEW fs, NEW gs, NEW C, NEW fs2, NEW gs2, NEW D, Parents(fs), IsChain(C, fs), IsChain(D, fs2),
         Settled(fs, gs, fs2, gs2), NEW old, NEW old2, old \subseteq old2, NEW r, Placed(C, fs, gs, old, r)
  PROVE  Placed(D, fs2, gs2, old2, r)
<1>1. ASSUME NEW p, NEW names, NEW n, Leads(C, fs, p, names, n) PROVE Leads(D, fs2, p, names, n)
  BY <1>1, LeadsStays
<1>2. ASSUME NEW g, NEW segments, Home(C, fs, gs, g, segments) PROVE Home(D, fs2, gs2, g, segments)
  BY <1>2, HomeStays
<1>3. Way(D, fs2, gs2, r)
  BY <1>1, <1>2 DEF Placed, Way
<1>4. Behind(D, fs2, gs2, old2, r)
  BY <1>2 DEF Placed, Behind
<1> QED BY <1>3, <1>4 DEF Placed

\* The importer enters a folder ...
LEMMA FolderPlaced ==
  ASSUME NEW fs, NEW gs, NEW C, Parents(fs), IsChain(C, fs), NEW old, NEW r, NEW r2, Placed(C, fs, gs, old, r),
         r.at \in {"folder", "makeFolder"}, r.level \in Nat \ {0}, Len(FoldersOf(Pathname(r, r.next))) \in Nat,
         r.level <= Len(FoldersOf(Pathname(r, r.next))),
         NEW f \in DOMAIN fs, fs[f].parent = r.parent, fs[f].slug = SlugOf[FoldersOf(Pathname(r, r.next))[r.level]],
         r2.albums = r.albums, r2.next = r.next, r2.parent = f, r2.level = r.level + 1,
         r2.at = IF r.level < Len(FoldersOf(Pathname(r, r.next))) THEN "folder" ELSE "gallery"
  PROVE  Placed(C, fs, gs, old, r2)
<1> DEFINE names == FoldersOf(Pathname(r, r.next))
           n == r.level - 1
<1>1. n \in Nat /\ n + 1 = r.level /\ Leads(C, fs, r.parent, names, n)
  BY DEF Placed, Way
<1>2. Leads(C, fs, f, names, n + 1)
  <2> HIDE DEF names, n
  <2>1. fs[f].slug = SlugOf[names[n + 1]]
    BY <1>1 DEF names
  <2> QED BY <1>1, <2>1, LeadsDown
<1>3. Pathname(r2, r2.next) = Pathname(r, r.next) /\ \A m : Pathname(r2, m) = Pathname(r, m)
  BY DEF Pathname
<1>4. Way(C, fs, gs, r2)
  <2>1. r.level < Len(names) \/ r.level = Len(names)
    OBVIOUS
  <2>2. r2.level - 1 = n + 1
    BY <1>1
  <2> HIDE DEF names, n
  <2> QED BY <1>1, <1>2, <1>3, <2>1, <2>2 DEF Way, names
<1>5. Behind(C, fs, gs, old, r2)
  BY <1>3 DEF Placed, Behind, Over
<1> QED BY <1>4, <1>5 DEF Placed

\* ... then a gallery ...
LEMMA GalleryPlaced ==
  ASSUME NEW fs, NEW gs, NEW C, NEW old, NEW r, NEW r2, Placed(C, fs, gs, old, r),
         r.at \in {"gallery", "makeGallery"},
         NEW g \in DOMAIN gs, gs[g].folder = r.parent,
         gs[g].slug = SlugOf[Pathname(r, r.next)[Len(Pathname(r, r.next))]],
         r2.albums = r.albums, r2.next = r.next, r2.gallery = g, r2.at \in {"publish", "images"}
  PROVE  Placed(C, fs, gs, old, r2)
<1>1. Pathname(r2, r2.next) = Pathname(r, r.next) /\ \A m : Pathname(r2, m) = Pathname(r, m)
  BY DEF Pathname
<1>2. Home(C, fs, gs, g, Pathname(r, r.next))
  BY DEF Placed, Way, Home
<1> QED BY <1>1, <1>2 DEF Placed, Way, Behind, Over

\* ... and stays in it.
LEMMA InsidePlaced ==
  ASSUME NEW fs, NEW gs, NEW C, NEW old, NEW r, NEW r2, Placed(C, fs, gs, old, r),
         r2.albums = r.albums, r2.next = r.next, r2.parent = r.parent, r2.gallery = r.gallery, r2.level = r.level,
         \/ r2.at = r.at /\ r.at # "done"
         \/ r.at = "folder" /\ r2.at = "makeFolder"
         \/ r.at = "gallery" /\ r2.at = "makeGallery"
         \/ r.at \in {"publish", "images"} /\ r2.at \in {"images", "items"}
         \/ r2.at = "done" /\ r.next > Len(r.albums)
  PROVE  Placed(C, fs, gs, old, r2)
<1>1. Pathname(r2, r2.next) = Pathname(r, r.next) /\ \A m : Pathname(r2, m) = Pathname(r, m) /\ Over(r2) = Over(r)
  BY DEF Pathname, Over
<1> QED BY <1>1 DEF Placed, Way, Behind

Places == ~ reshaped => Placed(Chain, folders, galleries, DOMAIN redirects, import)

LEMMA StillPlaced ==
  ASSUME Tree, Tree', Places, RowsStay, ~ reshaped', DOMAIN redirects \subseteq DOMAIN redirects'
  PROVE  Placed(Chain', folders', galleries', DOMAIN redirects', import)
<1>1. Placed(Chain, folders, galleries, DOMAIN redirects, import)
  BY DEF Places, RowsStay
<1> DEFINE C == Chain
           C2 == Chain'
           old == DOMAIN redirects
           old2 == DOMAIN redirects'
           r == import
<1>2. Settled(folders, galleries, folders', galleries')
  BY RowsSettle
<1>3. Parents(folders) /\ IsChain(C, folders) /\ IsChain(C2, folders')
  BY TreesThen
<1>4. Placed(C, folders, galleries, old, r) /\ old \subseteq old2
  BY <1>1
<1> HIDE DEF C, C2, old, old2, r
<1>5. Placed(C2, folders', galleries', old2, r)
  BY <1>2, <1>3, <1>4, PlacedStays
<1> QED BY <1>5 DEF C2, old2, r

LEMMA NamesAre == ASSUME IsImport(import), import.next \in DOMAIN import.albums
                  PROVE  /\ Pathname(import, import.next) = Segments /\ FoldersOf(Segments) = FolderSegments
                         /\ Len(Segments) \in Nat \ {0} /\ Len(FolderSegments) = Depth(import) /\ Depth(import) \in Nat
  BY PathTypes DEF Pathname, Segments, This, FoldersOf, FolderSegments

LEMMA ImportPlaces == ASSUME Tree, Tree', Types, Places, ImportNext PROVE Places'
<1> DEFINE C == Chain'
           fs == folders'
           gs == galleries'
           old == DOMAIN redirects'
           r == import
           r2 == import'
<1>0. IsImport(r) /\ Disk
  BY DEF Types, ImportTypes, ExportTypes
<1>1. RowsStay
  BY ImportRowsStay
<1>2. DOMAIN redirects \subseteq DOMAIN redirects'
  BY DEF ImportNext, StartImport, BeginAlbum, FindFolder, MakeFolder, FindGallery, MakeGallery, PublishGallery, StoreImage,
     UpsertImage, QueueImage, BeginItems, InsertItem, WriteRedirect, FinishImport, CrashImport, treeVars
<1> SUFFICES ASSUME ~ reshaped' PROVE Placed(C, fs, gs, old, r2)
  BY DEF Places
<1>3. Placed(C, fs, gs, old, r)
  BY <1>1, <1>2, StillPlaced
<1>4. Parents(fs) /\ IsChain(C, fs)
  BY TreesThen
<1>5. r \in ImportState
  BY <1>0 DEF IsImport
<1>6. ASSUME r.next \in DOMAIN r.albums
      PROVE  /\ Pathname(r, r.next) = Segments /\ FoldersOf(Segments) = FolderSegments
             /\ Len(Segments) \in Nat \ {0} /\ Len(FolderSegments) = Depth(r) /\ Depth(r) \in Nat
  BY <1>0, <1>6, NamesAre
<1>7. r.at \notin {"down", "done", "album"} => r.next \in DOMAIN r.albums
  BY <1>0 DEF IsImport
<1> HIDE DEF C, fs, gs, old
<1>8. CASE StartImport
  <2>1. r2 = [ImportDown EXCEPT !.at = "album", !.albums = manifest] /\ manifest \in Seq(Walked)
    BY <1>0, <1>8 DEF StartImport, Disk
  <2>2. r2.at = "album" /\ r2.next = 1 /\ r2.albums \in Seq(Walked)
    BY <2>1 DEF ImportDown
  <2>3. Over(r2) = {}
    BY <2>2 DEF Over
  <2> QED BY <2>2, <2>3 DEF Placed, Way, Behind
<1>9. CASE CrashImport
  <2>1. r2 = ImportDown
    BY <1>9 DEF CrashImport
  <2>2. r2.at = "down" /\ r2.albums = << >>
    BY <2>1 DEF ImportDown
  <2>3. Over(r2) = {}
    BY <2>2 DEF Over
  <2> QED BY <2>2, <2>3 DEF Placed, Way, Behind
<1>10. CASE BeginAlbum
  <2>1. /\ r2.albums = r.albums /\ r2.next = r.next /\ r2.at = "folder" /\ r2.level = 1 /\ r2.parent = NoFolder
    BY <1>5, <1>10 DEF BeginAlbum, ImportState
  <2>2. Over(r2) = Over(r) /\ \A n : Pathname(r2, n) = Pathname(r, n)
    BY <2>1 DEF Over, Pathname
  <2>3. Way(C, fs, gs, r2)
    BY <2>1 DEF Way, Leads
  <2>4. Behind(C, fs, gs, old, r2)
    BY <1>3, <2>1, <2>2 DEF Placed, Behind
  <2> QED BY <2>3, <2>4 DEF Placed
<1>11. ASSUME r.at \in {"folder", "makeFolder"}, NEW f \in DOMAIN fs, fs[f].parent = r.parent,
              fs[f].slug = SlugOf[FolderSegments[r.level]], EnterFolder(f)
       PROVE  Placed(C, fs, gs, old, r2)
  <2>1. /\ r2.albums = r.albums /\ r2.next = r.next /\ r2.parent = f /\ r2.level = r.level + 1
        /\ r2.at = IF r.level < Len(FolderSegments) THEN "folder" ELSE "gallery"
    BY <1>5, <1>11 DEF EnterFolder, ImportState
  <2>2. r.next \in DOMAIN r.albums
    BY <1>7, <1>11
  <2>3. r.level \in 1..Depth(r)
    BY <1>0, <1>11 DEF IsImport
  <2>4. FoldersOf(Pathname(r, r.next)) = FolderSegments /\ Len(FolderSegments) = Depth(r) /\ Depth(r) \in Nat
    BY <1>6, <2>2
  <2>5. r.level \in Nat \ {0} /\ r.level <= Depth(r)
    BY <2>3, <2>4
  <2> HIDE DEF r, r2
  <2> QED BY <1>3, <1>4, <1>11, <2>1, <2>4, <2>5, FolderPlaced
<1>12. ASSUME r.at \in {"gallery", "makeGallery"}, NEW g \in DOMAIN gs, gs[g].folder = r.parent,
              gs[g].slug = SlugOf[GallerySegment], EnterGallery(g)
       PROVE  Placed(C, fs, gs, old, r2)
  <2>1. r2.albums = r.albums /\ r2.next = r.next /\ r2.gallery = g /\ r2.at \in {"publish", "images"}
    BY <1>5, <1>12 DEF EnterGallery, ImportState
  <2>2. r.next \in DOMAIN r.albums
    BY <1>7, <1>12
  <2>3. GallerySegment = Pathname(r, r.next)[Len(Pathname(r, r.next))]
    BY <1>6, <2>2 DEF GallerySegment
  <2> HIDE DEF r, r2
  <2> QED BY <1>3, <1>12, <2>1, <2>3, GalleryPlaced
<1>13. ASSUME r2.albums = r.albums, r2.next = r.next, r2.parent = r.parent, r2.gallery = r.gallery, r2.level = r.level,
              \/ r2.at = r.at /\ r.at # "done"
              \/ r.at = "folder" /\ r2.at = "makeFolder"
              \/ r.at = "gallery" /\ r2.at = "makeGallery"
              \/ r.at \in {"publish", "images"} /\ r2.at \in {"images", "items"}
              \/ r2.at = "done" /\ r.next > Len(r.albums)
       PROVE  Placed(C, fs, gs, old, r2)
  <2> HIDE DEF r, r2
  <2> QED BY <1>3, <1>13, InsidePlaced
<1>14. CASE FindFolder
  <2>1. CASE ImportAt("makeFolder")
    BY <1>5, <1>13, <1>14, <2>1 DEF FindFolder, ImportAt, ImportState
  <2>2. CASE ~ ImportAt("makeFolder")
    <3>1. PICK f \in Matching(import.parent, SlugOf[FolderSegments[import.level]]) : EnterFolder(f)
      BY <1>14, <2>2 DEF FindFolder
    <3>2. f \in DOMAIN fs /\ fs[f].parent = r.parent /\ fs[f].slug = SlugOf[FolderSegments[r.level]]
      BY <1>14, <3>1 DEF FindFolder, Matching, treeVars, fs
    <3> QED BY <1>11, <1>14, <3>1, <3>2 DEF FindFolder
  <2> QED BY <2>1, <2>2
<1>15. CASE MakeFolder
  <2>1. PICK f \in Folder : InsertFolder(f, import.parent, FolderSegments[import.level], "public") /\ EnterFolder(f)
    BY <1>15 DEF MakeFolder
  <2>2. f \in DOMAIN fs /\ fs[f].parent = r.parent /\ fs[f].slug = SlugOf[FolderSegments[r.level]]
    BY <2>1 DEF InsertFolder, fs
  <2> QED BY <1>11, <1>15, <2>1, <2>2 DEF MakeFolder
<1>16. CASE FindGallery
  <2>1. CASE ImportAt("makeGallery")
    BY <1>5, <1>13, <1>16, <2>1 DEF FindGallery, ImportAt, ImportState
  <2>2. CASE ~ ImportAt("makeGallery")
    <3>1. PICK g \in DOMAIN galleries : /\ galleries[g].folder = import.parent
                                         /\ galleries[g].slug = SlugOf[GallerySegment] /\ EnterGallery(g)
      BY <1>16, <2>2 DEF FindGallery
    <3>2. g \in DOMAIN gs /\ gs[g].folder = r.parent /\ gs[g].slug = SlugOf[GallerySegment]
      BY <1>16, <3>1 DEF FindGallery, treeVars, gs
    <3> QED BY <1>12, <1>16, <3>1, <3>2 DEF FindGallery
  <2> QED BY <2>1, <2>2
<1>17. CASE MakeGallery
  <2>1. PICK g \in Gallery : InsertGallery(g, import.parent, GallerySegment, "public") /\ EnterGallery(g)
    BY <1>17 DEF MakeGallery
  <2>2. g \in DOMAIN gs /\ gs[g].folder = r.parent /\ gs[g].slug = SlugOf[GallerySegment]
    BY <2>1 DEF InsertGallery, gs
  <2> QED BY <1>12, <1>17, <2>1, <2>2 DEF MakeGallery
<1>18. CASE PublishGallery
  BY <1>5, <1>13, <1>18 DEF PublishGallery, ImportAt, ImportState
<1>19. ASSUME NEW i \in Image, StoreImage(i) \/ UpsertImage(i) \/ QueueImage(i) PROVE Placed(C, fs, gs, old, r2)
  BY <1>5, <1>13, <1>19 DEF StoreImage, UpsertImage, QueueImage, SetImage, ImportState
<1>20. CASE BeginItems
  BY <1>5, <1>13, <1>20 DEF BeginItems, ImportState
<1>21. CASE InsertItem
  BY <1>5, <1>13, <1>21 DEF InsertItem, ImportState
<1>22. CASE WriteRedirect
  <2>1. r2.albums = r.albums /\ r2.next = r.next + 1 /\ r2.at = "album"
    BY <1>5, <1>22 DEF WriteRedirect, ImportState
  <2>2. r.at = "items" /\ r.next \in DOMAIN r.albums
    BY <1>7, <1>22 DEF WriteRedirect
  <2>3. Pathname(r, r.next) = Segments /\ Segments \in old
    <3>1. Segments \in old
      BY <1>22 DEF WriteRedirect, old
    <3> QED BY <1>6, <2>2, <3>1
  <2>4. Home(C, fs, gs, r.gallery, Pathname(r, r.next))
    BY <1>3, <2>2 DEF Placed, Way
  <2>5. \A n \in Over(r2) : n \in Over(r) \/ n = r.next
    BY <1>5, <2>1 DEF Over, ImportState
  <2>6. \A n : Pathname(r2, n) = Pathname(r, n)
    BY <2>1 DEF Pathname
  <2>7. Behind(C, fs, gs, old, r2)
    <3>1. \A n \in Over(r) : Pathname(r, n) \in old /\ \E g : Home(C, fs, gs, g, Pathname(r, n))
      BY <1>3 DEF Placed, Behind
    <3> HIDE DEF r, r2
    <3> QED BY <2>1, <2>3, <2>4, <2>5, <2>6, <3>1 DEF Behind
  <2> QED BY <2>1, <2>7 DEF Placed, Way
<1>23. CASE FinishImport
  BY <1>5, <1>13, <1>23 DEF FinishImport, ImportAt, ImportState
<1> QED BY <1>8, <1>9, <1>10, <1>14, <1>15, <1>16, <1>17, <1>18, <1>19, <1>20, <1>21, <1>22, <1>23 DEF ImportNext

LEMMA DropLeavesRedirects == ASSUME DropNext PROVE UNCHANGED <<redirects, items>>
<1> PICK d \in Drop :
      \/ \E f \in DOMAIN folders : StartDrop(d, f)
      \/ ListNames(d) \/ PostName(d) \/ InsertName(d) \/ InsertRefused(d) \/ Relist(d)
      \/ RequestFails(d)
  BY DEF DropNext
<1> QED BY DEF StartDrop, ListNames, PostName, InsertName, InsertRefused, Relist, RequestFails, treeVars

LEMMA ScriptsLeaveImport == ASSUME ScanNext \/ ResetNext \/ WorkerNext \/ OperatorNext PROVE UNCHANGED importVars
  BY DEF ScanNext, StartScan, ScanRows, CopyOrphan, DeleteOrphan, AdoptOrphan, QueueOrphan, FinishScan,
     CrashScan, ResetNext, StartReset, ResetRow, RequeueRow, FinishReset, CrashReset, WorkerNext, IngestJob,
     OperatorNext, TurnMonth, Migrate

LEMMA PlacesStep == ASSUME Tree, Tree', Types, Places, [Next]_siteVars PROVE Places'
<1>1. CASE Importing
  BY <1>1, ImportPlaces DEF Importing
<1>2. ASSUME UNCHANGED <<import, redirects>> PROVE Places'
  <2>1. RowsStay
    BY RowsStep
  <2> SUFFICES ASSUME ~ reshaped' PROVE Placed(Chain', folders', galleries', DOMAIN redirects', import')
    BY DEF Places
  <2> QED BY <1>2, <2>1, StillPlaced
<1>3. CASE Studio
  BY <1>2, <1>3 DEF Studio, importVars, TreeNext, PostFolder, PostGallery, PostInserts, PostRefused, ShowFolder, RenameFolder,
     ShowGallery, RenameGallery, DeleteFolder, DeleteGallery, DeletePhoto
<1>4. CASE Dropping
  BY <1>2, <1>4, DropLeavesRedirects DEF Dropping, importVars
<1>5. CASE Exporting \/ Scanning \/ Resetting \/ Ingesting \/ Operating \/ UNCHANGED siteVars
  <2>1. UNCHANGED treeVars
    BY <1>5, ScriptsLeaveRows DEF Exporting, Scanning, Resetting, Ingesting, Operating, siteVars
  <2>2. UNCHANGED import
    BY <1>5, ScriptsLeaveImport DEF Exporting, Scanning, Resetting, Ingesting, Operating, siteVars, importVars
  <2> QED BY <1>2, <2>1, <2>2 DEF treeVars
<1> QED BY <1>1, <1>3, <1>4, <1>5 DEF Next

LEMMA PlacesStart == ASSUME Init PROVE Places
<1>1. import.at = "down" /\ import.albums = << >>
  BY DEF Init, ImportInit, ImportDown
<1>2. Over(import) = {}
  BY <1>1 DEF Over
<1> QED BY <1>1, <1>2 DEF Places, Placed, Way, Behind

-----------------------------------------------------------------------------
(* Redirects lead from the titles of a path to their slugs.                 *)

SlugsOf(path) == [i \in DOMAIN path |-> SlugOf[path[i]]]
Redirected ==
  /\ IsFiniteSet(DOMAIN redirects)
  /\ \A p \in DOMAIN redirects : p \in Seq(Title) /\ redirects[p] = SlugsOf(p)

LEMMA RedirectedStep == ASSUME Types, Redirected, [Next]_siteVars PROVE Redirected'
<1>1. CASE WriteRedirect
  <2>1. import.at = "items" /\ IsImport(import)
    BY <1>1 DEF WriteRedirect, Types, ImportTypes
  <2>2. Segments \in Seq(Title) /\ NewPath = SlugsOf(Segments)
    BY <2>1, PathTypes DEF IsImport, NewPath, SlugsOf
  <2>3. CASE Segments \in DOMAIN redirects
    BY <1>1, <2>3 DEF WriteRedirect, Redirected, SlugsOf
  <2>4. CASE Segments \notin DOMAIN redirects
    <3>1. redirects' = [p \in DOMAIN redirects \cup {Segments} |-> IF p = Segments THEN NewPath ELSE redirects[p]]
      BY <1>1, <2>4 DEF WriteRedirect
    <3>2. DOMAIN redirects' = DOMAIN redirects \cup {Segments}
      BY <3>1
    <3>3. IsFiniteSet(DOMAIN redirects')
      BY <3>2, FS_AddElement DEF Redirected
    <3>4. ASSUME NEW p \in DOMAIN redirects' PROVE p \in Seq(Title) /\ redirects'[p] = SlugsOf(p)
      BY <2>2, <2>4, <3>1 DEF Redirected
    <3> QED BY <3>3, <3>4 DEF Redirected, SlugsOf
  <2> QED BY <2>3, <2>4
<1>2. ASSUME UNCHANGED redirects PROVE Redirected'
  BY <1>2 DEF Redirected, SlugsOf
<1>3. CASE Importing /\ ~ WriteRedirect
  BY <1>2, <1>3 DEF Importing, ImportNext, StartImport, BeginAlbum, FindFolder, MakeFolder, FindGallery, MakeGallery,
     PublishGallery, StoreImage, UpsertImage, QueueImage, BeginItems, InsertItem, FinishImport, CrashImport, treeVars
<1>4. CASE Studio
  BY <1>2, <1>4 DEF Studio, TreeNext, PostFolder, PostGallery, PostInserts, PostRefused, ShowFolder, RenameFolder,
     ShowGallery, RenameGallery, DeleteFolder, DeleteGallery, DeletePhoto
<1>5. CASE Dropping
  BY <1>2, <1>5, DropLeavesRedirects DEF Dropping
<1>6. CASE Exporting \/ Scanning \/ Resetting \/ Ingesting \/ Operating \/ UNCHANGED siteVars
  BY <1>2, <1>6, ScriptsLeaveRows DEF Exporting, Scanning, Resetting, Ingesting, Operating, siteVars, treeVars
<1> QED BY <1>1, <1>3, <1>4, <1>5, <1>6 DEF Next

LEMMA RedirectedStart == ASSUME Init PROVE Redirected
  BY FS_EmptySet DEF Init, TreeInit, Redirected

IsVisit(V, path) ==
  V = [n \in 0..Cardinality(DOMAIN redirects) |-> IF n = 0 THEN {path}
        ELSE {redirects[p] : p \in {q \in V[n - 1] : Resolve(q) = {NotFound} /\ q \in DOMAIN redirects}}]
Onward(P) == {redirects[p] : p \in {q \in P : Resolve(q) = {NotFound} /\ q \in DOMAIN redirects}}

LEMMA VisitExists == ASSUME Redirected, NEW path PROVE \E V : IsVisit(V, path)
<1> DEFINE S == SUBSET ({path} \cup {redirects[p] : p \in DOMAIN redirects})
           step == [x \in Nat \X S |-> Onward(x[2])]
           N == Cardinality(DOMAIN redirects)
<1>0. N \in Nat
  BY FS_CardinalityType DEF Redirected
<1>1. IsStep(S, {path}, step)
  <2>1. \A x \in Nat \X S : Onward(x[2]) \in S
    BY DEF Onward
  <2> QED BY <2>1 DEF IsStep
<1>2. \A n \in Nat, P \in S : step[<<n, P>>] = Onward(P)
  OBVIOUS
<1> HIDE DEF S, step
<1>3. PICK V : IsIterate(V, N, {path}, step)
  BY <1>0, <1>1, IterateExists
<1>4. DOMAIN V = 0..N /\ V[0] = {path} /\ (\A n \in 1..N : V[n] = step[<<n, V[n - 1]>>]) /\ V \in [0..N -> S]
  BY <1>0, <1>1, <1>3, IterateIs
<1> DEFINE E(n) == IF n = 0 THEN {path} ELSE Onward(V[n - 1])
<1>5. ASSUME NEW n \in 0..N PROVE V[n] = E(n)
  <2>1. CASE n = 0
    BY <1>4, <2>1
  <2>2. CASE n # 0
    <3>1. n \in 1..N /\ n - 1 \in 0..N /\ n \in Nat
      BY <1>0, <2>2
    <3>2. V[n - 1] \in S
      BY <1>4, <3>1
    <3>3. V[n] = Onward(V[n - 1])
      BY <1>2, <1>4, <3>1, <3>2
    <3> QED BY <2>2, <3>3
  <2> QED BY <2>1, <2>2
<1>6. V = [n \in 0..N |-> V[n]]
  BY <1>4
<1> HIDE DEF E
<1>7. V = [n \in 0..N |-> E(n)]
  BY <1>5, <1>6
<1> QED BY <1>7 DEF E, IsVisit, Onward

VisitOf(path) == CHOOSE V : IsVisit(V, path)

LEMMA VisitIs ==
  ASSUME Redirected, NEW path
  PROVE  LET V == VisitOf(path)
             N == Cardinality(DOMAIN redirects)
         IN  /\ Visit(path) = (UNION {Resolve(p) : p \in UNION {V[n] : n \in 0..N}}) \ {NotFound}
             /\ V[0] = {path} /\ \A n \in 1..N : V[n] = Onward(V[n - 1])
<1> DEFINE V == VisitOf(path)
           N == Cardinality(DOMAIN redirects)
           E(n) == IF n = 0 THEN {path} ELSE Onward(V[n - 1])
<1>0. N \in Nat
  BY FS_CardinalityType DEF Redirected
<1>1. IsVisit(V, path)
  BY VisitExists DEF VisitOf
<1>2. V = [n \in 0..N |-> E(n)]
  BY <1>1 DEF IsVisit, Onward
<1>3. DOMAIN V = 0..N /\ \A n \in 0..N : V[n] = E(n)
  <2> HIDE DEF V, E
  <2> QED BY <1>2
<1>4. Visit(path) = (UNION {Resolve(p) : p \in UNION {V[n] : n \in DOMAIN V}}) \ {NotFound}
  BY DEF Visit, VisitOf, IsVisit
<1>5. 0 \in 0..N /\ \A n \in 1..N : n \in 0..N /\ n # 0
  BY <1>0
<1> HIDE DEF V, N
<1> QED BY <1>3, <1>4, <1>5 DEF V, N

\* A path with a segment that is no slug leads nowhere.
LEMMA NoSlugNoPage ==
  ASSUME Types, NEW path \in Seq(Title), NEW k \in DOMAIN path, SlugOf[path[k]] # path[k]
  PROVE  Resolve(path) = {NotFound}
<1> DEFINE W == Walk(path)
           n == Len(path)
<1>1. n \in Nat \ {0} /\ k \in 1..n /\ path[k] \in Title /\ n - 1 \in Nat
  BY DEF n
<1>2. W[0] = {NoFolder} /\ \A m \in 1..n : W[m] = UNION {Matching(p, path[m]) : p \in W[m - 1]}
  <2>1. Len(path) \in Nat
    OBVIOUS
  <2> QED BY <2>1, WalkIs
<1>3. path[k] \notin Slug
  BY <1>1, TitleAssumption
<1>4. \A p : Matching(p, path[k]) = {}
  BY <1>3 DEF Types, TreeTypeOK, FolderRow, Matching
<1>5. \A g \in DOMAIN galleries : galleries[g].slug # path[k]
  BY <1>3 DEF Types, TreeTypeOK, GalleryRow
<1>6. W[k] = {}
  <2> HIDE DEF W, n
  <2> QED BY <1>1, <1>2, <1>4
<1> DEFINE T == {m \in 0..n : W[m] = {}}
<1>7. PICK j \in T : \A m \in T : j <= m
  <2>1. T \in SUBSET Nat /\ k \in T
    BY <1>1, <1>6
  <2> HIDE DEF T
  <2> QED BY <2>1, LeastNumber
<1>8. j \in 1..n /\ j <= k /\ W[j - 1] # {} /\ W[j] = {}
  <2>1. k \in T
    BY <1>1, <1>6
  <2>2. j # 0
    BY <1>2, <1>7
  <2>3. j - 1 \notin T /\ j - 1 \in 0..n
    BY <1>7, <2>2
  <2> QED BY <1>7, <2>1, <2>2, <2>3
<1>9. PICK q \in W[j - 1] : TRUE
  BY <1>8
<1>10. Matching(q, path[j]) = {}
  <2> HIDE DEF W
  <2>1. W[j] = UNION {Matching(p, path[j]) : p \in W[j - 1]}
    BY <1>2, <1>8
  <2> QED BY <1>8, <1>9, <2>1
<1>11. \A m \in k..n : W[m] = {}
  <2> DEFINE U == {m \in k..n : W[m] # {}}
  <2> SUFFICES ASSUME U # {} PROVE FALSE
    OBVIOUS
  <2>1. PICK m \in U : \A u \in U : m <= u
    <3>1. U \in SUBSET Nat
      BY <1>1
    <3> HIDE DEF U
    <3> QED BY <3>1, LeastNumber
  <2>2. m # k
    BY <1>6, <2>1
  <2>3. m \in 1..n /\ m - 1 \in k..n /\ m - 1 \notin U
    BY <1>1, <2>1, <2>2
  <2>4. W[m - 1] = {}
    BY <2>3
  <2> HIDE DEF W
  <2> QED BY <1>2, <2>1, <2>3, <2>4
<1>12. \A p \in W[n - 1] : LastGallery(path, p) = {}
  <2>1. CASE k = n
    BY <1>5, <2>1 DEF LastGallery
  <2>2. CASE k # n
    <3>1. n - 1 \in k..n
      BY <1>1, <2>2
    <3> QED BY <1>11, <3>1
  <2> QED BY <2>1, <2>2
<1>13. ~ (j = n /\ LastGallery(path, q) # {})
  BY <1>9, <1>12
<1>14. n \in k..n
  BY <1>1
<1>15. W[n] = {}
  BY <1>11, <1>14
<1>16. Resolve(path) = W[n] \cup (UNION {LastGallery(path, p) : p \in W[n - 1]}) \cup {NotFound}
  <2>1. \E m \in 1..Len(path) : \E p \in W[m - 1] : Matching(p, path[m]) = {} /\ ~ (m = Len(path) /\ LastGallery(path, p) # {})
    BY <1>8, <1>9, <1>10, <1>13
  <2> QED BY <2>1 DEF Resolve
<1> DEFINE L == UNION {LastGallery(path, p) : p \in W[n - 1]}
<1> HIDE DEF W, n
<1>17. L = {}
  BY <1>12
<1> HIDE DEF L
<1>18. Resolve(path) = W[n] \cup L \cup {NotFound}
  BY <1>16 DEF L
<1> QED BY <1>15, <1>17, <1>18

\* An old link whose redirect leads to a page opens that page.
LEMMA VisitLeadsOn ==
  ASSUME Types, Redirected, NEW path \in DOMAIN redirects, NEW g, g # NotFound, Resolve(SlugsOf(path)) = {g}
  PROVE  Visit(path) = {g}
<1> DEFINE V == VisitOf(path)
           N == Cardinality(DOMAIN redirects)
           new == SlugsOf(path)
           U == UNION {V[n] : n \in 0..N}
<1>1. path \in Seq(Title) /\ redirects[path] = new
  BY DEF Redirected
<1>2. /\ Visit(path) = (UNION {Resolve(p) : p \in U}) \ {NotFound}
      /\ V[0] = {path} /\ \A n \in 1..N : V[n] = Onward(V[n - 1])
  BY VisitIs
<1>3. N \in Nat /\ N # 0
  BY FS_CardinalityType, FS_EmptySet DEF Redirected
<1>4. path = new \/ Resolve(path) = {NotFound}
  <2>1. CASE \E k \in DOMAIN path : SlugOf[path[k]] # path[k]
    BY <1>1, <2>1, NoSlugNoPage
  <2>2. CASE \A k \in DOMAIN path : SlugOf[path[k]] = path[k]
    <3>1. path = [k \in DOMAIN path |-> path[k]]
      BY <1>1
    <3> QED BY <2>2, <3>1 DEF SlugsOf
  <2> QED BY <2>1, <2>2
<1> HIDE DEF V, N, new
<1>5. Resolve(new) = {g} /\ {g} # {NotFound}
  BY DEF new
<1>6. \A P : P \subseteq {path, new} => Onward(P) \subseteq {new}
  BY <1>1, <1>5 DEF Onward
<1>7. \A n \in 0..N : V[n] \subseteq {path, new}
  <2> DEFINE T == {n \in 0..N : ~ (V[n] \subseteq {path, new})}
  <2> SUFFICES ASSUME T # {} PROVE FALSE
    OBVIOUS
  <2>1. PICK n \in T : \A m \in T : n <= m
    <3>1. T \in SUBSET Nat
      BY <1>3
    <3> HIDE DEF T
    <3> QED BY <3>1, LeastNumber
  <2>2. n # 0
    BY <1>2, <2>1
  <2>3. n \in 1..N /\ n - 1 \in 0..N /\ n - 1 \notin T
    BY <1>3, <2>1, <2>2
  <2>4. V[n - 1] \subseteq {path, new} /\ V[n] = Onward(V[n - 1])
    BY <1>2, <2>3
  <2> QED BY <1>6, <2>1, <2>4
<1>8. path \in U /\ U \subseteq {path, new}
  <2>1. 0 \in 0..N
    BY <1>3
  <2> QED BY <1>2, <1>7, <2>1
<1>9. CASE path = new
  <2>1. U = {new}
    BY <1>8, <1>9
  <2>2. UNION {Resolve(p) : p \in {new}} = {g}
    BY <1>5
  <2> HIDE DEF U
  <2>3. Visit(path) = {g} \ {NotFound}
    BY <1>2, <2>1, <2>2
  <2> QED BY <2>3
<1>10. CASE path # new
  <2>1. Resolve(path) = {NotFound}
    BY <1>4, <1>10
  <2>2. new \in Onward({path})
    BY <1>1, <2>1 DEF Onward
  <2>3. 1 \in 1..N /\ 1 - 1 = 0 /\ 1 \in 0..N
    BY <1>3
  <2>4. V[1] = Onward({path})
    BY <1>2, <2>3
  <2>5. U = {path, new}
    BY <1>8, <2>2, <2>3, <2>4
  <2> HIDE DEF U
  <2>6. UNION {Resolve(p) : p \in {path, new}} = {NotFound, g}
    BY <1>5, <2>1
  <2>7. Visit(path) = {NotFound, g} \ {NotFound}
    BY <1>2, <2>5, <2>6
  <2> QED BY <2>7
<1> QED BY <1>9, <1>10

-----------------------------------------------------------------------------
(* The gallery of an album is the one with the slugs of its path.           *)

\* The old path, below the folder "imported" if it has no folder of its own.
Names(path) == IF Len(path) = 1 THEN <<Imported>> \o path ELSE path

NamesAgree(path, names, above) ==
  /\ names \in Seq(Title) /\ Len(above) \in Nat \ {0} /\ Len(names) = Len(above) + 1
  /\ names[Len(names)] = path[Len(path)] /\ \A k \in 1..Len(above) : names[k] = above[k]

LEMMA NamesOfPath == ASSUME NEW path \in Seq(Title) \ {<< >>} PROVE NamesAgree(path, Names(path), FoldersOf(path))
<1>1. Len(path) \in Nat \ {0} /\ path \in Seq(Title)
  OBVIOUS
<1>2. CASE Len(path) = 1
  <2> DEFINE top == <<Imported>>
             both == top \o path
  <2>1. top \in Seq(Title) /\ Len(top) = 1 /\ top[1] = Imported
    BY ImportAssumption
  <2>2. \A s, t \in Seq(Title) : /\ s \o t \in Seq(Title) /\ Len(s \o t) = Len(s) + Len(t)
                                 /\ \A k \in 1..Len(s) : (s \o t)[k] = s[k]
                                 /\ \A k \in 1..Len(t) : (s \o t)[Len(s) + k] = t[k]
    OBVIOUS
  <2>3. Names(path) = both /\ FoldersOf(path) = top
    BY <1>2 DEF Names, FoldersOf
  <2> HIDE DEF top
  <2>4. /\ both \in Seq(Title) /\ Len(both) = 2 /\ both[1] = top[1] /\ both[2] = path[1]
    <3>1. both \in Seq(Title) /\ Len(both) = Len(top) + Len(path)
      BY <1>1, <2>1, <2>2
    <3>2. \A k \in 1..Len(top) : both[k] = top[k]
      BY <1>1, <2>1, <2>2
    <3>3. \A k \in 1..Len(path) : both[Len(top) + k] = path[k]
      BY <1>1, <2>1, <2>2
    <3>4. 1 \in 1..Len(top) /\ 1 \in 1..Len(path) /\ Len(top) + 1 = 2 /\ Len(top) + Len(path) = 2
      BY <1>2, <2>1
    <3> HIDE DEF both
    <3> QED BY <3>1, <3>2, <3>3, <3>4
  <2> HIDE DEF both
  <2>5. \A k \in 1..Len(top) : k = 1
    BY <2>1
  <2>6. /\ Len(both) = Len(top) + 1 /\ both[Len(both)] = path[Len(path)] /\ Len(top) \in Nat \ {0}
        /\ \A k \in 1..Len(top) : both[k] = top[k]
    BY <1>2, <2>1, <2>4, <2>5
  <2> QED BY <2>3, <2>4, <2>6 DEF NamesAgree
<1>3. CASE Len(path) # 1
  <2> DEFINE m == Len(path) - 1
  <2>1. m \in 1..Len(path) /\ m \in Nat \ {0} /\ m + 1 = Len(path)
    <3>1. \A n \in Nat \ {0} : n # 1 => n - 1 \in 1..n /\ n - 1 \in Nat \ {0} /\ (n - 1) + 1 = n
      OBVIOUS
    <3> QED BY <1>1, <1>3, <3>1
  <2>2. Names(path) = path /\ FoldersOf(path) = SubSeq(path, 1, m)
    BY <1>3 DEF Names, FoldersOf
  <2> HIDE DEF m
  <2>3. Len(SubSeq(path, 1, m)) = m /\ \A k \in 1..m : SubSeq(path, 1, m)[k] = path[k]
    BY <1>1, <2>1
  <2> QED BY <1>1, <2>1, <2>2, <2>3 DEF NamesAgree
<1> QED BY <1>2, <1>3

LEMMA HomeIs ==
  ASSUME Tree, Types, NEW g \in DOMAIN galleries, NEW path \in Seq(Title) \ {<< >>}
  PROVE  Home(Chain, folders, galleries, g, path) <=> GalleryPath(g) = SlugsOf(Names(path))
<1> DEFINE f == galleries[g].folder
           c == Chain[f]
           p == GalleryPath(g)
           names == Names(path)
           above == FoldersOf(path)
           q == SlugsOf(names)
<1>1. NamesAgree(path, names, above)
  BY NamesOfPath
<1>2. /\ f \in DOMAIN folders /\ Len(p) = Len(c) + 1 /\ Len(c) \in Nat \ {0} /\ p[Len(p)] = galleries[g].slug
      /\ \A k \in 1..Len(c) : p[k] = PathOf(f)[k]
  BY GalleryPathIs
<1>3. \A k \in 1..Len(c) : p[k] = folders[c[k]].slug
  BY <1>2, PathIs
<1>4. p \in Seq(Slug)
  <2>1. PathOf(f) \in Seq({folders[x].slug : x \in DOMAIN folders})
    BY <1>2, PathIs
  <2>2. {folders[x].slug : x \in DOMAIN folders} \subseteq Slug
    BY DEF Types, TreeTypeOK, FolderRow
  <2>3. PathOf(f) \in Seq(Slug)
    <3>1. \A A, B : A \subseteq B => \A s \in Seq(A) : s \in Seq(B)
      OBVIOUS
    <3> HIDE DEF f
    <3> QED BY <2>1, <2>2, <3>1
  <2>4. galleries[g].slug \in Slug
    BY DEF Types, TreeTypeOK, GalleryRow
  <2> QED BY <2>3, <2>4 DEF GalleryPath
<1>5. q \in Seq(Slug) /\ Len(q) = Len(names) /\ \A k \in 1..Len(names) : q[k] = SlugOf[names[k]]
  <2>1. names \in Seq(Title)
    BY <1>1 DEF NamesAgree
  <2>2. \A s \in Seq(Title) : SlugsOf(s) \in Seq(Slug) /\ Len(SlugsOf(s)) = Len(s)
                              /\ \A k \in 1..Len(s) : SlugsOf(s)[k] = SlugOf[s[k]]
    BY DEF SlugsOf, Slug
  <2> HIDE DEF names
  <2> QED BY <2>1, <2>2
<1>6. Len(p) \in Nat /\ Len(q) \in Nat /\ Len(above) \in Nat \ {0} /\ Len(names) = Len(above) + 1
  BY <1>1, <1>4, <1>5 DEF NamesAgree
<1>7. p = q <=> Len(p) = Len(q) /\ \A k \in 1..Len(p) : p[k] = q[k]
  <2> HIDE DEF p, q
  <2> QED BY <1>4, <1>5
<1>8. Home(Chain, folders, galleries, g, path) <=>
        Len(c) = Len(above) /\ (\A k \in 1..Len(above) : folders[c[k]].slug = SlugOf[above[k]])
          /\ galleries[g].slug = SlugOf[path[Len(path)]]
  BY <1>2, <1>6 DEF Home, Leads
<1> HIDE DEF f, c, p, names, above, q
<1>9. ASSUME Len(c) = Len(above)
      PROVE  (\A k \in 1..Len(p) : p[k] = q[k]) <=>
               (\A k \in 1..Len(above) : folders[c[k]].slug = SlugOf[above[k]]) /\ galleries[g].slug = SlugOf[path[Len(path)]]
  <2> DEFINE m == Len(above)
  <2>1. m \in Nat /\ Len(p) = m + 1 /\ Len(names) = m + 1 /\ Len(c) = m
    BY <1>2, <1>6, <1>9
  <2>2. \A k \in 1..m : p[k] = folders[c[k]].slug /\ q[k] = SlugOf[above[k]]
    <3>1. \A k \in 1..m : names[k] = above[k] /\ k \in 1..Len(names)
      BY <1>1, <2>1 DEF NamesAgree
    <3> QED BY <1>3, <1>5, <2>1, <3>1
  <2>3. p[m + 1] = galleries[g].slug /\ q[m + 1] = SlugOf[path[Len(path)]]
    <3>1. m + 1 \in 1..Len(names)
      BY <2>1
    <3> QED BY <1>1, <1>2, <1>5, <2>1, <3>1 DEF NamesAgree
  <2>4. \A k : k \in 1..(m + 1) <=> k \in 1..m \/ k = m + 1
    BY <2>1
  <2> HIDE DEF m
  <2>5. (\A k \in 1..(m + 1) : p[k] = q[k]) <=> (\A k \in 1..m : p[k] = q[k]) /\ p[m + 1] = q[m + 1]
    BY <2>4
  <2> QED BY <2>1, <2>2, <2>3, <2>5 DEF m
<1>10. Len(p) = Len(q) <=> Len(c) = Len(above)
  BY <1>2, <1>5, <1>6
<1> QED BY <1>7, <1>8, <1>9, <1>10 DEF p, q, names

\* Once a publishing import has ended and while nothing was renamed or deleted, an
\* album's old link opens its gallery if siblings share no slug (import.ts,
\* [...path]/page.tsx), for every set of albums and whatever redirects there are.
THEOREM OldLinksHold == Spec => []OldLinksLeadOn
<1> DEFINE IInv == Tree /\ Records /\ Types /\ Places /\ Redirected
<1>1. Init => IInv
  BY TreeStart, RecordsStart, TypesStart, PlacesStart, RedirectedStart
<1>2. IInv /\ [Next]_siteVars => IInv'
  BY TreeStep, RecordsStep, TypesStep, PlacesStep, RedirectedStep
<1>3. IInv => OldLinksLeadOn
  <2> SUFFICES ASSUME IInv, ~ reshaped, ~ SlugClash, NEW n \in DOMAIN import.albums, Finished(n),
                      Len(UrlPath[import.albums[n].album]) > 1
               PROVE  \E g \in GalleryOf(import.albums[n].album) :
                        Visit(UrlPath[import.albums[n].album]) = {g} \/ galleries[g].visibility = "private"
                          \/ ~ galleries[g].published
    BY DEF OldLinksLeadOn
  <2> DEFINE a == import.albums[n].album
             path == UrlPath[a]
  <2>1. path \in Seq(Title) \ {<< >>}
    <3>1. IsImport(import)
      BY DEF Types, ImportTypes
    <3>2. import.albums \in Seq(Walked)
      BY <3>1 DEF IsImport, ImportState
    <3>3. import.albums[n] \in Walked
      BY <3>2
    <3> QED BY <3>3, ImportAssumption DEF Walked
  <2>2. n \in Over(import)
    <3>1. import.at = "done" /\ import.next > Len(import.albums) /\ IsImport(import)
      BY DEF Finished, Places, Placed, Behind, Types, ImportTypes
    <3>2. import.albums \in Seq(Walked) /\ import.next \in Nat
      BY <3>1 DEF IsImport, ImportState
    <3> QED BY <3>1, <3>2 DEF Over
  <2>3. path \in DOMAIN redirects /\ \E g : Home(Chain, folders, galleries, g, path)
    BY <2>2 DEF Places, Placed, Behind, Pathname
  <2>4. PICK g : Home(Chain, folders, galleries, g, path)
    BY <2>3
  <2>5. g \in DOMAIN galleries /\ g \in Gallery /\ g # NotFound
    BY <2>4, SceneAssumption DEF Home, Types, TreeTypeOK
  <2> HIDE DEF path
  <2>6. GalleryPath(g) = SlugsOf(Names(path)) /\ Names(path) = path
    <3>1. GalleryPath(g) = SlugsOf(Names(path))
      BY <2>1, <2>4, <2>5, HomeIs
    <3>2. Len(path) # 1
      <4>1. Len(path) \in Nat /\ Len(path) > 1
        BY <2>1 DEF path
      <4>2. \A k \in Nat : k > 1 => k # 1
        OBVIOUS
      <4> QED BY <4>1, <4>2
    <3> QED BY <3>1, <3>2 DEF Names
  <2>7. g \in GalleryOf(a)
    BY <2>5, <2>6 DEF GalleryOf, SlugsOf, Names, path
  <2>8. ASSUME galleries[g].published, galleries[g].visibility # "private" PROVE Visit(path) = {g}
    <3>1. Resolve(SlugsOf(path)) = {g}
      BY <2>5, <2>6, <2>8, GalleryResolves
    <3> QED BY <2>3, <2>5, <3>1, VisitLeadsOn
  <2>9. galleries[g].visibility = "private" \/ ~ galleries[g].published \/ Visit(path) = {g}
    BY <2>8
  <2> QED BY <2>7, <2>9 DEF path
<1> QED BY <1>1, <1>2, <1>3, PTL DEF Spec

-----------------------------------------------------------------------------
(* What is on record of an album.                                          *)

\* f counts up what is exported of album a, image by image (export.ts).
IsGathered(f, a) == f = [n \in 0..Len(ImagesOf[a]) |->
  IF n = 0 THEN << >> ELSE IF ImagesOf[a][n] \in Unsupported THEN f[n - 1] ELSE Append(f[n - 1], ImagesOf[a][n])]

\* The first n images of an album, without those of a type that is not exported.
Gathered(a) ==
  LET f[n \in 0..Len(ImagesOf[a])] ==
        IF n = 0 THEN << >> ELSE IF ImagesOf[a][n] \in Unsupported THEN f[n - 1] ELSE Append(f[n - 1], ImagesOf[a][n])
  IN  f
Full(a) == Gathered(a)[Len(ImagesOf[a])]

\* There is such a function: an iterate of the exporter's step.
LEMMA GatheredExists == ASSUME NEW a \in Album PROVE \E f : IsGathered(f, a)
<1> DEFINE S == Seq(Image)
           is == ImagesOf[a]
           N == Len(is)
           next(x) == IF x[1] \notin 1..N THEN x[2] ELSE IF is[x[1]] \in Unsupported THEN x[2] ELSE Append(x[2], is[x[1]])
           step == [x \in Nat \X S |-> next(x)]
<1>1. is \in Seq(Image) /\ N \in Nat
  BY SceneAssumption
<1>2. IsStep(S, << >>, step)
  <2>1. ASSUME NEW x \in Nat \X S PROVE next(x) \in S
    <3>1. x[2] \in Seq(Image) /\ (x[1] \in 1..N => is[x[1]] \in Image)
      BY <1>1, <2>1
    <3> QED BY <3>1
  <2>2. << >> \in S
    OBVIOUS
  <2> HIDE DEF next, S
  <2> QED BY <2>1, <2>2 DEF IsStep
<1>3. \A n \in 1..N, s \in S : step[<<n, s>>] = IF is[n] \in Unsupported THEN s ELSE Append(s, is[n])
  <2> SUFFICES ASSUME NEW n \in 1..N, NEW s \in S PROVE step[<<n, s>>] = IF is[n] \in Unsupported THEN s ELSE Append(s, is[n])
    OBVIOUS
  <2> DEFINE x == <<n, s>>
  <2>1. x \in Nat \X S /\ x[1] = n /\ x[2] = s
    BY <1>1
  <2> HIDE DEF x
  <2>2. step[x] = next(x)
    BY <2>1
  <2> QED BY <2>1, <2>2 DEF x
<1> HIDE DEF S, step
<1>4. PICK f : IsIterate(f, N, << >>, step)
  BY <1>1, <1>2, IterateExists
<1>5. DOMAIN f = 0..N /\ f[0] = << >> /\ (\A n \in 1..N : f[n] = step[<<n, f[n - 1]>>]) /\ f \in [0..N -> S]
  BY <1>1, <1>2, <1>4, IterateIs
<1> DEFINE E(n) == IF n = 0 THEN << >> ELSE IF is[n] \in Unsupported THEN f[n - 1] ELSE Append(f[n - 1], is[n])
<1> HIDE DEF is, N, next
<1>6. ASSUME NEW n \in 0..N PROVE f[n] = E(n)
  <2>1. CASE n = 0
    BY <1>5, <2>1
  <2>2. CASE n # 0
    <3>1. n \in 1..N /\ n - 1 \in 0..N
      BY <1>1, <2>2
    <3>2. f[n - 1] \in S
      BY <1>5, <3>1
    <3>3. f[n] = IF is[n] \in Unsupported THEN f[n - 1] ELSE Append(f[n - 1], is[n])
      BY <1>3, <1>5, <3>1, <3>2
    <3> QED BY <2>2, <3>3
  <2> QED BY <2>1, <2>2
<1>7. f = [n \in 0..N |-> f[n]]
  BY <1>5
<1> HIDE DEF E
<1>8. f = [n \in 0..N |-> E(n)]
  BY <1>6, <1>7
<1> QED BY <1>8 DEF E, IsGathered, is, N

\* What it is for one image more.
LEMMA GatheredIs ==
  ASSUME NEW a \in Album
  PROVE  /\ Gathered(a)[0] = << >>
         /\ \A n \in 1..Len(ImagesOf[a]) :
              Gathered(a)[n] = IF ImagesOf[a][n] \in Unsupported THEN Gathered(a)[n - 1]
                               ELSE Append(Gathered(a)[n - 1], ImagesOf[a][n])
<1> DEFINE f == Gathered(a)
           N == Len(ImagesOf[a])
           E(n) == IF n = 0 THEN << >> ELSE IF ImagesOf[a][n] \in Unsupported THEN f[n - 1] ELSE Append(f[n - 1], ImagesOf[a][n])
<1>0. N \in Nat
  BY SceneAssumption
<1>1. IsGathered(f, a)
  BY GatheredExists DEF Gathered, IsGathered
<1>2. f = [n \in 0..N |-> E(n)]
  BY <1>1 DEF IsGathered
<1>3. \A n \in 0..N : f[n] = E(n)
  <2> HIDE DEF f, E
  <2> QED BY <1>2
<1>4. 0 \in 0..N /\ \A n \in 1..N : n \in 0..N /\ n # 0
  BY <1>0
<1> HIDE DEF f
<1> QED BY <1>3, <1>4 DEF f

\* As long as no download or listing failed for good, all that is on record of an
\* album is all of it in its order, and no excluded album is in a manifest.
ExactOnes(as) == \A a \in DOMAIN as : as[a] = Full(a)
Exact(s) == \A n \in DOMAIN s : s[n].album \notin Excluded /\ s[n].images = Full(s[n].album)

Copying(r) ==
  LET a == Albums[r.next] IN
  r.at \in {"images", "file"} =>
    a \notin Excluded /\ r.image <= Len(ImagesOf[a]) + 1 /\ r.got = Gathered(a)[r.image - 1]

\* The same of what lies on disk, unless it is missing or torn.
RecordExact(p) == p \notin {Missing, Torn} => ExactOnes(p.albums)
ManifestExact(m) == m \notin {Missing, Torn} => Exact(m)
HoldsExact(r) == ExactOnes(r.memory.albums) /\ Exact(r.walked) /\ Copying(r)

\* No request failed for good: every record and every list in memory is exact.
Complete == outages = 0 =>
  RecordExact(progress) /\ ManifestExact(manifest) /\ HoldsExact(export) /\ Exact(import.albums)

\* One exact album more.
LEMMA ExactAppend ==
  ASSUME NEW w \in Seq(Walked), Exact(w), NEW a \in Album, a \notin Excluded, Full(a) \in Seq(Exportable)
  PROVE  Exact(Append(w, [album |-> a, images |-> Full(a)]))
<1> DEFINE e == [album |-> a, images |-> Full(a)]
           v == Append(w, e)
<1>1. e \in Walked /\ e.album = a /\ e.images = Full(a)
  BY DEF Walked
<1> HIDE DEF e
<1>2. DOMAIN v = 1..(Len(w) + 1) /\ v[Len(w) + 1] = e /\ \A k \in 1..Len(w) : v[k] = w[k]
  BY <1>1
<1>3. \A k \in 1..(Len(w) + 1) : k = Len(w) + 1 \/ k \in 1..Len(w)
  OBVIOUS
<1>4. DOMAIN w = 1..Len(w)
  OBVIOUS
<1> HIDE DEF v
<1> QED BY <1>1, <1>2, <1>3, <1>4 DEF Exact, v, e

\* What the exporter holds and writes stays exact: got follows Gathered image by image.
LEMMA ExportComplete ==
  ASSUME Types, Records, Complete, ExportNext, outages' = 0
  PROVE  outages = 0 /\ RecordExact(progress') /\ ManifestExact(manifest') /\ HoldsExact(export')
<1> DEFINE r == export
           r2 == export'
<1>0. IsExport(export) /\ Disk /\ Limits
  BY DEF Types, ExportTypes
<1>1. ~ SkipImage /\ ~ SkipAlbum
  BY <1>0 DEF SkipImage, SkipAlbum, Outage, Limits
<1>2. outages = 0
  BY <1>1 DEF ExportNext, StartExport, PassAlbum, OpenAlbum, PassImage, DownloadImage, RecordImage, BeginProgress,
     BeginManifest, EndManifest, FinishExport, CrashExport
<1>3. RecordExact(progress) /\ ManifestExact(manifest) /\ HoldsExact(export)
  BY <1>2 DEF Complete
<1>4. DOMAIN r = {"at", "next", "image", "got", "memory", "walked"}
  BY <1>0 DEF IsExport
<1>5. r.walked \in Seq(Walked) /\ IsRecord(r.memory)
  BY <1>0 DEF IsExport
<1>6. ASSUME r.at \in {"images", "file"}
      PROVE  Current \in Album /\ Current = Albums[r.next] /\ r.next \in DOMAIN Albums /\ Len(ImagesOf[Current]) \in Nat
             /\ r.image \in Nat \ {0}
  <2>1. r.next \in DOMAIN Albums /\ r.image \in Nat \ {0}
    BY <1>0, <1>6 DEF IsExport, InAlbum
  <2>2. Current \in Album /\ ImagesOf[Current] \in Seq(Image)
    BY <1>0, <2>1, CurrentTypes
  <2> QED BY <2>1, <2>2 DEF Current
<1>7. ASSUME r.at \in {"images", "file"}, r.image <= Len(ImagesOf[Current])
      PROVE  Gathered(Current)[r.image] = IF CurrentImage \in Unsupported THEN r.got ELSE Append(r.got, CurrentImage)
  <2>1. r.image \in 1..Len(ImagesOf[Current])
    BY <1>6, <1>7
  <2>2. r.got = Gathered(Current)[r.image - 1]
    BY <1>3, <1>7 DEF HoldsExact, Copying, Current
  <2> QED BY <1>6, <1>7, <2>1, <2>2, GatheredIs DEF CurrentImage
<1>8. ASSUME UNCHANGED <<progress, manifest>>, HoldsExact(r2) PROVE RecordExact(progress') /\ ManifestExact(manifest') /\ HoldsExact(r2)
  BY <1>3, <1>8
<1>9. ASSUME r2.memory = r.memory, r2.walked = r.walked, r2.at \notin {"images", "file"} PROVE HoldsExact(r2)
  BY <1>3, <1>9 DEF HoldsExact, Copying
<1>10. CASE StartExport
  <2> DEFINE m == Load(progress)
  <2>1. r2 = [Down EXCEPT !.at = "walk", !.memory = m]
    BY <1>10 DEF StartExport
  <2>2. ExactOnes(m.albums)
    BY <1>3 DEF Load, Nothing, RecordExact, ExactOnes
  <2> HIDE DEF m
  <2>3. r2.memory = m /\ r2.walked = << >> /\ r2.at = "walk"
    BY <2>1 DEF Down
  <2>4. Exact(<< >>)
    BY DEF Exact
  <2> QED BY <1>2, <1>8, <1>10, <2>2, <2>3, <2>4 DEF StartExport, HoldsExact, Copying
<1>11. CASE PassAlbum
  <2>1. UNCHANGED <<progress, manifest>> /\ r.at = "walk" /\ r.next <= Len(Albums)
    BY <1>11 DEF PassAlbum
  <2>2. CASE r2 = [r EXCEPT !.next = r.next + 1]
    <3>1. r2.memory = r.memory /\ r2.walked = r.walked /\ r2.at = "walk"
      BY <1>4, <2>1, <2>2
    <3> QED BY <1>2, <1>8, <1>9, <2>1, <3>1
  <2>3. CASE /\ Current \notin Excluded /\ Current \in DOMAIN r.memory.albums
             /\ r2 = [r EXCEPT !.next = r.next + 1,
                  !.walked = Append(r.walked, [album |-> Current, images |-> r.memory.albums[Current]])]
    <3> DEFINE w == Append(r.walked, [album |-> Current, images |-> r.memory.albums[Current]])
    <3>1. r.memory.albums[Current] = Full(Current) /\ Current \in Album /\ Full(Current) \in Seq(Exportable)
      BY <1>3, <1>5, <2>3 DEF HoldsExact, ExactOnes, IsRecord
    <3>2. Exact(w)
      BY <1>3, <1>5, <2>3, <3>1, ExactAppend DEF HoldsExact
    <3> HIDE DEF w
    <3>3. r2 = [r EXCEPT !.next = r.next + 1, !.walked = w]
      BY <2>3 DEF w
    <3>4. r2.memory = r.memory /\ r2.walked = w /\ r2.at = "walk"
      BY <1>4, <2>1, <3>3
    <3>5. HoldsExact(r2)
      BY <1>3, <3>2, <3>4 DEF HoldsExact, Copying
    <3> QED BY <1>2, <1>8, <2>1, <3>5
  <2> QED BY <1>11, <2>2, <2>3 DEF PassAlbum
<1>12. CASE OpenAlbum
  <2>1. /\ UNCHANGED <<progress, manifest>> /\ r.at = "walk" /\ r.next <= Len(Albums) /\ Current \notin Excluded
        /\ r2 = [r EXCEPT !.at = "images", !.image = 1, !.got = << >>]
    BY <1>12 DEF OpenAlbum
  <2>2. r2.memory = r.memory /\ r2.walked = r.walked /\ r2.image = 1 /\ r2.got = << >> /\ r2.next = r.next
    BY <1>4, <2>1
  <2>3. Current \in Album /\ Len(ImagesOf[Current]) \in Nat /\ Gathered(Current)[0] = << >>
    <3>1. r.next \in DOMAIN Albums
      BY <1>0, <2>1, SceneAssumption DEF IsExport
    <3>2. Current \in Album /\ ImagesOf[Current] \in Seq(Image)
      BY <1>0, <3>1, CurrentTypes
    <3> QED BY <3>2, GatheredIs
  <2>4. Copying(r2)
    <3>1. 1 <= Len(ImagesOf[Current]) + 1 /\ 1 - 1 = 0
      BY <2>3
    <3> QED BY <2>1, <2>2, <2>3, <3>1 DEF Copying, Current
  <2>5. HoldsExact(r2)
    BY <1>3, <2>2, <2>4 DEF HoldsExact
  <2> QED BY <1>2, <1>8, <2>1, <2>5
<1>13. ASSUME r.at \in {"images", "file"}, r.image <= Len(ImagesOf[Current]), r2.at = "images", r2.next = r.next,
              r2.image = r.image + 1, r2.got = IF CurrentImage \in Unsupported THEN r.got ELSE Append(r.got, CurrentImage)
       PROVE  Copying(r2)
  <2>1. r2.image - 1 = r.image /\ r2.image <= Len(ImagesOf[Current]) + 1
    BY <1>6, <1>13
  <2>2. Current \notin Excluded
    BY <1>3, <1>13 DEF HoldsExact, Copying, Current
  <2> QED BY <1>7, <1>13, <2>1, <2>2 DEF Copying, Current
<1>14. CASE PassImage
  <2>1. UNCHANGED <<progress, manifest>> /\ r.at = "images" /\ r.image <= Len(ImagesOf[Current])
    BY <1>14 DEF PassImage
  <2>2. CASE CurrentImage \in r.memory.images
             /\ r2 = [r EXCEPT !.image = r.image + 1, !.got = Append(r.got, CurrentImage)]
    <3>1. CurrentImage \notin Unsupported
      BY <1>5, <2>2 DEF IsRecord, Exportable
    <3>2. /\ r2.memory = r.memory /\ r2.walked = r.walked /\ r2.at = "images" /\ r2.next = r.next
          /\ r2.image = r.image + 1 /\ r2.got = Append(r.got, CurrentImage)
      BY <1>4, <2>1, <2>2
    <3>3. Copying(r2)
      BY <1>13, <2>1, <3>1, <3>2
    <3>4. HoldsExact(r2)
      BY <1>3, <3>2, <3>3 DEF HoldsExact
    <3> QED BY <1>2, <1>8, <2>1, <3>4
  <2>3. CASE CurrentImage \in Unsupported /\ r2 = [r EXCEPT !.image = r.image + 1]
    <3>1. /\ r2.memory = r.memory /\ r2.walked = r.walked /\ r2.at = "images" /\ r2.next = r.next
          /\ r2.image = r.image + 1 /\ r2.got = r.got
      BY <1>4, <2>1, <2>3
    <3>2. Copying(r2)
      BY <1>13, <2>1, <2>3, <3>1
    <3>3. HoldsExact(r2)
      BY <1>3, <3>1, <3>2 DEF HoldsExact
    <3> QED BY <1>2, <1>8, <2>1, <3>3
  <2> QED BY <1>14, <2>2, <2>3 DEF PassImage
<1>15. CASE DownloadImage
  <2>1. UNCHANGED <<progress, manifest>> /\ r.at = "images" /\ r2 = [r EXCEPT !.at = "file"]
    BY <1>15 DEF DownloadImage, Go
  <2>2. /\ r2.memory = r.memory /\ r2.walked = r.walked /\ r2.next = r.next /\ r2.image = r.image /\ r2.got = r.got
    BY <1>4, <2>1
  <2>3. HoldsExact(r2)
    BY <1>3, <2>1, <2>2 DEF HoldsExact, Copying
  <2> QED BY <1>2, <1>8, <2>1, <2>3
<1>16. CASE RecordImage
  <2> DEFINE m == [images |-> r.memory.images \cup {CurrentImage}, albums |-> r.memory.albums]
             g == Append(r.got, CurrentImage)
  <2>1. UNCHANGED <<progress, manifest>> /\ r.at = "file"
    BY <1>16 DEF RecordImage
  <2>2. r.image \in DOMAIN ImagesOf[Current] /\ CurrentImage \notin Unsupported
    BY <2>1 DEF Records, Inside
  <2>3. r.image <= Len(ImagesOf[Current])
    <3>1. ImagesOf[Current] \in Seq(Image)
      BY <1>6, <2>1, SceneAssumption
    <3> QED BY <2>2, <3>1
  <2>4. m.albums = r.memory.albums
    OBVIOUS
  <2> HIDE DEF m, g
  <2>5. r2 = [r EXCEPT !.at = "images", !.image = r.image + 1, !.got = g, !.memory = m]
    BY <1>16 DEF RecordImage, m, g
  <2>6. /\ r2.memory = m /\ r2.walked = r.walked /\ r2.at = "images" /\ r2.next = r.next
        /\ r2.image = r.image + 1 /\ r2.got = g
    BY <1>4, <2>5
  <2>7. Copying(r2)
    BY <1>13, <2>1, <2>2, <2>3, <2>6 DEF g
  <2>8. HoldsExact(r2)
    BY <1>3, <2>4, <2>6, <2>7 DEF HoldsExact
  <2> QED BY <1>2, <1>8, <2>1, <2>8
<1>17. CASE BeginProgress
  <2>1. manifest' = manifest /\ progress' = Torn /\ r.at = "images" /\ r.image > Len(ImagesOf[Current])
    BY <1>17 DEF BeginProgress
  <2>2. r.got = Full(Current) /\ Current \notin Excluded /\ Current \in Album
    <3>1. r.image <= Len(ImagesOf[Current]) + 1 /\ Current \notin Excluded /\ r.got = Gathered(Current)[r.image - 1]
      BY <1>3, <2>1 DEF HoldsExact, Copying, Current
    <3>2. r.image - 1 = Len(ImagesOf[Current]) /\ Current \in Album
      <4>1. r.image \in Nat /\ Len(ImagesOf[Current]) \in Nat /\ Current \in Album
        BY <1>6, <2>1
      <4>2. \A n, k \in Nat : n > k /\ n <= k + 1 => n - 1 = k
        OBVIOUS
      <4> QED BY <2>1, <3>1, <4>1, <4>2
    <3> QED BY <3>1, <3>2 DEF Full
  <2> DEFINE w == Append(r.walked, [album |-> Current, images |-> r.got])
             as == [a \in DOMAIN r.memory.albums \cup {Current} |-> IF a = Current THEN r.got ELSE r.memory.albums[a]]
             m == [images |-> r.memory.images, albums |-> as]
  <2>3. Exact(w)
    <3>1. r.got \in Seq(Exportable)
      BY <1>0 DEF IsExport
    <3> QED BY <1>3, <1>5, <2>2, <3>1, ExactAppend DEF HoldsExact
  <2>4. ExactOnes(as)
    BY <1>3, <2>2 DEF HoldsExact, ExactOnes
  <2>5. m.albums = as
    OBVIOUS
  <2> HIDE DEF w, as, m
  <2>6. r2 = [r EXCEPT !.at = "progress", !.walked = w, !.memory = m]
    BY <1>17 DEF BeginProgress, w, as, m
  <2>7. r2.memory = m /\ r2.walked = w /\ r2.at = "progress"
    BY <1>4, <2>6
  <2>8. HoldsExact(r2)
    BY <2>3, <2>4, <2>5, <2>7 DEF HoldsExact, Copying
  <2> QED BY <1>2, <1>3, <2>1, <2>8 DEF RecordExact
<1>18. CASE BeginManifest
  <2>1. progress' = r.memory /\ manifest' = Torn /\ r2 = [r EXCEPT !.at = "manifest"]
    BY <1>18 DEF BeginManifest, Go
  <2>2. r2.memory = r.memory /\ r2.walked = r.walked /\ r2.at = "manifest"
    BY <1>4, <2>1
  <2> QED BY <1>2, <1>3, <1>9, <2>1, <2>2 DEF RecordExact, ManifestExact, HoldsExact
<1>19. CASE EndManifest
  <2>1. progress' = progress /\ manifest' = r.walked /\ r2 = [r EXCEPT !.at = "walk", !.next = r.next + 1]
    BY <1>19 DEF EndManifest
  <2>2. r2.memory = r.memory /\ r2.walked = r.walked /\ r2.at = "walk"
    BY <1>4, <2>1
  <2> QED BY <1>2, <1>3, <1>9, <2>1, <2>2 DEF ManifestExact, HoldsExact
<1>20. CASE FinishExport
  <2>1. UNCHANGED <<progress, manifest>> /\ r2 = [r EXCEPT !.at = "done"]
    BY <1>20 DEF FinishExport, Go
  <2>2. r2.memory = r.memory /\ r2.walked = r.walked /\ r2.at = "done"
    BY <1>4, <2>1
  <2> QED BY <1>2, <1>8, <1>9, <2>1, <2>2
<1>21. CASE CrashExport
  <2>1. UNCHANGED <<progress, manifest>> /\ r2 = Down
    BY <1>21 DEF CrashExport
  <2>2. HoldsExact(Down)
    BY DEF HoldsExact, Down, Nothing, ExactOnes, Exact, Copying
  <2> QED BY <1>2, <1>8, <2>1, <2>2
<1> QED BY <1>1, <1>10, <1>11, <1>12, <1>14, <1>15, <1>16, <1>17, <1>18, <1>19, <1>20, <1>21 DEF ExportNext

\* Only the exporter changes what the exporter keeps.
LEMMA ScriptsLeaveExport == ASSUME Scanning \/ Resetting \/ Ingesting \/ Operating PROVE UNCHANGED exportVars
  BY DEF Scanning, Resetting, Ingesting, Operating, ScanNext, StartScan, ScanRows, CopyOrphan, DeleteOrphan,
     AdoptOrphan, QueueOrphan, FinishScan, CrashScan, ResetNext, StartReset, ResetRow, RequeueRow, FinishReset,
     CrashReset, WorkerNext, IngestJob, OperatorNext, TurnMonth, Migrate

\* The importer reads what the exporter wrote.
LEMMA CompleteStep == ASSUME Types, Records, Complete, [Next]_siteVars PROVE Complete'
<1>1. CASE Exporting
  <2> SUFFICES ASSUME outages' = 0
               PROVE  RecordExact(progress') /\ ManifestExact(manifest') /\ HoldsExact(export') /\ Exact(import'.albums)
    BY DEF Complete
  <2>1. ExportNext /\ import' = import
    BY <1>1 DEF Exporting, importVars
  <2> QED BY <2>1, ExportComplete DEF Complete
<1>2. ASSUME UNCHANGED exportVars, outages = 0 => Exact(import'.albums) PROVE Complete'
  BY <1>2 DEF Complete, exportVars, HoldsExact, Copying
<1>3. ASSUME UNCHANGED exportVars, import' = import PROVE Complete'
  BY <1>2, <1>3 DEF Complete
<1>4. CASE Importing
  <2>1. UNCHANGED exportVars
    BY <1>4 DEF Importing, ImportNext, StartImport, BeginAlbum, FindFolder, MakeFolder, FindGallery, MakeGallery, PublishGallery,
       StoreImage, UpsertImage, QueueImage, BeginItems, InsertItem, WriteRedirect, FinishImport, CrashImport
  <2>2. ASSUME outages = 0 PROVE Exact(import'.albums)
    <3>0. Exact(import.albums) /\ ManifestExact(manifest)
      BY <2>2 DEF Complete
    <3>1. CASE StartImport
      <4>1. import'.albums = manifest /\ manifest \notin {Missing, Torn}
        BY <3>1 DEF StartImport, ImportDown
      <4> QED BY <3>0, <4>1 DEF ManifestExact
    <3>2. CASE CrashImport
      <4>1. import'.albums = << >>
        BY <3>2 DEF CrashImport, ImportDown
      <4> QED BY <4>1 DEF Exact
    <3>3. CASE ImportNext /\ ~ StartImport /\ ~ CrashImport
      <4>1. import \in ImportState
        BY DEF Types, ImportTypes, IsImport
      <4>2. import'.albums = import.albums
        BY <3>3, <4>1 DEF ImportNext, BeginAlbum, FindFolder, MakeFolder, FindGallery, MakeGallery, PublishGallery, EnterFolder,
           EnterGallery, ImportAt, SetImage, StoreImage, UpsertImage, QueueImage, BeginItems, InsertItem, WriteRedirect,
           FinishImport, ImportState
      <4> QED BY <3>0, <4>2
    <3> QED BY <1>4, <3>1, <3>2, <3>3 DEF Importing
  <2> QED BY <1>2, <2>1, <2>2
<1>5. CASE Studio \/ Dropping
  BY <1>3, <1>5 DEF Studio, Dropping, importVars
<1>6. CASE Scanning \/ Resetting \/ Ingesting \/ Operating
  <2>1. UNCHANGED importVars
    BY <1>6, ScriptsLeaveImport DEF Scanning, Resetting, Ingesting, Operating
  <2>2. UNCHANGED exportVars
    BY <1>6, ScriptsLeaveExport
  <2> QED BY <1>3, <2>1, <2>2 DEF importVars
<1>7. CASE UNCHANGED siteVars
  BY <1>3, <1>7 DEF siteVars, importVars
<1> QED BY <1>1, <1>4, <1>5, <1>6, <1>7 DEF Next

-----------------------------------------------------------------------------
(* The images of an album in its gallery.                                  *)

\* An image is where the album shows it first.
InPlace(s, i, n) == n + 1 \in DOMAIN s /\ s[n + 1] = i /\ \A m \in 1..n : s[m] # i

\* Every item of a gallery at the place of an album is in place.
Sorted(C, fs, gs, is) ==
  \A x \in DOMAIN is : \A a \in Album \ Excluded :
    Home(C, fs, gs, x[1], UrlPath[a]) => InPlace(Full(a), x[2], is[x])

Showing(r) == r.albums[r.next].images
Filling(is, r) == r.at = "items" =>
  /\ r.item <= Len(Showing(r)) + 1 /\ r.position + 1 = r.item
  /\ \A m \in 1..(r.item - 1) : <<r.gallery, Showing(r)[m]>> \in DOMAIN is

HasAll(is, g, images) == \A k \in DOMAIN images : <<g, images[k]>> \in DOMAIN is
\* Every album the importer is done with has a gallery that holds all of it.
Filled(C, fs, gs, is, r) ==
  \A n \in Over(r) : \E g : Home(C, fs, gs, g, Pathname(r, n)) /\ HasAll(is, g, r.albums[n].images)

\* All three, of a tree with chains C, folders fs, galleries gs and items is.
Orderly(C, fs, gs, is, r) == Sorted(C, fs, gs, is) /\ Filling(is, r) /\ Filled(C, fs, gs, is, r)

Undisturbed == outages = 0 /\ ~ holes /\ ~ reshaped
\* An image that was given up leaves a hole.
GivenUp == \A i \in Image : import.image[i] = "bad" => holes
Arranged == GivenUp /\ (Undisturbed => Orderly(Chain, folders, galleries, items, import))

\* A gallery that was there does not become that of an album.
LEMMA HomeBack ==
  ASSUME NEW fs, NEW gs, NEW C, NEW fs2, NEW gs2, NEW D, Parents(fs), IsChain(C, fs), IsChain(D, fs2),
         Settled(fs, gs, fs2, gs2), NEW g \in DOMAIN gs, gs[g].folder \in DOMAIN fs, NEW segments,
         Home(D, fs2, gs2, g, segments)
  PROVE  Home(C, fs, gs, g, segments)
<1> DEFINE p == gs[g].folder
           names == FoldersOf(segments)
           n == Len(names)
<1>1. gs2[g].folder = p /\ gs2[g].slug = gs[g].slug
  BY DEF Settled, Grown
<1>2. Leads(D, fs2, p, names, n) /\ gs[g].slug = SlugOf[segments[Len(segments)]]
  BY <1>1 DEF Home
<1>3. D[p] = C[p]
  BY ChainsStay DEF Settled
<1>4. C[p] \in Seq(DOMAIN fs)
  BY ChainTypes
<1> HIDE DEF p, names, n
<1>5. ASSUME n # 0 PROVE Len(C[p]) = n /\ \A k \in 1..n : fs[C[p][k]].slug = SlugOf[names[k]]
  <2>1. Len(C[p]) = n /\ \A k \in 1..n : fs2[C[p][k]].slug = SlugOf[names[k]]
    BY <1>2, <1>3, <1>5 DEF Leads
  <2>2. \A k \in 1..n : C[p][k] \in DOMAIN fs
    BY <1>4, <2>1
  <2>3. \A k \in 1..n : fs2[C[p][k]].slug = fs[C[p][k]].slug
    BY <2>2 DEF Settled
  <2> QED BY <2>1, <2>3
<1>6. Leads(C, fs, p, names, n)
  <2>1. p \in DOMAIN fs
    BY DEF p
  <2> QED BY <1>2, <1>5, <2>1 DEF Leads
<1> QED BY <1>2, <1>6 DEF Home, p, names, n

\* As long as only rows are added, everything stays arranged.
LEMMA ArrangedStays ==
  ASSUME NEW fs, NEW gs, NEW C, NEW fs2, NEW gs2, NEW D, Parents(fs), IsChain(C, fs), IsChain(D, fs2),
         Settled(fs, gs, fs2, gs2), \A g \in DOMAIN gs : gs[g].folder \in DOMAIN fs,
         NEW is, \A x \in DOMAIN is : x[1] \in DOMAIN gs, NEW r, Orderly(C, fs, gs, is, r)
  PROVE  Orderly(D, fs2, gs2, is, r)
<1>1. Sorted(D, fs2, gs2, is)
  <2> SUFFICES ASSUME NEW x \in DOMAIN is, NEW a \in Album \ Excluded, Home(D, fs2, gs2, x[1], UrlPath[a])
               PROVE  InPlace(Full(a), x[2], is[x])
    BY DEF Sorted
  <2> DEFINE g == x[1]
             path == UrlPath[a]
  <2>1. g \in DOMAIN gs /\ gs[g].folder \in DOMAIN fs /\ Home(D, fs2, gs2, g, path)
    OBVIOUS
  <2> HIDE DEF g, path
  <2>2. Home(C, fs, gs, g, path)
    BY <2>1, HomeBack
  <2> QED BY <2>2 DEF Orderly, Sorted, g, path
<1>2. Filled(D, fs2, gs2, is, r)
  <2> SUFFICES ASSUME NEW n \in Over(r)
               PROVE  \E g : Home(D, fs2, gs2, g, Pathname(r, n)) /\ HasAll(is, g, r.albums[n].images)
    BY DEF Filled
  <2> DEFINE path == Pathname(r, n)
  <2>1. PICK g : Home(C, fs, gs, g, path) /\ HasAll(is, g, r.albums[n].images)
    BY DEF Orderly, Filled
  <2> HIDE DEF path
  <2>2. Home(D, fs2, gs2, g, path)
    BY <2>1, HomeStays
  <2> QED BY <2>1, <2>2 DEF path
<1> QED BY <1>1, <1>2 DEF Orderly

\* The same of a step of someone else that adds to the tree.
LEMMA StillArranged ==
  ASSUME Tree, Tree', Arranged, RowsStay, Undisturbed, ~ reshaped'
  PROVE  Orderly(Chain', folders', galleries', items, import)
<1> DEFINE C == Chain
           D == Chain'
           r == import
<1>1. Settled(folders, galleries, folders', galleries')
  BY RowsSettle
<1>2. Parents(folders) /\ IsChain(C, folders) /\ IsChain(D, folders') /\ \A g \in DOMAIN galleries : galleries[g].folder \in DOMAIN folders
  BY TreesThen
<1>3. \A x \in DOMAIN items : x[1] \in DOMAIN galleries
  BY DEF Tree, Whole, Intact
<1>4. Orderly(C, folders, galleries, items, r)
  BY DEF Arranged
<1> HIDE DEF C, D, r
<1> QED BY <1>1, <1>2, <1>3, <1>4, ArrangedStays DEF D, r

\* One more image is inserted, or is there already.
Inserting(C, fs, gs, is, r, is2, r2) ==
  LET at == <<r.gallery, Showing(r)[r.item]>> IN
  /\ r.at = "items" /\ r.next \in DOMAIN r.albums /\ r.item \in Nat \ {0} /\ r.position \in Nat
  /\ Len(Showing(r)) \in Nat /\ DOMAIN Showing(r) = 1..Len(Showing(r)) /\ r.item <= Len(Showing(r))
  /\ is2 = IF at \in DOMAIN is THEN is ELSE [x \in DOMAIN is \cup {at} |-> IF x = at THEN r.position ELSE is[x]]
  /\ r2.albums = r.albums /\ r2.next = r.next /\ r2.gallery = r.gallery /\ r2.at = "items"
  /\ r2.item = r.item + 1 /\ r2.position = r.position + 1
  /\ \A a \in Album \ Excluded : Home(C, fs, gs, r.gallery, UrlPath[a]) => Showing(r) = Full(a)

\* Then the gallery goes on in the order of the album.
LEMMA InsertArranges ==
  ASSUME NEW fs, NEW gs, NEW C, NEW is, NEW r, NEW is2, NEW r2, Orderly(C, fs, gs, is, r),
         Inserting(C, fs, gs, is, r, is2, r2)
  PROVE  Orderly(C, fs, gs, is2, r2)
<1> SUFFICES ASSUME NEW at, at = <<r.gallery, Showing(r)[r.item]>>,
                    is2 = IF at \in DOMAIN is THEN is ELSE [x \in DOMAIN is \cup {at} |-> IF x = at THEN r.position ELSE is[x]],
                    r.at = "items", r.next \in DOMAIN r.albums, r.item \in Nat \ {0}, r.position \in Nat,
                    Len(Showing(r)) \in Nat, DOMAIN Showing(r) = 1..Len(Showing(r)), r.item <= Len(Showing(r)),
                    r2.albums = r.albums, r2.next = r.next, r2.gallery = r.gallery, r2.at = "items",
                    r2.item = r.item + 1, r2.position = r.position + 1,
                    \A a \in Album \ Excluded : Home(C, fs, gs, r.gallery, UrlPath[a]) => Showing(r) = Full(a)
             PROVE  Orderly(C, fs, gs, is2, r2)
  BY DEF Inserting
<1>1. r.position + 1 = r.item /\ \A m \in 1..(r.item - 1) : <<r.gallery, Showing(r)[m]>> \in DOMAIN is
  BY DEF Orderly, Filling
<1>2. DOMAIN is2 = DOMAIN is \cup {at} /\ \A x \in DOMAIN is : is2[x] = is[x]
  <2>1. CASE at \in DOMAIN is
    BY <2>1
  <2>2. CASE at \notin DOMAIN is
    BY <2>2
  <2> QED BY <2>1, <2>2
<1>3. at \notin DOMAIN is => is2[at] = r.position
  OBVIOUS
<1>4. Showing(r2) = Showing(r)
  BY DEF Showing
<1>5. Sorted(C, fs, gs, is2)
  <2> SUFFICES ASSUME NEW x \in DOMAIN is2, NEW a \in Album \ Excluded, Home(C, fs, gs, x[1], UrlPath[a])
               PROVE  InPlace(Full(a), x[2], is2[x])
    BY DEF Sorted
  <2>1. CASE x \in DOMAIN is
    <3>1. InPlace(Full(a), x[2], is[x])
      BY <2>1 DEF Orderly, Sorted
    <3> QED BY <1>2, <2>1, <3>1
  <2>2. CASE x \notin DOMAIN is
    <3> DEFINE s == Showing(r)
               i == s[r.item]
               n == r.position
    <3>1. x = at /\ x[1] = r.gallery /\ x[2] = i /\ is2[x] = n
      BY <1>2, <1>3, <2>2
    <3>2. s = Full(a)
      BY <3>1
    <3>3. n + 1 = r.item /\ n + 1 \in DOMAIN s /\ s[n + 1] = i /\ 1..n = 1..(r.item - 1)
      BY <1>1
    <3>4. \A m \in 1..n : s[m] # i
      BY <1>1, <2>2, <3>1, <3>3
    <3> HIDE DEF s, i, n
    <3> QED BY <3>1, <3>2, <3>3, <3>4 DEF InPlace
  <2> QED BY <2>1, <2>2
<1>6. Filling(is2, r2)
  <2>1. r2.item <= Len(Showing(r2)) + 1 /\ r2.position + 1 = r2.item
    BY <1>1, <1>4
  <2>2. ASSUME NEW m \in 1..(r2.item - 1) PROVE <<r2.gallery, Showing(r2)[m]>> \in DOMAIN is2
    <3>1. m = r.item \/ m \in 1..(r.item - 1)
      BY <2>2
    <3> QED BY <1>1, <1>2, <1>4, <3>1
  <2> QED BY <2>1, <2>2 DEF Filling
<1>7. Filled(C, fs, gs, is2, r2)
  <2>1. Over(r2) = Over(r) /\ \A n : Pathname(r2, n) = Pathname(r, n) /\ r2.albums[n].images = r.albums[n].images
    BY DEF Over, Pathname
  <2>2. \A g, images : HasAll(is, g, images) => HasAll(is2, g, images)
    BY <1>2 DEF HasAll
  <2>3. Filled(C, fs, gs, is, r)
    BY DEF Orderly
  <2> QED BY <2>1, <2>2, <2>3 DEF Filled
<1> QED BY <1>5, <1>6, <1>7 DEF Orderly

\* The importer leaves the album, and its gallery has all of it.
LEMMA RedirectArranges ==
  ASSUME NEW fs, NEW gs, NEW C, NEW is, NEW r, NEW r2, Orderly(C, fs, gs, is, r), r.at = "items", r.next \in Nat, r.item \in Nat,
         Len(Showing(r)) \in Nat, DOMAIN Showing(r) = 1..Len(Showing(r)), r.item > Len(Showing(r)),
         Home(C, fs, gs, r.gallery, Pathname(r, r.next)), DOMAIN r.albums \subseteq Nat,
         r2.albums = r.albums, r2.next = r.next + 1, r2.at = "album"
  PROVE  Orderly(C, fs, gs, is, r2)
<1>1. r.item <= Len(Showing(r)) + 1 /\ \A m \in 1..(r.item - 1) : <<r.gallery, Showing(r)[m]>> \in DOMAIN is
  BY DEF Orderly, Filling
<1>2. r.item - 1 = Len(Showing(r))
  <2>1. \A n, k \in Nat : n > k /\ n <= k + 1 => n - 1 = k
    OBVIOUS
  <2> QED BY <1>1, <2>1
<1>3. HasAll(is, r.gallery, r.albums[r.next].images)
  BY <1>1, <1>2 DEF HasAll, Showing
<1>4. \A n : Pathname(r2, n) = Pathname(r, n) /\ r2.albums[n].images = r.albums[n].images
  BY DEF Pathname
<1>5. ASSUME NEW n \in Over(r2) PROVE n \in Over(r) \/ n = r.next
  <2>1. n \in DOMAIN r.albums /\ n < r.next + 1 /\ n \in Nat
    BY DEF Over
  <2>2. \A k, m \in Nat : k < m + 1 => k < m \/ k = m
    OBVIOUS
  <2> QED BY <2>1, <2>2 DEF Over
<1>6. Filled(C, fs, gs, is, r2)
  <2>1. Filled(C, fs, gs, is, r)
    BY DEF Orderly
  <2> QED BY <1>3, <1>4, <1>5, <2>1 DEF Filled
<1> QED BY <1>6 DEF Orderly, Filling

\* Any other step of the importer, which begins an album or goes on in it.
LEMMA OtherwiseArranged ==
  ASSUME NEW fs, NEW gs, NEW C, NEW is, NEW r, NEW r2, Orderly(C, fs, gs, is, r), r2.albums = r.albums, r2.next = r.next,
         r2.at # "items" \/ (r2.item = 1 /\ r2.position = 0 /\ Len(Showing(r)) \in Nat)
  PROVE  Orderly(C, fs, gs, is, r2)
<1>1. Over(r2) = Over(r) /\ Showing(r2) = Showing(r) /\ \A n : Pathname(r2, n) = Pathname(r, n)
  BY DEF Over, Pathname, Showing
<1>2. Filled(C, fs, gs, is, r2)
  BY <1>1 DEF Orderly, Filled
<1>3. Filling(is, r2)
  BY <1>1 DEF Filling
<1> QED BY <1>2, <1>3 DEF Orderly

\* No two albums that are exported are imported into one gallery.
OneGalleryEach ==
  \A a, b \in Album \ Excluded : SlugsOf(Names(UrlPath[a])) = SlugsOf(Names(UrlPath[b])) => a = b

\* The chains are those of the folders.
LEMMA SameChain == ASSUME folders' = folders PROVE Chain' = Chain
  BY DEF Chain

\* What the importer shows in a gallery is all of the one album whose place it is.
LEMMA ShowsTheAlbum ==
  ASSUME Tree, Types, Complete, OneGalleryEach, outages = 0, import.next \in DOMAIN import.albums, NEW g,
         Home(Chain, folders, galleries, g, Pathname(import, import.next)),
         NEW a \in Album \ Excluded, Home(Chain, folders, galleries, g, UrlPath[a])
  PROVE  Showing(import) = Full(a)
<1> DEFINE e == import.albums[import.next]
           b == e.album
<1>1. e \in Walked /\ b \in Album
  <2>1. import.albums \in Seq(Walked)
    BY DEF Types, ImportTypes, IsImport, ImportState
  <2>2. e \in Walked
    BY <2>1
  <2> QED BY <2>2 DEF Walked
<1>2. b \notin Excluded /\ e.images = Full(b)
  BY DEF Complete, Exact
<1>3. Pathname(import, import.next) = UrlPath[b] /\ g \in DOMAIN galleries
  BY DEF Pathname, Home
<1>4. UrlPath[a] \in Seq(Title) \ {<< >>} /\ UrlPath[b] \in Seq(Title) \ {<< >>}
  BY <1>1, ImportAssumption
<1>5. GalleryPath(g) = SlugsOf(Names(UrlPath[a])) /\ GalleryPath(g) = SlugsOf(Names(UrlPath[b]))
  <2> DEFINE p == UrlPath[a]
             q == UrlPath[b]
  <2>1. Home(Chain, folders, galleries, g, p) /\ Home(Chain, folders, galleries, g, q)
    BY <1>3
  <2>2. p \in Seq(Title) \ {<< >>} /\ q \in Seq(Title) \ {<< >>}
    BY <1>4
  <2> HIDE DEF p, q
  <2> QED BY <1>3, <2>1, <2>2, HomeIs DEF p, q
<1>6. a = b
  BY <1>1, <1>2, <1>5 DEF OneGalleryEach
<1> QED BY <1>2, <1>6 DEF Showing

\* A run that starts or dies has no image under way.
LEMMA Restarted ==
  ASSUME StartImport \/ CrashImport
  PROVE  items' = items /\ import'.at # "items" /\ import'.next = 1 /\ import'.image = [k \in Image |-> "todo"]
<1>1. items' = items
  BY DEF StartImport, CrashImport, treeVars
<1>2. CASE StartImport
  <2>1. import' = [ImportDown EXCEPT !.at = "album", !.albums = manifest]
    BY <1>2 DEF StartImport
  <2> QED BY <1>1, <2>1 DEF ImportDown
<1>3. CASE CrashImport
  <2>1. import' = ImportDown
    BY <1>3 DEF CrashImport
  <2> QED BY <1>1, <2>1 DEF ImportDown
<1> QED BY <1>2, <1>3

\* Every step of the importer keeps the tree arranged.
LEMMA ImportArranged ==
  ASSUME Tree, Tree', Types, Places, Complete, Arranged, OneGalleryEach, ImportNext
  PROVE  Arranged'
<1> DEFINE C == Chain'
           fs == folders'
           gs == galleries'
           r == import
           r2 == import'
<1>0. r \in ImportState /\ (r.at \notin {"down", "done", "album"} => r.next \in DOMAIN r.albums)
  BY DEF Types, ImportTypes, IsImport
<1>1. RowsStay
  BY ImportRowsStay
<1>2. holes => holes'
  BY DEF ImportNext, StartImport, BeginAlbum, FindFolder, MakeFolder, FindGallery, MakeGallery, PublishGallery, StoreImage,
     UpsertImage, QueueImage, BeginItems, InsertItem, WriteRedirect, FinishImport, CrashImport
<1>3. outages' = outages
  BY DEF ImportNext, StartImport, BeginAlbum, FindFolder, MakeFolder, FindGallery, MakeGallery, PublishGallery, StoreImage,
     UpsertImage, QueueImage, BeginItems, InsertItem, WriteRedirect, FinishImport, CrashImport, exportVars
<1>4. GivenUp'
  <2> SUFFICES ASSUME NEW i \in Image, r2.image[i] = "bad" PROVE holes'
    BY DEF GivenUp
  <2>1. CASE StartImport \/ CrashImport
    <3>1. r2.image = [k \in Image |-> "todo"]
      BY <2>1, Restarted
    <3> QED BY <3>1
  <2>2. CASE FindGallery \/ MakeGallery
    <3>1. r2.image \in {r.image, [k \in Image |-> "todo"]}
      BY <1>0, <2>2 DEF FindGallery, MakeGallery, EnterGallery, ImportAt, ImportState
    <3> QED BY <1>2, <3>1 DEF Arranged, GivenUp
  <2>3. ASSUME NEW k \in Image, StoreImage(k) \/ UpsertImage(k) \/ QueueImage(k) PROVE holes'
    <3>1. holes' \/ \E at \in {"stored", "queue", "ready"} : r2.image = [r.image EXCEPT ![k] = at]
      <4>1. CASE StoreImage(k)
        <5>1. CASE holes' = TRUE
          BY <5>1
        <5>2. CASE r2 = [r EXCEPT !.image[k] = "stored", !.key[k] = month]
          BY <1>0, <5>2 DEF ImportState
        <5> QED BY <4>1, <5>1, <5>2 DEF StoreImage
      <4>2. CASE UpsertImage(k)
        BY <1>0, <4>2 DEF UpsertImage, SetImage, ImportState
      <4>3. CASE QueueImage(k)
        BY <1>0, <4>3 DEF QueueImage, SetImage, ImportState
      <4> QED BY <2>3, <4>1, <4>2, <4>3
    <3>2. r.image \in [Image -> {"todo", "stored", "queue", "ready", "bad"}]
      BY <1>0 DEF ImportState
    <3>3. r.image[i] = "bad" => holes'
      BY <1>2 DEF Arranged, GivenUp
    <3> HIDE DEF r
    <3> QED BY <3>1, <3>2, <3>3
  <2>4. CASE BeginAlbum \/ FindFolder \/ MakeFolder \/ PublishGallery \/ BeginItems \/ InsertItem \/ WriteRedirect \/ FinishImport
    <3>1. r2.image = r.image
      BY <1>0, <2>4 DEF BeginAlbum, FindFolder, MakeFolder, PublishGallery, BeginItems, InsertItem, WriteRedirect, FinishImport,
         EnterFolder, ImportAt, ImportState
    <3> QED BY <1>2, <3>1 DEF Arranged, GivenUp
  <2> QED BY <2>1, <2>2, <2>3, <2>4 DEF ImportNext
<1> SUFFICES ASSUME Undisturbed' PROVE Orderly(C, fs, gs, items', r2)
  BY <1>4 DEF Arranged
<1>5. Undisturbed /\ ~ reshaped'
  BY <1>1, <1>2, <1>3 DEF Undisturbed, RowsStay
<1>6. Orderly(C, fs, gs, items, r)
  BY <1>1, <1>5, StillArranged
<1> HIDE DEF C, fs, gs
<1>7. ASSUME items' = items, r2.albums = r.albums, r2.next = r.next, r2.at # "items" PROVE Orderly(C, fs, gs, items', r2)
  <2> HIDE DEF r, r2
  <2> QED BY <1>6, <1>7, OtherwiseArranged
<1>8. CASE StartImport \/ CrashImport
  <2>1. items' = items /\ r2.at # "items" /\ r2.next = 1
    BY <1>8, Restarted
  <2>2. r2.albums \in Seq(Walked)
    <3>1. CASE StartImport
      <4>1. r2.albums = manifest /\ manifest \in Seq(Walked)
        BY <3>1 DEF StartImport, ImportDown, Types, ExportTypes, Disk
      <4> QED BY <4>1
    <3>2. CASE CrashImport
      BY <3>2 DEF CrashImport, ImportDown
    <3> QED BY <1>8, <3>1, <3>2
  <2>3. Over(r2) = {}
    BY <2>1, <2>2 DEF Over
  <2> QED BY <1>6, <2>1, <2>3 DEF Orderly, Filling, Filled
<1>9. CASE BeginAlbum \/ FindFolder \/ MakeFolder \/ FindGallery \/ MakeGallery \/ PublishGallery \/ FinishImport
  <2>1. items' = items
    BY <1>9 DEF BeginAlbum, FindFolder, MakeFolder, FindGallery, MakeGallery, PublishGallery, FinishImport, treeVars
  <2>2. r2.albums = r.albums /\ r2.next = r.next /\ r2.at # "items"
    <3>1. CASE BeginAlbum \/ PublishGallery \/ FinishImport
      BY <1>0, <3>1 DEF BeginAlbum, PublishGallery, FinishImport, ImportAt, ImportState
    <3>2. CASE FindFolder \/ MakeFolder
      BY <1>0, <3>2 DEF FindFolder, MakeFolder, EnterFolder, ImportAt, ImportState
    <3>3. CASE FindGallery \/ MakeGallery
      BY <1>0, <3>3 DEF FindGallery, MakeGallery, EnterGallery, ImportAt, ImportState
    <3> QED BY <1>9, <3>1, <3>2, <3>3
  <2> QED BY <1>7, <2>1, <2>2
<1>10. ASSUME NEW i \in Image, StoreImage(i) \/ UpsertImage(i) \/ QueueImage(i) PROVE Orderly(C, fs, gs, items', r2)
  <2>1. items' = items
    BY <1>10 DEF StoreImage, UpsertImage, QueueImage, treeVars
  <2>2. r2.albums = r.albums /\ r2.next = r.next /\ r2.at # "items"
    BY <1>0, <1>10 DEF StoreImage, UpsertImage, QueueImage, SetImage, ImportState
  <2> QED BY <1>7, <2>1, <2>2
<1>11. ASSUME r.next \in DOMAIN r.albums
       PROVE  Len(Showing(r)) \in Nat /\ DOMAIN Showing(r) = 1..Len(Showing(r))
  <2>1. r.albums[r.next].images \in Seq(Exportable)
    <3>1. r.albums \in Seq(Walked)
      BY <1>0 DEF ImportState
    <3>2. r.albums[r.next] \in Walked
      BY <1>11, <3>1
    <3> QED BY <3>2 DEF Walked
  <2> QED BY <2>1 DEF Showing
<1>12. CASE BeginItems
  <2>1. /\ items' = items /\ r.at = "images" /\ r2.albums = r.albums /\ r2.next = r.next
        /\ r2.item = 1 /\ r2.position = 0
    BY <1>0, <1>12 DEF BeginItems, ImportState, treeVars
  <2>2. Len(Showing(r)) \in Nat
    BY <1>0, <1>11, <2>1
  <2> HIDE DEF r, r2
  <2> QED BY <1>6, <2>1, <2>2, OtherwiseArranged
<1>13. ASSUME r.at = "items", folders' = folders, galleries' = galleries
       PROVE  /\ r.next \in DOMAIN r.albums /\ C = Chain /\ fs = folders /\ gs = galleries
              /\ Home(C, fs, gs, r.gallery, Pathname(r, r.next))
  <2>1. r.next \in DOMAIN r.albums /\ C = Chain /\ fs = folders /\ gs = galleries
    BY <1>0, <1>13, SameChain DEF C, fs, gs
  <2>2. Home(Chain, folders, galleries, r.gallery, Pathname(r, r.next))
    BY <1>5, <1>13 DEF Places, Placed, Way, Undisturbed
  <2> QED BY <2>1, <2>2
<1>14. CASE InsertItem
  <2>1. r.at = "items" /\ r.item <= Len(Showing(r)) /\ folders' = folders /\ galleries' = galleries
    BY <1>14 DEF InsertItem, Showing, This
  <2> DEFINE i == Showing(r)[r.item]
             at == <<r.gallery, i>>
             is2 == IF at \in DOMAIN items THEN items
                    ELSE [x \in DOMAIN items \cup {at} |-> IF x = at THEN r.position ELSE items[x]]
  <2>2. /\ r.next \in DOMAIN r.albums /\ C = Chain /\ fs = folders /\ gs = galleries
        /\ Home(C, fs, gs, r.gallery, Pathname(r, r.next))
    BY <1>13, <2>1
  <2>3. Len(Showing(r)) \in Nat /\ DOMAIN Showing(r) = 1..Len(Showing(r))
    BY <1>11, <2>2
  <2>4. r.item \in Nat \ {0} /\ r.position \in Nat
    BY <1>0 DEF ImportState
  <2>5. r.image[i] # "bad"
    <3>1. i \in Image
      <4>1. r.albums[r.next].images \in Seq(Exportable)
        <5>1. r.albums \in Seq(Walked)
          BY <1>0 DEF ImportState
        <5>2. r.albums[r.next] \in Walked
          BY <2>2, <5>1
        <5> QED BY <5>2 DEF Walked
      <4>2. r.item \in 1..Len(Showing(r))
        BY <2>1, <2>3, <2>4
      <4> QED BY <4>1, <4>2 DEF Showing, Exportable
    <3> QED BY <1>5, <3>1 DEF Arranged, GivenUp, Undisturbed
  <2>6. items' = is2 /\ r2 = [r EXCEPT !.item = r.item + 1, !.position = r.position + 1]
    BY <1>14, <2>5 DEF InsertItem, Showing, This
  <2>7. /\ r2.albums = r.albums /\ r2.next = r.next /\ r2.gallery = r.gallery /\ r2.at = "items"
        /\ r2.item = r.item + 1 /\ r2.position = r.position + 1
    BY <1>0, <2>1, <2>6 DEF ImportState
  <2>8. \A a \in Album \ Excluded : Home(C, fs, gs, r.gallery, UrlPath[a]) => Showing(r) = Full(a)
    BY <1>5, <2>2, ShowsTheAlbum DEF Undisturbed
  <2>9. Orderly(C, fs, gs, is2, r2)
    <3> DEFINE is == items
    <3>1. Orderly(C, fs, gs, is, r)
      BY <1>6
    <3>2. is2 = IF at \in DOMAIN is THEN is ELSE [x \in DOMAIN is \cup {at} |-> IF x = at THEN r.position ELSE is[x]]
      OBVIOUS
    <3>3. at = <<r.gallery, Showing(r)[r.item]>>
      OBVIOUS
    <3>4. r.next \in DOMAIN r.albums /\ r.item <= Len(Showing(r)) /\ r.at = "items"
      BY <2>1, <2>2
    <3> HIDE DEF r, r2, i, at, is2, is, C, fs, gs
    <3>5. Inserting(C, fs, gs, is, r, is2, r2)
      BY <2>3, <2>4, <2>7, <2>8, <3>2, <3>3, <3>4 DEF Inserting
    <3> QED BY <3>1, <3>5, InsertArranges
  <2> QED BY <2>6, <2>9
<1>15. CASE WriteRedirect
  <2>1. /\ r.at = "items" /\ r.item > Len(Showing(r)) /\ folders' = folders /\ galleries' = galleries /\ items' = items
    BY <1>15 DEF WriteRedirect, Showing, This
  <2>2. r.next \in DOMAIN r.albums /\ Home(C, fs, gs, r.gallery, Pathname(r, r.next))
    BY <1>13, <2>1
  <2>3. Len(Showing(r)) \in Nat /\ DOMAIN Showing(r) = 1..Len(Showing(r))
    BY <1>11, <2>2
  <2>4. r.item \in Nat /\ r.next \in Nat /\ DOMAIN r.albums \subseteq Nat
    BY <1>0 DEF ImportState
  <2>5. r2.albums = r.albums /\ r2.next = r.next + 1 /\ r2.at = "album"
    BY <1>0, <1>15 DEF WriteRedirect, ImportState
  <2>6. Orderly(C, fs, gs, items, r2)
    <3> DEFINE is == items
    <3>1. Orderly(C, fs, gs, is, r)
      BY <1>6
    <3> HIDE DEF r, r2, is
    <3> QED BY <2>1, <2>2, <2>3, <2>4, <2>5, <3>1, RedirectArranges DEF is
  <2> QED BY <2>1, <2>6
<1> QED BY <1>8, <1>9, <1>10, <1>12, <1>14, <1>15 DEF ImportNext

\* So does every step of the whole site.
LEMMA ArrangedStep ==
  ASSUME Tree, Tree', Types, Records, Places, Complete, Arranged, OneGalleryEach, [Next]_siteVars PROVE Arranged'
<1>1. CASE Importing
  BY <1>1, ImportArranged DEF Importing
<1>2. ASSUME UNCHANGED importVars, reshaped' \/ items' = items, outages' = 0 => outages = 0 PROVE Arranged'
  <2>1. RowsStay
    BY RowsStep
  <2>2. import' = import /\ holes' = holes
    BY <1>2 DEF importVars
  <2>3. GivenUp'
    BY <2>2 DEF Arranged, GivenUp
  <2>4. ASSUME Undisturbed' PROVE Orderly(Chain', folders', galleries', items', import')
    <3>1. Undisturbed /\ ~ reshaped' /\ items' = items
      BY <1>2, <2>1, <2>2, <2>4 DEF Undisturbed, RowsStay
    <3> QED BY <2>1, <2>2, <3>1, StillArranged
  <2> QED BY <2>3, <2>4 DEF Arranged
<1>3. CASE Studio
  <2>1. UNCHANGED importVars /\ outages' = outages
    BY <1>3 DEF Studio, exportVars
  <2>2. reshaped' \/ items' = items
    BY <1>3 DEF Studio, TreeNext, PostFolder, PostGallery, PostInserts, PostRefused, InsertFolder, InsertGallery, ShowFolder, RenameFolder,
       ShowGallery, RenameGallery, DeleteFolder, DeleteGallery, DeletePhoto
  <2> QED BY <1>2, <2>1, <2>2
<1>4. CASE Dropping
  <2>1. UNCHANGED importVars /\ outages' = outages /\ items' = items
    BY <1>4, DropLeavesRedirects DEF Dropping, exportVars
  <2> QED BY <1>2, <2>1
<1>5. CASE Exporting
  <2>1. UNCHANGED importVars /\ items' = items
    BY <1>5 DEF Exporting, treeVars
  <2>2. outages' = 0 => outages = 0
    BY <1>5, ExportComplete DEF Exporting
  <2> QED BY <1>2, <2>1, <2>2
<1>6. CASE Scanning \/ Resetting \/ Ingesting \/ Operating
  <2>1. UNCHANGED importVars
    BY <1>6, ScriptsLeaveImport DEF Scanning, Resetting, Ingesting, Operating
  <2>2. items' = items
    BY <1>6, ScriptsLeaveRows DEF Scanning, Resetting, Ingesting, Operating, treeVars
  <2>3. outages' = outages
    BY <1>6, ScriptsLeaveExport DEF exportVars
  <2> QED BY <1>2, <2>1, <2>2, <2>3
<1>7. CASE UNCHANGED siteVars
  <2>1. UNCHANGED importVars /\ items' = items /\ outages' = outages
    BY <1>7 DEF siteVars, treeVars, exportVars
  <2> QED BY <1>2, <2>1
<1> QED BY <1>1, <1>3, <1>4, <1>5, <1>6, <1>7 DEF Next

\* What earlier runs left without a failure is complete, and what is in a gallery
\* at the place of an album stands where the album has it.
EarlierExact == \A s \in Scene : s.disk.outages = 0 => RecordExact(s.disk.progress) /\ ManifestExact(s.disk.manifest)
AsAlbums == \A s \in Scene : \A C : IsChain(C, s.folders) => Sorted(C, s.folders, s.galleries, s.items)

\* The scenes are arranged.
LEMMA ArrangedStart == ASSUME EarlierExact, AsAlbums, Init PROVE Complete /\ Arranged
<1>1. PICK s \in Scene : TreeInit(s) /\ ExportInit(s.disk)
  BY DEF Init
<1>2. import = ImportDown
  BY DEF Init, ImportInit
<1>3. import.at = "down" /\ import.albums = << >> /\ import.image = [i \in Image |-> "todo"]
  BY <1>2 DEF ImportDown
<1>4. Complete
  <2>1. outages = 0 => RecordExact(progress) /\ ManifestExact(manifest)
    BY <1>1 DEF ExportInit, EarlierExact
  <2>2. HoldsExact(export)
    BY <1>1 DEF ExportInit, HoldsExact, Down, Nothing, ExactOnes, Exact, Copying
  <2>3. Exact(import.albums)
    BY <1>3 DEF Exact
  <2> QED BY <2>1, <2>2, <2>3 DEF Complete
<1>5. Sorted(Chain, folders, galleries, items)
  <2>1. IsChain(Chain, folders)
    BY TreeStart, ChainNow
  <2> QED BY <1>1, <2>1 DEF TreeInit, AsAlbums
<1>6. Over(import) = {}
  BY <1>3 DEF Over
<1>7. Orderly(Chain, folders, galleries, items, import)
  BY <1>3, <1>5, <1>6 DEF Orderly, Filling, Filled
<1>8. GivenUp
  BY <1>3 DEF GivenUp
<1> QED BY <1>4, <1>7, <1>8 DEF Arranged

\* Without clashing siblings a path is that of one gallery.
LEMMA OneHome ==
  ASSUME Tree, ~ SlugClash, NEW g \in DOMAIN galleries, NEW h \in DOMAIN galleries, GalleryPath(g) = GalleryPath(h)
  PROVE  g = h
<1> DEFINE f == galleries[g].folder
           x == galleries[h].folder
           p == PathOf(f)
           q == PathOf(x)
<1>1. f \in DOMAIN folders /\ x \in DOMAIN folders
  BY DEF Tree, Whole, Intact
<1>2. GalleryPath(g) = Append(p, galleries[g].slug) /\ GalleryPath(h) = Append(q, galleries[h].slug)
  BY DEF GalleryPath
<1>3. p \in Seq({folders[y].slug : y \in DOMAIN folders}) /\ q \in Seq({folders[y].slug : y \in DOMAIN folders})
  BY <1>1, PathIs
<1>4. Resolve(p) = {f} /\ Resolve(q) = {x}
  BY <1>1, FolderResolves
<1> DEFINE V == {folders[y].slug : y \in DOMAIN folders}
<1>5. \A s, t \in Seq(V) : \A d, e : Append(s, d) = Append(t, e) => s = t /\ d = e
  <2> HIDE DEF V
  <2> SUFFICES ASSUME NEW s \in Seq(V), NEW t \in Seq(V), NEW d, NEW e, Append(s, d) = Append(t, e) PROVE s = t /\ d = e
    OBVIOUS
  <2>1. Len(s) = Len(t)
    <3>1. Len(Append(s, d)) = Len(s) + 1 /\ Len(Append(t, e)) = Len(t) + 1
      OBVIOUS
    <3> QED BY <3>1
  <2>2. d = e
    <3>1. Append(s, d)[Len(s) + 1] = d /\ Append(t, e)[Len(t) + 1] = e
      OBVIOUS
    <3> QED BY <2>1, <3>1
  <2>3. \A k \in 1..Len(s) : s[k] = t[k]
    <3>1. (\A k \in 1..Len(s) : Append(s, d)[k] = s[k]) /\ (\A k \in 1..Len(t) : Append(t, e)[k] = t[k])
      OBVIOUS
    <3> QED BY <2>1, <3>1
  <2> QED BY <2>1, <2>2, <2>3
<1>6. p = q /\ galleries[g].slug = galleries[h].slug
  <2>1. p \in Seq(V) /\ q \in Seq(V)
    BY <1>3
  <2>2. Append(p, galleries[g].slug) = Append(q, galleries[h].slug)
    BY <1>2
  <2> HIDE DEF p, q, V, f, x
  <2> QED BY <1>5, <2>1, <2>2
<1> HIDE DEF p, q, V, f, x
<1>7. f = x
  BY <1>4, <1>6
<1> QED BY <1>6, <1>7 DEF Tree, Whole, Intact, f, x

\* Whatever the number of runs of exporter and importer, wherever they died and
\* whoever else worked on the tree, the photos of an imported gallery carry the
\* positions of the album (import.ts), if nothing failed for good, nothing was
\* renamed or deleted, and names do not clash.
THEOREM OrdersAreTheAlbums ==
  ASSUME OneGalleryEach, EarlierExact, AsAlbums PROVE Spec => []OrderIsTheAlbums
<1> DEFINE IInv == Tree /\ Records /\ Types /\ Places /\ Complete /\ Arranged
<1>1. Init => IInv
  BY TreeStart, RecordsStart, TypesStart, PlacesStart, ArrangedStart
<1>2. IInv /\ [Next]_siteVars => IInv'
  <2> SUFFICES ASSUME IInv, [Next]_siteVars PROVE IInv'
    OBVIOUS
  <2>1. Tree' /\ Records' /\ Types'
    BY TreeStep, RecordsStep, TypesStep
  <2>2. Places'
    BY <2>1, PlacesStep
  <2>3. Complete'
    BY CompleteStep
  <2>4. Arranged'
    BY <2>1, ArrangedStep
  <2> QED BY <2>1, <2>2, <2>3, <2>4
<1>3. IInv => OrderIsTheAlbums
  <2> SUFFICES ASSUME IInv, Undisturbed, ~ SlugClash, NEW n \in DOMAIN import.albums, Finished(n),
                      NEW g \in GalleryOf(import.albums[n].album),
                      NEW j \in DOMAIN import.albums[n].images, NEW k \in DOMAIN import.albums[n].images,
                      j < k, import.albums[n].images[k] \notin {import.albums[n].images[m] : m \in 1..(k - 1)}
               PROVE  items[<<g, import.albums[n].images[j]>>] < items[<<g, import.albums[n].images[k]>>]
    BY DEF OrderIsTheAlbums, Undisturbed
  <2> DEFINE a == import.albums[n].album
             s == import.albums[n].images
             path == UrlPath[a]
  <2>1. import.albums \in Seq(Walked) /\ import.next \in Nat
    BY DEF Types, ImportTypes, IsImport, ImportState
  <2>2. a \in Album /\ s \in Seq(Exportable) /\ path \in Seq(Title) \ {<< >>}
    <3>1. import.albums[n] \in Walked
      BY <2>1
    <3> QED BY <3>1, ImportAssumption DEF Walked
  <2>3. a \notin Excluded /\ s = Full(a)
    BY DEF Undisturbed, Complete, Exact
  <2>4. n \in Over(import)
    <3>1. import.next > Len(import.albums)
      BY DEF Finished, Places, Placed, Behind, Undisturbed
    <3> QED BY <2>1, <3>1 DEF Over
  <2>5. PICK h : Home(Chain, folders, galleries, h, path) /\ HasAll(items, h, s)
    BY <2>4 DEF Arranged, Orderly, Filled, Pathname
  <2>6. g \in DOMAIN galleries /\ GalleryPath(g) = SlugsOf(Names(path))
    BY DEF GalleryOf, SlugsOf, Names
  <2>7. h \in DOMAIN galleries
    BY <2>5 DEF Home
  <2> HIDE DEF path, s, a
  <2>8. Home(Chain, folders, galleries, g, path) /\ GalleryPath(h) = SlugsOf(Names(path))
    BY <2>2, <2>5, <2>6, <2>7, HomeIs
  <2>9. g = h
    BY <2>6, <2>7, <2>8, OneHome
  <2>10. ASSUME NEW m \in DOMAIN s PROVE <<g, s[m]>> \in DOMAIN items /\ InPlace(s, s[m], items[<<g, s[m]>>])
    <3> DEFINE x == <<g, s[m]>>
    <3>1. x \in DOMAIN items /\ x[1] = g /\ x[2] = s[m]
      BY <2>5, <2>9, <2>10 DEF HasAll
    <3> HIDE DEF x
    <3>2. InPlace(Full(a), x[2], items[x])
      BY <2>2, <2>3, <2>8, <3>1 DEF Arranged, Orderly, Sorted, path
    <3> QED BY <2>3, <3>1, <3>2 DEF x
  <2> DEFINE u == items[<<g, s[j]>>]
             v == items[<<g, s[k]>>]
  <2>11. j \in DOMAIN s /\ k \in DOMAIN s /\ j < k /\ s[k] \notin {s[m] : m \in 1..(k - 1)} /\ DOMAIN s = 1..Len(s) /\ Len(s) \in Nat
    BY <2>2 DEF s
  <2>12. InPlace(s, s[j], u) /\ InPlace(s, s[k], v) /\ u \in Nat /\ v \in Nat
    <3>1. items \in [DOMAIN items -> Nat]
      BY DEF Types, TreeTypeOK
    <3>2. <<g, s[j]>> \in DOMAIN items /\ <<g, s[k]>> \in DOMAIN items
      BY <2>10, <2>11
    <3> QED BY <2>10, <2>11, <3>1, <3>2
  <2> HIDE DEF u, v
  <2>13. u < j
    <3>1. \A m \in 1..u : s[m] # s[j]
      BY <2>12 DEF InPlace
    <3>2. j \in Nat \ {0} /\ ~ (j \in 1..u)
      BY <2>11, <3>1
    <3> QED BY <2>12, <3>2
  <2>14. v + 1 = k
    <3>1. v + 1 \in DOMAIN s /\ s[v + 1] = s[k] /\ \A m \in 1..v : s[m] # s[k]
      BY <2>12 DEF InPlace
    <3>2. ~ (k \in 1..v) /\ ~ (v + 1 \in 1..(k - 1))
      BY <2>11, <3>1
    <3>3. k \in Nat \ {0}
      BY <2>11
    <3> QED BY <2>12, <3>2, <3>3
  <2>15. u < v
    BY <2>11, <2>12, <2>13, <2>14
  <2> QED BY <2>15 DEF u, v, s
<1> QED BY <1>1, <1>2, <1>3, PTL DEF Spec
==============================================================================
