---------------------- MODULE BrokerEnvironmentProofs ----------------------
(***************************************************************************)
(* Theorems about BrokerEnvironment, for any spellings, files and default. *)
(***************************************************************************)
EXTENDS BrokerEnvironment, WellFoundedInduction, TLAPS

NatLess == {pair \in Nat \X Nat : pair[1] < pair[2]}

(* g is Cut of the first n characters.                                     *)
IsCut(g, name, n) ==
  g = [i \in 0..n |-> IF i = 0 THEN << <<>> >> ELSE Extend(g[i - 1], name[i])]

Parts == {parts \in Seq(Name) : parts # <<>>}

Begins(v, w) == Len(v) <= Len(w) /\ \A i \in 1..Len(v) : w[i] = v[i]

(* Q is what P can become: its last component may grow, others may follow. *)
Grown(P, Q) ==
  /\ Len(P) <= Len(Q)
  /\ \A k \in 1..(Len(P) - 1) : Q[k] = P[k]
  /\ Begins(P[Len(P)], Q[Len(P)])

HandExports == [prefix |-> shell.prefix, mode |-> shell.mode]

(* Where the operator's present settings lead.                             *)
Place == ObjectKey(S3Prefix(HandExports))

IndInv ==
  /\ shell \in Shells
  /\ broker # None =>
       /\ ObjectKey(broker.prefix) = Place
       /\ broker.by = "script" => broker.mode = "init-key"
  /\ manifest # None =>
       /\ manifest = [key |-> manifest.key, same |-> manifest.same]
       /\ manifest.same => manifest.key = Place

(* The names that occur are names.                                         *)
NamesInv ==
  /\ shell \in Shells /\ file \in Files
  /\ broker # None => broker.prefix \in Name
  /\ manifest # None => manifest.key \in Name

-----------------------------------------------------------------------------
(* Names and their components.                                             *)

LEMMA LessWF == IsWellFoundedOn(NatLess, Nat)
  BY NatLessThanWellFounded DEF NatLess, OpToRel

(* Every set of numbers that is not empty has a least one: the proofs      *)
(* below take the least number for which a claim fails.                    *)
LEMMA Least ==
  ASSUME NEW S \in SUBSET Nat, S # {}
  PROVE \E m \in S : \A n \in S : m <= n
<1>1. PICK x \in S : \A y \in S : ~(<<y,x>> \in NatLess)
  BY LessWF, WFMin
<1>2. ASSUME NEW y \in S PROVE x <= y
  <2>1. ~(y < x)
    <3> SUFFICES ASSUME y < x PROVE <<y,x>> \in NatLess
      BY <1>1
    <3>1. y \in Nat /\ x \in Nat
      OBVIOUS
    <3>2. <<y,x>> \in Nat \X Nat
      BY <3>1
    <3>3. <<y,x>>[1] < <<y,x>>[2]
      OBVIOUS
    <3> QED BY <3>2, <3>3 DEF NatLess
  <2> QED BY <2>1
<1> QED BY <1>2

(* Every name can be cut.                                                  *)
LEMMA CutExists ==
  ASSUME NEW name, NEW N \in Nat
  PROVE  \E g : IsCut(g, name, N)
<1> DEFINE Bad == {n \in Nat : ~\E g : IsCut(g, name, n)}
<1>1. SUFFICES ASSUME Bad # {} PROVE FALSE
  OBVIOUS
<1>2. PICK n \in Bad : \A k \in Bad : n <= k
  BY <1>1, Least
<1>3. n # 0
  <2>1. IsCut([i \in 0..0 |-> << <<>> >>], name, 0)
    BY DEF IsCut
  <2>2. QED
    BY <2>1
<1>4. n - 1 \in Nat /\ n - 1 \notin Bad /\ n \in Nat
  BY <1>2, <1>3
<1>5. PICK g : IsCut(g, name, n - 1)
  BY <1>4
<1> DEFINE h == [i \in 0..n |-> IF i = n THEN Extend(g[n - 1], name[n]) ELSE g[i]]
<1>6. IsCut(h, name, n)
  <2>1. ASSUME NEW i \in 0..n
        PROVE  h[i] = IF i = 0 THEN << <<>> >> ELSE Extend(h[i - 1], name[i])
    <3>1. CASE i = n
      <4>1. h[n - 1] = g[n - 1] /\ n # 0
        BY <1>3, <1>4
      <4>2. h[n] = Extend(g[n - 1], name[n])
        BY <1>4
      <4> QED
        BY <3>1, <4>1, <4>2
    <3>2. CASE i # n /\ i # 0
      <4>1. i \in 0..(n - 1) /\ i - 1 \in 0..n /\ i - 1 # n
        BY <3>2, <1>4
      <4>2. h[i] = g[i] /\ h[i - 1] = g[i - 1]
        BY <4>1, <3>2
      <4>3. g[i] = Extend(g[i - 1], name[i])
        BY <4>1, <1>5, <3>2 DEF IsCut
      <4> QED
        BY <4>2, <4>3, <3>2
    <3>3. CASE i = 0 /\ i # n
      <4>1. h[0] = g[0] /\ g[0] = << <<>> >>
        BY <3>3, <1>4, <1>5 DEF IsCut
      <4> QED
        BY <4>1, <3>3
    <3>4. QED
      BY <3>1, <3>2, <3>3
  <2>2. QED
    BY <2>1 DEF IsCut
<1>7. QED
  BY <1>4, <1>6, <1>2

LEMMA CutDef ==
  ASSUME NEW name, Len(name) \in Nat
  PROVE  IsCut(Cut(name), name, Len(name))
<1>1. PICK g : IsCut(g, name, Len(name))
  BY CutExists
<1>2. Cut(name) = CHOOSE f : IsCut(f, name, Len(name))
  BY DEF Cut, IsCut
<1>3. QED
  BY <1>1, <1>2

(* IsPrefix, character by character.                                       *)
LEMMA BeginsIsPrefix ==
  ASSUME NEW S, NEW v \in Seq(S), NEW w \in Seq(S)
  PROVE  IsPrefix(v, w) <=> Begins(v, w)
<1>1. CASE Len(v) <= Len(w)
  <2>1. /\ SubSeq(v, 1, Len(v)) \in Seq(S) /\ SubSeq(w, 1, Len(v)) \in Seq(S)
        /\ Len(SubSeq(v, 1, Len(v))) = Len(v) /\ Len(SubSeq(w, 1, Len(v))) = Len(v)
        /\ \A i \in 1..Len(v) : SubSeq(v, 1, Len(v))[i] = v[i] /\ SubSeq(w, 1, Len(v))[i] = w[i]
    BY <1>1
  <2>2. SubSeq(v, 1, Len(v)) = SubSeq(w, 1, Len(v)) <=> \A i \in 1..Len(v) : w[i] = v[i]
    BY <2>1
  <2>3. QED
    BY <1>1, <2>2 DEF IsPrefix, Begins
<1>2. CASE ~(Len(v) <= Len(w))
  BY <1>2 DEF IsPrefix, Begins
<1>3. QED
  BY <1>1, <1>2

(* "/" begins a component; any other character makes the last one longer.  *)
LEMMA ExtendSlash ==
  ASSUME NEW P \in Parts, NEW Q, Q = Extend(P, "/")
  PROVE  /\ Q \in Parts /\ Len(Q) = Len(P) + 1 /\ Q[Len(Q)] = <<>>
         /\ \A k \in 1..Len(P) : Q[k] = P[k]
<1>1. P \in Seq(Name) /\ Len(P) \in Nat \ {0} /\ <<>> \in Name
  BY DEF Parts, Name
<1>2. Q = Append(P, <<>>)
  BY DEF Extend
<1>3. QED
  BY <1>1, <1>2 DEF Parts

LEMMA ExtendOther ==
  ASSUME NEW P \in Parts, NEW c \in Chars, c # "/", NEW Q, Q = Extend(P, c)
  PROVE  /\ Q \in Parts /\ Len(Q) = Len(P)
         /\ \A k \in 1..(Len(P) - 1) : Q[k] = P[k]
         /\ Q[Len(P)] = Append(P[Len(P)], c)
<1>1. P \in Seq(Name) /\ Len(P) \in Nat \ {0}
  BY DEF Parts
<1>2. P[Len(P)] \in Name
  BY <1>1
<1>3. Append(P[Len(P)], c) \in Name
  BY <1>2 DEF Name
<1>4. Q = [P EXCEPT ![Len(P)] = Append(P[Len(P)], c)]
  BY DEF Extend
<1>5. Q \in Seq(Name) /\ Len(Q) = Len(P)
  BY <1>1, <1>3, <1>4
<1>6. Len(Q) # 0 /\ Q \in Parts
  <2>1. <<>> = <<>> /\ Len(<<>>) = 0
    OBVIOUS
  <2>2. QED
    BY <1>1, <1>5, <2>1 DEF Parts
<1>7. \A k \in 1..Len(P) : k \in DOMAIN P
  BY <1>1
<1>8. Q[Len(P)] = Append(P[Len(P)], c)
  BY <1>1, <1>4, <1>7
<1>9. \A k \in 1..(Len(P) - 1) : Q[k] = P[k]
  BY <1>1, <1>4, <1>7
<1>10. QED
  BY <1>5, <1>6, <1>8, <1>9

LEMMA AppendBegins ==
  ASSUME NEW S, NEW v \in Seq(S), NEW c \in S
  PROVE  Begins(v, Append(v, c))
<1>1. Len(Append(v, c)) = Len(v) + 1 /\ \A i \in 1..Len(v) : Append(v, c)[i] = v[i]
  OBVIOUS
<1>2. QED
  BY <1>1 DEF Begins

LEMMA ExtendGrows ==
  ASSUME NEW P \in Parts, NEW c \in Chars
  PROVE  Extend(P, c) \in Parts /\ Grown(P, Extend(P, c))
<1>1. P \in Seq(Name) /\ Len(P) \in Nat \ {0}
  BY DEF Parts
<1>2. P[Len(P)] \in Seq(Chars)
  BY <1>1 DEF Name
<1>3. CASE c = "/"
  <2>1. Extend(P, c)[Len(P)] = P[Len(P)]
    BY <1>1, <1>3, ExtendSlash
  <2>2. QED
    <3> DEFINE Q == Extend(P, c)
    <3>1. /\ Q \in Parts /\ Len(Q) = Len(P) + 1
          /\ \A k \in 1..Len(P) : Q[k] = P[k]
      BY <1>3, ExtendSlash
    <3> HIDE DEF Q
    <3>2. Grown(P, Q)
      BY <1>1, <1>2, <3>1 DEF Grown, Begins
    <3>3. QED
      BY <3>1, <3>2 DEF Q
<1>4. CASE c # "/"
  <2>1. Begins(P[Len(P)], Append(P[Len(P)], c))
    BY <1>2, AppendBegins
  <2> HIDE DEF Begins
  <2> DEFINE Q == Extend(P, c)
  <2>2. /\ Q \in Parts /\ Len(Q) = Len(P)
        /\ \A k \in 1..(Len(P) - 1) : Q[k] = P[k]
        /\ Q[Len(P)] = Append(P[Len(P)], c)
    BY <1>4, ExtendOther
  <2> HIDE DEF Q
  <2>3. Begins(P[Len(P)], Q[Len(P)])
    BY <2>1, <2>2, Zenon
  <2>4. Grown(P, Q)
    BY <1>1, <2>2, <2>3 DEF Grown
  <2>5. QED
    BY <2>2, <2>4 DEF Q
<1>5. QED
  BY <1>3, <1>4

LEMMA GrownTransitive ==
  ASSUME NEW P \in Parts, NEW Q \in Parts, NEW R \in Parts, Grown(P, Q), Grown(Q, R)
  PROVE  Grown(P, R)
<1>1. Len(P) \in Nat \ {0} /\ Len(Q) \in Nat \ {0} /\ Len(R) \in Nat \ {0}
  BY DEF Parts
<1>2. P[Len(P)] \in Seq(Chars) /\ Q[Len(P)] \in Seq(Chars) /\ R[Len(P)] \in Seq(Chars)
  BY <1>1 DEF Parts, Name, Grown
<1>3. Q[Len(P)] = R[Len(P)] \/ Begins(Q[Len(P)], R[Len(P)])
  BY <1>1 DEF Grown
<1>4. Begins(P[Len(P)], R[Len(P)])
  BY <1>2, <1>3 DEF Grown, Begins
<1>5. QED
  BY <1>1, <1>4 DEF Grown

(* What Cut does from one character to the next.                           *)
LEMMA CutSteps ==
  ASSUME NEW name \in Name
  PROVE  /\ Cut(name)[0] = << <<>> >>
         /\ \A i \in 1..Len(name) : Cut(name)[i] = Extend(Cut(name)[i - 1], name[i])
<1>1. Len(name) \in Nat
  BY DEF Name
<1>2. QED
  BY <1>1, CutDef DEF IsCut

(* What is cut off is never taken back, and the last component only grows. *)
LEMMA CutGrows ==
  ASSUME NEW name \in Name, NEW n \in 0..Len(name)
  PROVE  Cut(name)[n] \in Parts /\ \A i \in 0..n : Grown(Cut(name)[i], Cut(name)[n])
<1> DEFINE Good(m) == Cut(name)[m] \in Parts
                        /\ \A i \in 0..m : Cut(name)[i] \in Parts /\ Grown(Cut(name)[i], Cut(name)[m])
           Bad == {m \in 0..Len(name) : ~Good(m)}
<1>0. Len(name) \in Nat /\ name \in Seq(Chars)
  BY DEF Name
<1>1. SUFFICES ASSUME Bad # {} PROVE FALSE
  OBVIOUS
<1>2. PICK m \in Bad : \A k \in Bad : m <= k
  <2>1. Bad \in SUBSET Nat
    BY <1>0
  <2> HIDE DEF Bad
  <2>2. QED
    BY <1>1, <2>1, Least
<1>a. ASSUME NEW P \in Parts PROVE Grown(P, P)
  <2>1. Len(P) \in Nat \ {0}
    BY DEF Parts
  <2>2. P[Len(P)] \in Seq(Chars)
    BY <2>1 DEF Parts, Name
  <2>3. QED
    BY <2>1, <2>2 DEF Grown, Begins
<1>3. m # 0
  <2>1. << <<>> >> \in Parts
    BY DEF Parts, Name
  <2>2. Grown(<< <<>> >>, << <<>> >>)
    BY <1>a, <2>1
  <2>3. Cut(name)[0] = << <<>> >>
    BY CutSteps
  <2>4. Good(0)
    BY <2>1, <2>2, <2>3
  <2>5. QED
    BY <1>2, <2>4
<1>4. m - 1 \in 0..Len(name) /\ m \in 1..Len(name) /\ m - 1 \notin Bad
  BY <1>0, <1>2, <1>3
<1>5. Good(m - 1)
  BY <1>4
<1>6. Cut(name)[m] \in Parts /\ Grown(Cut(name)[m - 1], Cut(name)[m])
  <2>1. Cut(name)[m] = Extend(Cut(name)[m - 1], name[m]) /\ name[m] \in Chars
    BY <1>0, <1>4, CutSteps
  <2>2. QED
    BY <1>5, <2>1, ExtendGrows
<1>7. ASSUME NEW i \in 0..m PROVE Cut(name)[i] \in Parts /\ Grown(Cut(name)[i], Cut(name)[m])
  <2>1. CASE i = m
    BY <1>6, <1>a, <2>1
  <2>2. CASE i # m
    <3>1. i \in 0..(m - 1)
      BY <1>4, <2>2
    <3>2. Cut(name)[i] \in Parts /\ Grown(Cut(name)[i], Cut(name)[m - 1])
      BY <1>5, <3>1
    <3>3. QED
      BY <1>5, <1>6, <3>2, GrownTransitive
  <2>3. QED
    BY <2>1, <2>2
<1>8. QED
  BY <1>2, <1>6, <1>7

(* Names that agree so far have been cut alike so far.                     *)
LEMMA CutAgrees ==
  ASSUME NEW a \in Name, NEW b \in Name, NEW n \in 0..Len(a), n <= Len(b),
         \A i \in 1..n : a[i] = b[i]
  PROVE  Cut(a)[n] = Cut(b)[n]
<1> DEFINE Bad == {m \in 0..n : Cut(a)[m] # Cut(b)[m]}
<1>0. Len(a) \in Nat /\ Len(b) \in Nat
  BY DEF Name
<1>1. SUFFICES ASSUME Bad # {} PROVE FALSE
  <2>1. n \notin Bad => Cut(a)[n] = Cut(b)[n]
    BY <1>0
  <2> HIDE DEF Bad
  <2>2. QED
    BY <2>1
<1>2. PICK m \in Bad : \A k \in Bad : m <= k
  <2>1. Bad \in SUBSET Nat
    BY <1>0
  <2> HIDE DEF Bad
  <2>2. QED
    BY <1>1, <2>1, Least
<1>3. m # 0
  BY <1>2, CutSteps
<1>4. m - 1 \in 0..n /\ m \in 1..n /\ m - 1 \notin Bad
  BY <1>0, <1>2, <1>3
<1>5. Cut(a)[m - 1] = Cut(b)[m - 1]
  BY <1>4
<1>6. /\ Cut(a)[m] = Extend(Cut(a)[m - 1], a[m])
      /\ Cut(b)[m] = Extend(Cut(b)[m - 1], b[m])
  BY <1>0, <1>4, CutSteps
<1>7. QED
  BY <1>2, <1>4, <1>5, <1>6

(* A key that starts with the prefix and "/" has the components of the     *)
(* prefix, and more.                                                       *)
LEMMA BelowForward ==
  ASSUME NEW p \in Name, NEW key \in Name, Begins(p \o <<"/">>, key)
  PROVE  IsStrictPrefix(Components(p), Components(key))
<1>1. /\ Len(p) \in Nat /\ Len(key) \in Nat /\ p \in Seq(Chars)
      /\ Len(p) + 1 <= Len(key) /\ key[Len(p) + 1] = "/"
      /\ \A i \in 1..Len(p) : p[i] = key[i]
  <2>1. /\ Len(p) \in Nat /\ Len(p \o <<"/">>) = Len(p) + 1
        /\ (p \o <<"/">>)[Len(p) + 1] = "/"
        /\ \A i \in 1..Len(p) : (p \o <<"/">>)[i] = p[i]
    BY DEF Name
  <2>2. QED
    BY <2>1 DEF Begins, Name
<1> DEFINE P == Cut(p)[Len(p)]
           Q == Cut(key)[Len(p) + 1]
           R == Cut(key)[Len(key)]
<1>2. P \in Parts /\ R \in Parts /\ Grown(Q, R)
  BY <1>1, CutGrows
<1>3. Q = Extend(P, "/")
  <2>1. Cut(key)[Len(p)] = P
    BY <1>1, CutAgrees
  <2>2. Q = Extend(Cut(key)[Len(p)], key[Len(p) + 1])
    BY <1>1, CutSteps
  <2>3. QED
    BY <1>1, <2>1, <2>2
<1>4. Components(p) = P /\ Components(key) = R
  BY DEF Components
<1> HIDE DEF P, Q, R
<1>5. Len(Q) = Len(P) + 1 /\ \A k \in 1..Len(P) : Q[k] = P[k]
  BY <1>2, <1>3, ExtendSlash
<1>6. Len(P) \in Nat /\ Len(R) \in Nat /\ P \in Seq(Name) /\ R \in Seq(Name)
  BY <1>2 DEF Parts
<1>7. Len(P) < Len(R) /\ \A k \in 1..Len(P) : R[k] = P[k]
  BY <1>2, <1>5, <1>6 DEF Grown
<1>8. IsPrefix(P, R)
  BY <1>6, <1>7, BeginsIsPrefix DEF Begins
<1>9. QED
  BY <1>4, <1>6, <1>7, <1>8 DEF IsStrictPrefix

(* Two names that differ in a character, of which one is not "/", or of    *)
(* which one ends, have different components from there on.                *)
LEMMA Parted ==
  ASSUME NEW P \in Parts, NEW c \in Chars, c # "/",
         NEW Q \in Parts, NEW R \in Parts,
         Grown(Extend(P, c), Q),
         \/ R = P
         \/ Grown(Extend(P, "/"), R)
         \/ \E d \in Chars : d \notin {c, "/"} /\ Grown(Extend(P, d), R)
  PROVE  Len(P) \in 1..Len(Q) /\ Len(P) \in 1..Len(R) /\ Q[Len(P)] # R[Len(P)]
<1> DEFINE p == Len(P)
           w == P[p]
<1>1. p \in Nat \ {0} /\ Len(Q) \in Nat /\ Len(R) \in Nat
  BY DEF Parts
<1>2. w \in Seq(Chars) /\ Len(w) \in Nat
  BY <1>1 DEF Parts, Name
<1>3. p <= Len(Q) /\ Len(w) + 1 <= Len(Q[p]) /\ Q[p][Len(w) + 1] = c
  <2> DEFINE X == Extend(P, c)
  <2>1. Len(X) = p /\ X[p] = Append(w, c)
    BY ExtendOther
  <2> HIDE DEF X
  <2>2. Len(X) <= Len(Q) /\ Begins(X[Len(X)], Q[Len(X)])
    BY DEF X, Grown
  <2>3. Begins(Append(w, c), Q[p])
    BY <2>1, <2>2
  <2> HIDE DEF w
  <2>4. Len(Append(w, c)) = Len(w) + 1 /\ Append(w, c)[Len(w) + 1] = c
    BY <1>2
  <2>5. QED
    BY <1>2, <2>1, <2>2, <2>3, <2>4 DEF Begins
<1>4. p <= Len(R) /\ (\/ R[p] = w
                      \/ \E d \in Chars : d # c /\ Len(w) + 1 <= Len(R[p]) /\ R[p][Len(w) + 1] = d)
  <2>1. CASE R = P
    BY <1>1, <2>1
  <2>2. CASE Grown(Extend(P, "/"), R)
    <3> DEFINE X == Extend(P, "/")
    <3>1. Len(X) = p + 1 /\ X[p] = w
      BY <1>1, ExtendSlash
    <3> HIDE DEF X
    <3>2. Len(X) <= Len(R) /\ \A k \in 1..(Len(X) - 1) : R[k] = X[k]
      BY <2>2 DEF X, Grown
    <3>3. QED
      BY <1>1, <3>1, <3>2
  <2>3. CASE \E d \in Chars : d \notin {c, "/"} /\ Grown(Extend(P, d), R)
    <3>1. PICK d \in Chars : d \notin {c, "/"} /\ Grown(Extend(P, d), R)
      BY <2>3
    <3> DEFINE X == Extend(P, d)
    <3>2. Len(X) = p /\ X[p] = Append(w, d)
      BY <3>1, ExtendOther
    <3> HIDE DEF X
    <3>3. Len(X) <= Len(R) /\ Begins(X[Len(X)], R[Len(X)])
      BY <3>1 DEF X, Grown
    <3>4. Begins(Append(w, d), R[p])
      BY <3>2, <3>3
    <3> HIDE DEF w
    <3>5. Len(Append(w, d)) = Len(w) + 1 /\ Append(w, d)[Len(w) + 1] = d
      BY <1>2
    <3>6. QED
      BY <1>2, <3>1, <3>2, <3>3, <3>4, <3>5 DEF Begins
  <2>4. QED
    BY <2>1, <2>2, <2>3
<1>5. Q[p] # R[p]
  <2> HIDE DEF w
  <2>1. QED
    BY <1>2, <1>3, <1>4
<1>6. QED
  BY <1>1, <1>3, <1>4, <1>5

(* A key that has the components of the prefix, and more, starts with the  *)
(* prefix and "/": take the first place where it does not.                 *)
LEMMA BelowBackward ==
  ASSUME NEW p \in Name, NEW key \in Name,
         IsStrictPrefix(Components(p), Components(key))
  PROVE  Begins(p \o <<"/">>, key)
<1> DEFINE n == Len(p)
           dir == p \o <<"/">>
           P == Components(p)
           R == Components(key)
           Bad == {i \in 1..(n + 1) : i > Len(key) \/ key[i] # dir[i]}
<1>1. /\ n \in Nat /\ Len(key) \in Nat /\ p \in Seq(Chars) /\ key \in Seq(Chars)
      /\ Len(dir) = n + 1 /\ dir[n + 1] = "/" /\ \A i \in 1..n : dir[i] = p[i]
  BY DEF Name
<1>2. P \in Parts /\ R \in Parts
  BY <1>1, CutGrows DEF Components
<1>3. Len(P) < Len(R) /\ \A k \in 1..Len(P) : R[k] = P[k]
  <2> HIDE DEF P, R
  <2>1. P \in Seq(Name) /\ R \in Seq(Name) /\ IsPrefix(P, R) /\ P # R
    BY <1>2 DEF Parts, IsStrictPrefix, P, R
  <2>2. Len(P) <= Len(R) /\ \A k \in 1..Len(P) : R[k] = P[k]
    BY <2>1, BeginsIsPrefix DEF Begins
  <2>3. QED
    BY <2>1, <2>2
<1> HIDE DEF dir
<1>4. SUFFICES ASSUME Bad # {} PROVE FALSE
  <2>1. ASSUME Bad = {} PROVE Begins(dir, key)
    <3>1. \A i \in 1..(n + 1) : i <= Len(key) /\ key[i] = dir[i]
      BY <1>1, <2>1
    <3>2. QED
      BY <1>1, <3>1 DEF Begins
  <2>2. QED
    BY <2>1 DEF dir
<1>5. PICK m \in Bad : \A k \in Bad : m <= k
  <2>1. Bad \in SUBSET Nat
    BY <1>1
  <2> HIDE DEF Bad
  <2>2. QED
    BY <1>4, <2>1, Least
<1>6. m \in 1..(n + 1) /\ (m > Len(key) \/ key[m] # dir[m])
  BY <1>5
<1>7. \A i \in 1..(m - 1) : i <= n /\ i <= Len(key) /\ key[i] = p[i]
  BY <1>1, <1>5
<1> DEFINE C == Cut(p)[m - 1]
<1>8. m - 1 \in 0..n /\ m - 1 <= Len(key)
  BY <1>1, <1>6, <1>7
<1>9. Cut(key)[m - 1] = C
  BY <1>1, <1>7, <1>8, CutAgrees
<1>10. C \in Parts
  BY <1>8, CutGrows
<1>11. m <= n => Grown(Extend(C, p[m]), P)
  <2>1. ASSUME m <= n PROVE m \in 1..Len(p) /\ Cut(p)[m] = Extend(C, p[m])
    BY <1>1, <1>6, <2>1, CutSteps
  <2>2. QED
    BY <1>1, <2>1, CutGrows DEF Components
<1>12. m <= Len(key) => Grown(Extend(C, key[m]), R)
  <2>1. ASSUME m <= Len(key) PROVE m \in 1..Len(key) /\ Cut(key)[m] = Extend(C, key[m])
    BY <1>1, <1>6, <1>9, <2>1, CutSteps
  <2>2. QED
    BY <1>1, <2>1, CutGrows DEF Components
<1>13. m = n + 1 => C = P
  BY <1>1 DEF Components
<1>14. m = Len(key) + 1 => C = R
  BY <1>1, <1>9 DEF Components
<1>15. Grown(C, P)
  BY <1>1, <1>8, CutGrows DEF Components
<1>16. Len(C) \in Nat \ {0} /\ Len(P) \in Nat \ {0} /\ Len(R) \in Nat /\ Len(C) <= Len(P)
  BY <1>2, <1>10, <1>15 DEF Parts, Grown
<1> HIDE DEF C, P, R, Bad
<1>17. ASSUME Len(C) \in 1..Len(P), P[Len(C)] # R[Len(C)] PROVE FALSE
  BY <1>3, <1>17
<1>18. CASE m > Len(key)
  <2>1. C = R
    BY <1>1, <1>6, <1>8, <1>14, <1>18
  <2>2. QED
    BY <1>3, <1>16, <2>1
<1>19. CASE m <= Len(key) /\ m = n + 1
  <2>1. key[m] # "/" /\ key[m] \in Chars
    BY <1>1, <1>6, <1>19
  <2>2. Len(C) \in 1..Len(P) /\ R[Len(C)] # P[Len(C)]
    BY <1>2, <1>10, <1>12, <1>13, <1>19, <2>1, Parted
  <2>3. QED
    BY <1>17, <2>2
<1>20. CASE m <= Len(key) /\ m <= n
  <2>1. key[m] # p[m] /\ key[m] \in Chars /\ p[m] \in Chars
    BY <1>1, <1>6, <1>20
  <2>2. CASE key[m] # "/"
    <3>1. Len(C) \in 1..Len(P) /\ R[Len(C)] # P[Len(C)]
      BY <1>2, <1>10, <1>11, <1>12, <1>20, <2>1, <2>2, Parted
    <3>2. QED
      BY <1>17, <3>1
  <2>3. CASE key[m] = "/"
    <3>1. Len(C) \in 1..Len(P) /\ P[Len(C)] # R[Len(C)]
      BY <1>2, <1>10, <1>11, <1>12, <1>20, <2>1, <2>3, Parted
    <3>2. QED
      BY <1>17, <3>1
  <2>4. QED
    BY <2>2, <2>3
<1>21. QED
  BY <1>1, <1>6, <1>18, <1>19, <1>20

LEMMA ShortNames == <<"/">> \in Name /\ <<"/", "manifest">> \in Name
<1>1. ASSUME NEW S, NEW c \in S, NEW d \in S PROVE <<c>> \in Seq(S) /\ <<c, d>> \in Seq(S)
  OBVIOUS
<1>2. "/" \in Chars /\ "manifest" \in Chars
  BY EnvironmentAssumption
<1>3. QED
  BY <1>1, <1>2 DEF Name

(* starts_with("prefix/") says what a comparison of the components says.   *)
LEMMA BelowIsComponents ==
  ASSUME NEW p \in Name, NEW key \in Name
  PROVE  IsPrefix(p \o <<"/">>, key) <=> IsStrictPrefix(Components(p), Components(key))
<1>1. p \o <<"/">> \in Seq(Chars) /\ key \in Seq(Chars)
  <2>1. p \in Seq(Chars) /\ key \in Seq(Chars)
    BY DEF Name
  <2>2. <<"/">> \in Seq(Chars)
    BY ShortNames DEF Name
  <2>3. QED
    BY <2>1, <2>2
<1>2. QED
  BY <1>1, BeginsIsPrefix, BelowForward, BelowBackward

-----------------------------------------------------------------------------
(* The place of the settings.                                              *)

(* The script exports a prefix only over one that was exported, and then   *)
(* one that means the same.                                                *)
LEMMA SamePrefix ==
  ASSUME shell \in Shells
  PROVE  S3Prefix(ScriptExports) = S3Prefix(HandExports)
<1>1. CASE shell.prefix = None
  BY <1>1 DEF S3Prefix, Var, ScriptExports, HandExports
<1>2. CASE shell.prefix = <<>> /\ shell.prefix # None
  <2>1. ScriptExports["prefix"] = Default /\ HandExports["prefix"] = <<>>
    BY <1>2 DEF ScriptExports, ScriptPrefix, HandExports
  <2>2. Var(ScriptExports, "prefix") = Default /\ Var(HandExports, "prefix") = <<>>
    BY <1>2, <2>1, EnvironmentAssumption DEF Var
  <2>3. QED
    BY <2>2 DEF S3Prefix
<1>3. CASE shell.prefix \notin {None, <<>>}
  <2>1. ScriptExports["prefix"] = HandExports["prefix"]
    BY <1>3 DEF ScriptExports, ScriptPrefix, HandExports
  <2>2. QED
    BY <1>3, <2>1 DEF S3Prefix, Var, HandExports
<1>4. QED
  BY <1>1, <1>2, <1>3

(* The mode that the script exports goes before the file's.                *)
LEMMA ScriptMode == Mode(ScriptExports) = "init-key"
  BY EnvironmentAssumption DEF Mode, Var, ScriptExports, Modes

LEMMA PlaceStays == UNCHANGED <<shell, file>> => Place' = Place
  BY DEF Place, HandExports, S3Prefix, Var, FromFile, FirstBad

LEMMA InitInv == Init => IndInv
  BY DEF Init, IndInv

(* Either way to start leads to the place of the present settings.         *)
LEMMA StartInv ==
  ASSUME IndInv, NEW by \in {"hand", "script"}, NEW exported, Start(by, exported),
         S3Prefix(exported) = S3Prefix(HandExports),
         by = "script" => Mode(exported) = "init-key"
  PROVE  IndInv'
<1>1. Place' = Place
  BY PlaceStays DEF Start
<1>2. /\ broker' # None => ObjectKey(broker'.prefix) = Place
      /\ broker'.by = "script" => broker'.mode = "init-key"
  BY DEF Start, Place
<1>3. QED
  BY <1>1, <1>2 DEF IndInv, Start

LEMMA StepInv == IndInv /\ [Next]_vars => IndInv'
<1>1. SUFFICES ASSUME IndInv, [Next]_vars PROVE IndInv'
  OBVIOUS
<1>2. CASE Configure
  <2>1. manifest' # None =>
          /\ manifest' = [key |-> manifest'.key, same |-> manifest'.same]
          /\ ~manifest'.same
    <3>1. CASE manifest = None
      BY <1>2, <3>1 DEF Configure
    <3>2. CASE manifest # None
      <4>1. manifest' = [manifest EXCEPT !.same = FALSE]
        BY <1>2, <3>2 DEF Configure
      <4>2. manifest = [key |-> manifest.key, same |-> manifest.same]
        BY <1>1, <3>2 DEF IndInv
      <4>3. manifest' = [key |-> manifest.key, same |-> FALSE]
        BY <4>1, <4>2
      <4>4. QED
        BY <4>3
    <3>3. QED
      BY <3>1, <3>2
  <2>2. broker' = None /\ shell' \in Shells
    BY <1>2 DEF Configure, Shells
  <2>3. QED
    BY <2>1, <2>2 DEF IndInv
<1>3. CASE StartByHand
  BY <1>1, <1>3, StartInv DEF StartByHand, HandExports
<1>4. CASE StartByScript
  <2>1. S3Prefix(ScriptExports) = S3Prefix(HandExports)
    BY <1>1, SamePrefix DEF IndInv
  <2>2. QED
    BY <1>1, <1>4, <2>1, ScriptMode, StartInv DEF StartByScript
<1>5. CASE Initialize
  <2>1. Place' = Place /\ manifest' = [key |-> Place, same |-> TRUE]
    BY <1>1, <1>5, PlaceStays DEF Initialize, IndInv
  <2>2. QED
    BY <1>1, <1>5, <2>1 DEF Initialize, IndInv
<1>6. CASE Stop
  <2>1. Place' = Place
    BY <1>6, PlaceStays DEF Stop
  <2>2. QED
    BY <1>1, <1>6, <2>1 DEF Stop, IndInv
<1>7. CASE UNCHANGED vars
  <2>1. Place' = Place
    BY <1>7, PlaceStays DEF vars
  <2>2. QED
    BY <1>1, <1>7, <2>1 DEF vars, IndInv
<1>8. QED
  BY <1>1, <1>2, <1>3, <1>4, <1>5, <1>6, <1>7 DEF Next

LEMMA Invariant == Spec => []IndInv
  BY InitInv, StepInv, PTL DEF Spec

(* Trimming leaves a name.                                                 *)
LEMMA TrimIsName ==
  ASSUME NEW value \in Name
  PROVE  Trim(value) \in Name
<1> DEFINE kept == {i \in DOMAIN value : value[i] # "/"}
<1>1. value \in Seq(Chars) /\ Len(value) \in Nat /\ DOMAIN value = 1..Len(value)
  BY DEF Name
<1>2. CASE kept = {}
  <2>1. Trim(value) = <<>>
    BY <1>2 DEF Trim
  <2>2. QED
    BY <2>1 DEF Name
<1>3. CASE kept # {}
  <2>1. kept \in SUBSET (1..Len(value))
    BY <1>1
  <2>2. Trim(value) = SubSeq(value, Min(kept), Max(kept))
    BY <1>3 DEF Trim
  <2> HIDE DEF kept
  <2>3. Min(kept) \in kept
    <3>1. \E m \in kept : \A n \in kept : m <= n
      BY <1>1, <1>3, <2>1, Least
    <3>2. QED
      BY <3>1 DEF Min
  <2>4. Max(kept) \in kept
    <3> DEFINE turned == {n \in 0..Len(value) : Len(value) - n \in kept}
    <3>1. turned \in SUBSET Nat
      BY <1>1
    <3>2. turned # {}
      <4>1. PICK i \in kept : TRUE
        BY <1>3
      <4>2. Len(value) - i \in 0..Len(value) /\ Len(value) - (Len(value) - i) = i
        BY <1>1, <2>1, <4>1
      <4>3. QED
        BY <4>1, <4>2
    <3>3. PICK n \in turned : \A k \in turned : n <= k
      <4> HIDE DEF turned
      <4>1. QED
        BY <3>1, <3>2, Least
    <3>4. \A i \in kept : Len(value) - n >= i
      <4>1. TAKE i \in kept
      <4>2. Len(value) - i \in 0..Len(value) /\ Len(value) - (Len(value) - i) = i
        BY <1>1, <2>1
      <4>3. n <= Len(value) - i
        BY <3>3, <4>2
      <4>4. QED
        BY <1>1, <2>1, <3>3, <4>3
    <3>5. \E m \in kept : \A i \in kept : m >= i
      BY <3>3, <3>4
    <3>6. QED
      BY <3>5 DEF Max
  <2>5. Min(kept) \in 1..Len(value) /\ Max(kept) \in 1..Len(value)
    BY <2>1, <2>3, <2>4
  <2>6. SubSeq(value, Min(kept), Max(kept)) \in Seq(Chars)
    <3>1. ASSUME NEW s \in Seq(Chars), NEW m \in 1..Len(s), NEW n \in 1..Len(s)
          PROVE  SubSeq(s, m, n) \in Seq(Chars)
      OBVIOUS
    <3>2. QED
      BY <1>1, <2>5, <3>1
  <2>7. QED
    BY <2>2, <2>6 DEF Name
<1>4. QED
  BY <1>2, <1>3

(* A prefix from the .env file is a name.                                  *)
LEMMA FileHoldsNames ==
  ASSUME file \in Files
  PROVE  FromFile("prefix") \in Name \cup {None}
<1> DEFINE bad == {i \in DOMAIN file : file[i].var = "bad"}
           lines == {i \in 1..(FirstBad - 1) : file[i].var = "prefix"}
<1>1. /\ file \in Seq(Range(file))
      /\ \A line \in Range(file) : line.var = "prefix" => line.value \in Name
  BY EnvironmentAssumption
<1>2. Len(file) \in Nat /\ DOMAIN file = 1..Len(file)
  BY <1>1
<1>3. FirstBad \in 1..(Len(file) + 1)
  <2>1. CASE bad = {}
    BY <1>2, <2>1 DEF FirstBad
  <2>2. CASE bad # {}
    <3>1. bad \in SUBSET Nat /\ bad \subseteq 1..Len(file) /\ FirstBad = Min(bad)
      BY <1>2, <2>2 DEF FirstBad
    <3> HIDE DEF bad
    <3>2. Min(bad) \in bad
      <4>1. \E m \in bad : \A n \in bad : m <= n
        BY <2>2, <3>1, Least
      <4>2. QED
        BY <4>1 DEF Min
    <3>3. Min(bad) \in 1..Len(file)
      BY <3>1, <3>2
    <3>4. QED
      BY <1>2, <3>1, <3>3
  <2>3. QED
    BY <2>1, <2>2
<1>4. CASE lines = {}
  BY <1>4 DEF FromFile
<1>5. CASE lines # {}
  <2>1. /\ lines \in SUBSET Nat /\ FromFile("prefix") = file[Min(lines)].value
        /\ \A i \in lines : i \in DOMAIN file /\ file[i].var = "prefix"
    BY <1>2, <1>3, <1>5 DEF FromFile
  <2> HIDE DEF lines
  <2>2. Min(lines) \in lines
    <3>1. \E m \in lines : \A n \in lines : m <= n
      BY <1>5, <2>1, Least
    <3>2. QED
      BY <3>1 DEF Min
  <2>3. file[Min(lines)] \in Range(file)
    BY <2>1, <2>2 DEF Range
  <2>4. QED
    BY <1>1, <2>1, <2>2, <2>3
<1>6. QED
  BY <1>4, <1>5

(* Whatever a broker is started with, its prefix is a name.                *)
LEMMA PrefixIsName ==
  ASSUME file \in Files, NEW exported,
         exported["prefix"] \in Spellings \cup {None, Default}
  PROVE  S3Prefix(exported) \in Name
<1>1. Var(exported, "prefix") \in Name \cup {None}
  BY FileHoldsNames, EnvironmentAssumption DEF Var
<1> DEFINE value == Var(exported, "prefix")
           chosen == IF value \in {None, <<>>} THEN Default ELSE value
<1>2. chosen \in Name
  BY <1>1, EnvironmentAssumption
<1>3. S3Prefix(exported) = Trim(chosen)
  BY DEF S3Prefix
<1>4. QED
  BY <1>2, <1>3, TrimIsName

LEMMA ObjectKeyIsName ==
  ASSUME NEW prefix \in Name
  PROVE  ObjectKey(prefix) \in Name /\ Begins(prefix \o <<"/">>, ObjectKey(prefix))
<1>1. ASSUME NEW S, NEW v \in Seq(S), NEW w \in Seq(S) PROVE v \o w \in Seq(S)
  OBVIOUS
<1>2. prefix \in Seq(Chars)
  BY DEF Name
<1>3. ObjectKey(prefix) \in Name
  BY <1>1, <1>2, ShortNames DEF Name, ObjectKey
<1>4. Begins(prefix \o <<"/">>, ObjectKey(prefix))
  BY <1>2 DEF Begins, ObjectKey
<1>5. QED
  BY <1>3, <1>4

(* The names that occur are sequences of characters.                      *)
LEMMA NamesStep == IndInv /\ NamesInv /\ [Next]_vars => NamesInv'
<1>1. SUFFICES ASSUME IndInv, NamesInv, [Next]_vars PROVE NamesInv'
  OBVIOUS
<1> USE DEF NamesInv
<1>2. CASE Configure
  <2>1. manifest # None => manifest = [key |-> manifest.key, same |-> manifest.same]
    BY <1>1 DEF IndInv
  <2>2. manifest # None => manifest'.key = manifest.key
    <3>1. ASSUME NEW key, NEW same
          PROVE  [[key |-> key, same |-> same] EXCEPT !.same = FALSE].key = key
      OBVIOUS
    <3>2. manifest # None => manifest' = [manifest EXCEPT !.same = FALSE]
      BY <1>2 DEF Configure
    <3>3. QED
      BY <2>1, <3>1, <3>2
  <2>3. manifest = None => manifest' = None
    BY <1>2 DEF Configure
  <2>4. QED
    BY <1>1, <1>2, <2>2, <2>3 DEF Configure
<1>3. ASSUME NEW by, NEW exported, Start(by, exported),
             exported["prefix"] \in Spellings \cup {None, Default}
      PROVE  NamesInv'
  <2>1. S3Prefix(exported) \in Name
    BY <1>1, <1>3, PrefixIsName
  <2>2. broker'.prefix = S3Prefix(exported)
    BY <1>3 DEF Start
  <2>3. QED
    BY <1>1, <1>3, <2>1, <2>2 DEF Start
<1>4. CASE StartByHand
  <2>1. [prefix |-> shell.prefix, mode |-> shell.mode]["prefix"] \in Spellings \cup {None, Default}
    BY <1>1 DEF Shells
  <2>2. QED
    BY <1>3, <1>4, <2>1 DEF StartByHand
<1>5. CASE StartByScript
  <2>1. ScriptExports["prefix"] \in Spellings \cup {None, Default}
    BY <1>1 DEF Shells, ScriptExports, ScriptPrefix
  <2>2. QED
    BY <1>3, <1>5, <2>1 DEF StartByScript
<1>6. CASE Initialize
  <2>1. manifest'.key \in Name
    BY <1>1, <1>6, ObjectKeyIsName DEF Initialize
  <2>2. QED
    BY <1>1, <1>6, <2>1 DEF Initialize
<1>7. CASE Stop
  BY <1>1, <1>7 DEF Stop
<1>8. CASE UNCHANGED vars
  BY <1>1, <1>8 DEF vars
<1>9. QED
  BY <1>1, <1>2, <1>4, <1>5, <1>6, <1>7, <1>8 DEF Next

LEMMA NamesInvariant == Spec => []NamesInv
<1>1. Init => NamesInv
  BY DEF Init, NamesInv
<1>2. QED
  BY <1>1, NamesStep, Invariant, PTL DEF Spec

-----------------------------------------------------------------------------

(* AllowedIsBelow: the comparison of strings in validate_s3_target is a    *)
(* comparison of components, for every prefix the operator may spell and   *)
(* every manifest that an earlier configuration left: "a" does not let     *)
(* anyone at "ab/manifest", and a broker lets its own tees at their keys.  *)
THEOREM AllowedBelow == Spec => []AllowedIsBelow
<1>1. NamesInv => AllowedIsBelow
  <2>1. SUFFICES ASSUME NamesInv, broker # None
                 PROVE  /\ Allowed(ObjectKey(broker.prefix), broker.prefix)
                        /\ manifest # None =>
                             (Allowed(manifest.key, broker.prefix)
                                <=> IsStrictPrefix(Components(broker.prefix),
                                                   Components(manifest.key)))
    BY DEF AllowedIsBelow
  <2>2. broker.prefix \in Name /\ (manifest # None => manifest.key \in Name)
    BY <2>1 DEF NamesInv
  <2>3. Allowed(ObjectKey(broker.prefix), broker.prefix)
    BY <2>2, ObjectKeyIsName, BelowIsComponents, BelowForward DEF Allowed
  <2>4. QED
    BY <2>2, <2>3, BelowIsComponents DEF Allowed
<1>2. QED
  BY <1>1, NamesInvariant, PTL

(* SameSettingsSamePlace: S3_PREFIX reaches the broker with one meaning,   *)
(* through init-key-in-enclave.sh or without it, whatever is exported and  *)
(* whatever .env says.                                                     *)
THEOREM SamePlace == Spec => []SameSettingsSamePlace
<1>1. IndInv => SameSettingsSamePlace
  BY DEF IndInv, SameSettingsSamePlace
<1>2. QED
  BY <1>1, Invariant, PTL

(* ScriptInitializes: load_environment lets no file take the script's      *)
(* DECRYPT_SERVER_TEE_MODE back.                                           *)
THEOREM ScriptModeHolds == Spec => []ScriptInitializes
<1>1. IndInv => ScriptInitializes
  BY DEF IndInv, ScriptInitializes
<1>2. QED
  BY <1>1, Invariant, PTL
=============================================================================
