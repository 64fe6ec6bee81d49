---------------------------- MODULE LedgerProofs ----------------------------
(* The money of the funds component adds up, and the component implements the *)
(* abstract ledger, for every value of the constants.                         *)
EXTENDS SettlementProofs, FiniteSetTheorems, WellFoundedInduction

-----------------------------------------------------------------------------
(* Sums over finite sets. *)

\* g computes the sum of f over every subset of S, as the fold does it.
IsSum(g, f, S) ==
  g = [s \in SUBSET S |->
         IF s = {} THEN 0
         ELSE f[CHOOSE x \in s : TRUE] + g[s \ {CHOOSE x \in s : TRUE}]]

\* Induction over the subsets of a finite set: B holds them all when it holds
\* each of which it holds all smaller ones.
LEMMA Smallest ==
  ASSUME NEW S, IsFiniteSet(S), NEW B,
         \A T \in SUBSET S : (\A U \in SUBSET T : U # T => U \in B) => T \in B
  PROVE  S \in B
<1> SUFFICES ASSUME S \notin B PROVE FALSE
  OBVIOUS
<1> DEFINE Bad == {T \in SUBSET S : T \notin B}
<1>1. IsWellFoundedOn(StrictSubsetOrdering(S), SUBSET S)
  <2>1. FiniteSubsetsOf(S) = SUBSET S
    BY FS_FiniteSubsetsOfFinite
  <2>2. IsWellFoundedOn(StrictSubsetOrdering(S), FiniteSubsetsOf(S))
    BY FS_StrictSubsetOrderingWellFounded
  <2> QED
    BY <2>1, <2>2
<1>2. Bad # {} /\ Bad \subseteq SUBSET S
  <2>1. S \in Bad
    OBVIOUS
  <2> QED
    BY <2>1
<1>3. PICK T \in Bad : \A U \in Bad : <<U, T>> \notin StrictSubsetOrdering(S)
  <2> HIDE DEF Bad
  <2> QED
    BY <1>1, <1>2, WFMin
<1>5. ASSUME NEW U \in SUBSET T, U # T PROVE U \in B
  <2>1. U \in SUBSET S
    OBVIOUS
  <2>2. <<U, T>> \in StrictSubsetOrdering(S)
    BY <1>5 DEF StrictSubsetOrdering
  <2> QED
    BY <1>3, <2>1, <2>2
<1> QED
  BY <1>3, <1>5

\* A sum over a set is a fold, and that is a function on the subsets of the set.
LEMMA SumIs ==
  ASSUME NEW f, NEW S
  PROVE  SumFunctionOnSet(f, S) = (CHOOSE g : IsSum(g, f, S))[S]
BY DEF SumFunctionOnSet, FoldFunctionOnSet, MapThenFoldSet, IsSum

\* The element with which the fold begins.
First(S) == CHOOSE x \in S : TRUE

\* The equations of that function.
LEMMA IsSumAt ==
  ASSUME NEW g, NEW f, NEW S, IsSum(g, f, S), NEW T \in SUBSET S
  PROVE  /\ T = {} => g[T] = 0
         /\ T # {} => g[T] = f[First(T)] + g[T \ {First(T)}]
<1>1. g[T] = IF T = {} THEN 0
         ELSE f[CHOOSE x \in T : TRUE] + g[T \ {CHOOSE x \in T : TRUE}]
  BY DEF IsSum
<1> QED
  BY <1>1 DEF First

\* Whatever set it is defined for, that function says the same of a finite set.
LEMMA IsSumUnique ==
  ASSUME NEW g, NEW h, NEW f, NEW S, NEW T, NEW U \in SUBSET (S \cap T),
         IsFiniteSet(U), IsSum(g, f, S), IsSum(h, f, T)
  PROVE  g[U] = h[U]
<1> DEFINE Same == {V \in SUBSET U : g[V] = h[V]}
<1>1. ASSUME NEW V \in SUBSET U, \A W \in SUBSET V : W # V => W \in Same
      PROVE  V \in Same
  <2>1. CASE V = {}
    BY <2>1, IsSumAt
  <2>2. CASE V # {}
    <3>1. V \ {First(V)} \in SUBSET V /\ V \ {First(V)} # V
      BY <2>2 DEF First
    <3>2. V \ {First(V)} \in Same
      BY <1>1, <3>1
    <3>3. V \in SUBSET S /\ V \in SUBSET T
      OBVIOUS
    <3>4. /\ g[V] = f[First(V)] + g[V \ {First(V)}]
          /\ h[V] = f[First(V)] + h[V \ {First(V)}]
      BY <2>2, <3>3, IsSumAt
    <3> QED
      BY <3>2, <3>4
  <2> QED
    BY <2>1, <2>2
<1>2. U \in Same
  <2> HIDE DEF Same
  <2> QED
    BY <1>1, Smallest
<1> QED
  BY <1>2

\* There is such a function for every finite set.
LEMMA IsSumExists ==
  ASSUME NEW f, NEW S, IsFiniteSet(S)
  PROVE  \E g : IsSum(g, f, S)
<1> DEFINE Has == {T \in SUBSET S : \E g : IsSum(g, f, T)}
<1>1. ASSUME NEW T \in SUBSET S, \A U \in SUBSET T : U # T => U \in Has
      PROVE  T \in Has
  <2> DEFINE s(U) == CHOOSE g : IsSum(g, f, U)
             h == [V \in SUBSET T |-> 
                     IF V = {} THEN 0
                     ELSE f[First(V)] + s(V \ {First(V)})[V \ {First(V)}]]
  <2>1. ASSUME NEW U \in SUBSET T, U # T PROVE IsSum(s(U), f, U)
    <3>1. \E g : IsSum(g, f, U)
      BY <1>1, <2>1
    <3> QED
      BY <3>1
  <2>2. ASSUME NEW V \in SUBSET T, V # {}
        PROVE  h[V \ {First(V)}] = s(V \ {First(V)})[V \ {First(V)}]
    <3> DEFINE W == V \ {First(V)}
    <3>1. W \in SUBSET T /\ W # T /\ First(V) \in V
      BY <2>2 DEF First
    <3>2. IsSum(s(W), f, W)
      BY <2>1, <3>1
    <3>3. h[W] = IF W = {} THEN 0
                     ELSE f[First(W)] + s(W \ {First(W)})[W \ {First(W)}]
      BY <3>1
    <3>4. CASE W = {}
      <4>1. s(W)[W] = 0
        BY <3>2, <3>4, IsSumAt
      <4> QED
        BY <4>1, <3>3, <3>4
    <3>5. CASE W # {}
      <4> DEFINE X == W \ {First(W)}
      <4>1. X \in SUBSET T /\ X # T /\ X \in SUBSET W /\ IsFiniteSet(X)
        BY <3>1, <3>5, FS_Subset DEF First
      <4>2. IsSum(s(X), f, X)
        BY <2>1, <4>1
      <4>3. s(W)[X] = s(X)[X]
        <5> HIDE DEF s, X, W
        <5> QED
          BY <3>2, <4>1, <4>2, IsSumUnique
      <4>4. s(W)[W] = f[First(W)] + s(W)[X]
        <5>1. W \in SUBSET W
          OBVIOUS
        <5> HIDE DEF s, W
        <5> QED
          BY <3>2, <3>5, <5>1, IsSumAt
      <4> QED
        BY <3>3, <3>5, <4>3, <4>4
    <3> QED
      BY <3>4, <3>5
  <2>3. h = [V \in SUBSET T |-> 
               IF V = {} THEN 0 ELSE f[First(V)] + h[V \ {First(V)}]]
    <3> HIDE DEF s
    <3> QED BY <2>2
  <2>4. IsSum(h, f, T)
    <3> HIDE DEF h
    <3> QED
      BY <2>3 DEF IsSum, First
  <2> QED
    BY <2>4
<1>2. S \in Has
  <2> HIDE DEF Has
  <2> QED
    BY <1>1, Smallest
<1> QED
  BY <1>2

\* The equations of the sum.
LEMMA SumOf ==
  ASSUME NEW f, NEW S, IsFiniteSet(S)
  PROVE  /\ S = {} => SumFunctionOnSet(f, S) = 0
         /\ S # {} => SumFunctionOnSet(f, S) = f[First(S)] + SumFunctionOnSet(f, S \ {First(S)})
<1> DEFINE T == S \ {First(S)}
           g == CHOOSE g : IsSum(g, f, S)
           h == CHOOSE h : IsSum(h, f, T)
<1>0. IsFiniteSet(T) /\ T \in SUBSET (S \cap T)
  BY FS_Subset
<1>1. IsSum(g, f, S)
  BY IsSumExists
<1>2. IsSum(h, f, T)
  BY <1>0, IsSumExists
<1>3. SumFunctionOnSet(f, S) = g[S] /\ SumFunctionOnSet(f, T) = h[T]
  BY SumIs
<1>4. g[T] = h[T]
  <2> HIDE DEF T, g, h
  <2> QED
    BY <1>0, <1>1, <1>2, IsSumUnique
<1>5. /\ S = {} => g[S] = 0
      /\ S # {} => g[S] = f[First(S)] + g[T]
  <2> HIDE DEF g
  <2> QED
    BY <1>1, IsSumAt
<1> QED
  BY <1>3, <1>4, <1>5

\* No summands, no sum.
LEMMA SumEmpty == ASSUME NEW f PROVE SumFunctionOnSet(f, {}) = 0
BY SumOf, FS_EmptySet

\* A sum of integers is an integer.
LEMMA SumInt ==
  ASSUME NEW f, NEW S, IsFiniteSet(S), \A x \in S : f[x] \in Int
  PROVE  SumFunctionOnSet(f, S) \in Int
<1> DEFINE Good == {T \in SUBSET S : SumFunctionOnSet(f, T) \in Int}
<1>1. ASSUME NEW T \in SUBSET S, \A U \in SUBSET T : U # T => U \in Good
      PROVE  T \in Good
  <2>1. IsFiniteSet(T)
    BY FS_Subset
  <2>2. CASE T = {}
    BY <2>2, SumEmpty
  <2>3. CASE T # {}
    <3> DEFINE x == First(T)
    <3>1. x \in T /\ T \ {x} \in SUBSET T /\ T \ {x} # T
      BY <2>3 DEF First
    <3>2. SumFunctionOnSet(f, T) = f[x] + SumFunctionOnSet(f, T \ {x})
      BY <2>1, <2>3, SumOf
    <3>3. SumFunctionOnSet(f, T \ {x}) \in Int
      BY <1>1, <3>1
    <3> HIDE DEF x
    <3> QED
      BY <3>1, <3>2, <3>3
  <2> QED
    BY <2>2, <2>3
<1>2. S \in Good
  <2> HIDE DEF Good
  <2> QED
    BY <1>1, Smallest
<1> QED
  BY <1>2

\* A sum depends only on its summands.
LEMMA SumSame ==
  ASSUME NEW f, NEW g, NEW S, IsFiniteSet(S), \A x \in S : f[x] = g[x]
  PROVE  SumFunctionOnSet(f, S) = SumFunctionOnSet(g, S)
<1> DEFINE Good == {T \in SUBSET S :
                      SumFunctionOnSet(f, T) = SumFunctionOnSet(g, T)}
<1>1. ASSUME NEW T \in SUBSET S, \A U \in SUBSET T : U # T => U \in Good
      PROVE  T \in Good
  <2>1. IsFiniteSet(T)
    BY FS_Subset
  <2>2. CASE T = {}
    BY <2>2, SumEmpty
  <2>3. CASE T # {}
    <3> DEFINE x == First(T)
    <3>1. x \in T /\ T \ {x} \in SUBSET T /\ T \ {x} # T
      BY <2>3 DEF First
    <3>2. /\ SumFunctionOnSet(f, T) = f[x] + SumFunctionOnSet(f, T \ {x})
          /\ SumFunctionOnSet(g, T) = g[x] + SumFunctionOnSet(g, T \ {x})
      BY <2>1, <2>3, SumOf
    <3>3. SumFunctionOnSet(f, T \ {x}) = SumFunctionOnSet(g, T \ {x})
      BY <1>1, <3>1
    <3> HIDE DEF x
    <3> QED
      BY <3>1, <3>2, <3>3
  <2> QED
    BY <2>2, <2>3
<1>2. S \in Good
  <2> HIDE DEF Good
  <2> QED
    BY <1>1, Smallest
<1> QED
  BY <1>2

\* Any element may be taken out first: the order of the fold does not matter.
LEMMA SumWithout ==
  ASSUME NEW f, NEW S, IsFiniteSet(S), \A x \in S : f[x] \in Int, NEW y \in S
  PROVE  SumFunctionOnSet(f, S) = f[y] + SumFunctionOnSet(f, S \ {y})
<1> DEFINE Splits(T) == \A z \in T :
              SumFunctionOnSet(f, T) = f[z] + SumFunctionOnSet(f, T \ {z})
           Good == {T \in SUBSET S : Splits(T)}
<1>1. ASSUME NEW T \in SUBSET S, \A U \in SUBSET T : U # T => U \in Good
      PROVE  T \in Good
  <2> SUFFICES ASSUME NEW z \in T
               PROVE  SumFunctionOnSet(f, T) = f[z] + SumFunctionOnSet(f, T \ {z})
    OBVIOUS
  <2> DEFINE x == First(T)
  <2>1. IsFiniteSet(T) /\ x \in T
    BY FS_Subset DEF First
  <2>2. SumFunctionOnSet(f, T) = f[x] + SumFunctionOnSet(f, T \ {x})
    BY <2>1, SumOf
  <2> HIDE DEF x
  <2>3. CASE x = z
    BY <2>2, <2>3
  <2>4. CASE x # z
    <3>1. T \ {x} \in Good /\ z \in T \ {x}
      BY <1>1, <2>1, <2>4
    <3>2. T \ {z} \in Good /\ x \in T \ {z}
      BY <1>1, <2>1, <2>4
    <3> DEFINE rest == SumFunctionOnSet(f, (T \ {x}) \ {z})
    <3>3. SumFunctionOnSet(f, T \ {x}) = f[z] + rest
      BY <3>1
    <3>4. SumFunctionOnSet(f, T \ {z}) = f[x] + rest
      <4>1. (T \ {x}) \ {z} = (T \ {z}) \ {x}
        OBVIOUS
      <4>2. SumFunctionOnSet(f, T \ {z})
              = f[x] + SumFunctionOnSet(f, (T \ {z}) \ {x})
        BY <3>2
      <4> QED
        BY <4>1, <4>2, Zenon
    <3>5. IsFiniteSet((T \ {x}) \ {z})
      BY <2>1, FS_Subset
    <3>6. rest \in Int
      BY <3>5, SumInt
    <3>7. f[x] \in Int /\ f[z] \in Int
      BY <2>1
    <3> HIDE DEF rest
    <3> QED
      BY <2>2, <3>3, <3>4, <3>6, <3>7
  <2> QED
    BY <2>3, <2>4
<1>2. S \in Good
  <2> HIDE DEF Good
  <2> QED
    BY <1>1, Smallest
<1> QED
  BY <1>2

\* What x contributes to the sum of f over S.
Share(f, S, x) == IF x \in S THEN f[x] ELSE 0

\* A sum is one contribution and the sum of the others.
LEMMA SumShares ==
  ASSUME NEW f, NEW S, IsFiniteSet(S), NEW y, \A x \in S : f[x] \in Int
  PROVE  /\ SumFunctionOnSet(f, S) = Share(f, S, y) + SumFunctionOnSet(f, S \ {y})
         /\ Share(f, S, y) \in Int
         /\ IsFiniteSet(S \ {y}) /\ SumFunctionOnSet(f, S \ {y}) \in Int
<1>1. IsFiniteSet(S \ {y})
  BY FS_Subset
<1>2. SumFunctionOnSet(f, S \ {y}) \in Int
  BY <1>1, SumInt
<1>3. CASE y \in S
  BY <1>1, <1>2, <1>3, SumWithout DEF Share
<1>4. CASE y \notin S
  <2>1. S \ {y} = S
    BY <1>4
  <2>2. Share(f, S, y) = 0
    BY <1>4 DEF Share
  <2>3. SumFunctionOnSet(f, S \ {y}) = SumFunctionOnSet(f, S)
    BY <2>1, Zenon
  <2> QED
    BY <1>1, <1>2, <2>2, <2>3
<1> QED
  BY <1>3, <1>4

\* When one element changes, joins or leaves, the sum moves by what its
\* contribution does.
LEMMA SumMoves ==
  ASSUME NEW f, NEW g, NEW S, NEW T, IsFiniteSet(S), IsFiniteSet(T), NEW y,
         \A x \in S : f[x] \in Int, \A x \in T : g[x] \in Int,
         S \ {y} = T \ {y}, \A x \in S \ {y} : f[x] = g[x]
  PROVE  SumFunctionOnSet(g, T)
           = SumFunctionOnSet(f, S) - Share(f, S, y) + Share(g, T, y)
<1>1. /\ SumFunctionOnSet(f, S) = Share(f, S, y) + SumFunctionOnSet(f, S \ {y})
      /\ Share(f, S, y) \in Int
      /\ IsFiniteSet(S \ {y}) /\ SumFunctionOnSet(f, S \ {y}) \in Int
  BY SumShares
<1>2. /\ SumFunctionOnSet(g, T) = Share(g, T, y) + SumFunctionOnSet(g, T \ {y})
      /\ Share(g, T, y) \in Int
  BY SumShares
<1>3. SumFunctionOnSet(f, S \ {y}) = SumFunctionOnSet(g, S \ {y})
  BY <1>1, SumSame
<1>4. SumFunctionOnSet(g, S \ {y}) = SumFunctionOnSet(g, T \ {y})
  BY Zenon
<1> QED
  BY <1>1, <1>2, <1>3, <1>4

-----------------------------------------------------------------------------
(* The strengthening: what a request that has not committed yet was quoted. *)

\* Rates are the provider's, and who may commit has something to move, and a
\* rate of one if the money changes no currency.
Quoted(call) ==
  /\ call.rate \in Rates \cup {Par}
  /\ call.phase = "quoted" =>
       /\ SameCurrency(call.body) => call.rate = Par
       /\ Cents(call.body.amount) > 0
       /\ call.body.operation # "WITHDRAWAL" =>
            Convert(Cents(call.body.amount), call.rate) > 0

CallsAreQuoted == \A r \in Requests : req[r].phase # "idle" => Quoted(req[r])

\* How the local variables of a request may change: they begin, they go on to an
\* answer or another phase, or they are quoted once they are checked.
Goes(old, new) ==
  \/ new = old
  \/ /\ old.phase = "idle"
     /\ new.phase \in {"checked", "replayed", "failed"}
     /\ new.rate = Par
  \/ /\ old.phase # "idle" /\ new.phase # "idle"
     /\ new.user = old.user /\ new.key = old.key /\ new.body = old.body
     /\ \/ old.phase = "checked" /\ Quoted(new)
        \/ new.rate = old.rate /\ new.phase # "quoted"

CallsGo == \A s \in Requests : Goes(req[s], req'[s])

\* One request moves.
LEMMA OneGoes ==
  ASSUME FundsInv, NEW r \in Requests, NEW call, Goes(req[r], call),
         req' = [req EXCEPT ![r] = call]
  PROVE  CallsGo
BY DEF CallsGo, Goes, FundsInv, FundsTypeOK, DepositTypeOK, StoreTypeOK

\* Nobody moves.
LEMMA NobodyGoes == ASSUME req' = req PROVE CallsGo
BY DEF CallsGo, Goes

\* A request begins.
LEMMA SubmitGoes ==
  ASSUME FundsInv, NEW r \in Requests, NEW u, NEW k, NEW b, Submit(r, u, k, b)
  PROVE  CallsGo
<1> DEFINE Call(phase, t) ==
      [phase |-> phase, user |-> u, key |-> k, body |-> b,
       rate |-> Par, usd |-> 0, result |-> t]
<1>1. PICK phase, t :
        /\ phase \in {"checked", "replayed", "failed"}
        /\ req' = [req EXCEPT ![r] = Call(phase, t)]
  BY DEF Submit
<1>2. req[r].phase = "idle"
  BY DEF Submit
<1>3. Goes(req[r], Call(phase, t))
  BY <1>1, <1>2 DEF Goes
<1> HIDE DEF Call
<1> QED
  BY <1>1, <1>3, OneGoes

\* A transfer to its own account begins and fails.
LEMMA TransferSubmitGoes ==
  ASSUME FundsInv, NEW r \in Requests, NEW u, NEW k, NEW b,
         TransferSubmit(r, u, k, b)
  PROVE  CallsGo
<1> DEFINE call == [phase |-> "failed", user |-> u, key |-> k, body |-> b,
                    rate |-> Par, usd |-> 0, result |-> Null]
<1>1. CASE Submit(r, u, k, b)
  BY <1>1, SubmitGoes
<1>2. CASE ~Submit(r, u, k, b)
  <2>1. req[r].phase = "idle" /\ req' = [req EXCEPT ![r] = call]
    BY <1>2 DEF TransferSubmit
  <2>2. Goes(req[r], call)
    BY <2>1 DEF Goes
  <2> HIDE DEF call
  <2> QED
    BY <2>1, <2>2, OneGoes
<1> QED
  BY <1>1, <1>2

\* A request answers or goes on, with the rate it has.
LEMMA AnswerGoes ==
  ASSUME FundsInv, NEW r \in Requests, req[r].phase # "idle",
         NEW phase, phase \notin {"idle", "quoted"}, NEW t,
         Answer(r, phase, t) \/ Goto(r, phase)
  PROVE  CallsGo
<1>1. req[r] \in Calls /\ req \in [Requests -> Calls \cup {Idle}]
  BY ActiveCall DEF FundsInv, FundsTypeOK, DepositTypeOK, StoreTypeOK
<1>2. PICK call : /\ req' = [req EXCEPT ![r] = call]
                  /\ call.phase = phase /\ call.rate = req[r].rate
                  /\ call.user = req[r].user /\ call.key = req[r].key
                  /\ call.body = req[r].body
  <2>1. CASE Answer(r, phase, t)
    <3> DEFINE call == [req[r] EXCEPT !.phase = phase, !.result = t]
    <3>1. /\ call.phase = phase /\ call.rate = req[r].rate
          /\ call.user = req[r].user /\ call.key = req[r].key
          /\ call.body = req[r].body
      BY <1>1 DEF Calls
    <3>2. req' = [req EXCEPT ![r] = call]
      BY <1>1, <2>1 DEF Answer, Calls
    <3> QED
      BY <3>1, <3>2
  <2>2. CASE Goto(r, phase)
    <3> DEFINE call == [req[r] EXCEPT !.phase = phase]
    <3>1. /\ call.phase = phase /\ call.rate = req[r].rate
          /\ call.user = req[r].user /\ call.key = req[r].key
          /\ call.body = req[r].body
      BY <1>1 DEF Calls
    <3>2. req' = [req EXCEPT ![r] = call]
      BY <2>2 DEF Goto
    <3> QED
      BY <3>1, <3>2
  <2> QED
    BY <2>1, <2>2
<1>3. Goes(req[r], call)
  BY <1>2 DEF Goes
<1> QED
  BY <1>2, <1>3, OneGoes

\* What the provider quotes is among the rates.
LEMMA QuotesAreGiven ==
  ASSUME NEW from, NEW to
  PROVE  /\ Quotes(from, to) \subseteq Rates \cup {Par}
         /\ from = to => Quotes(from, to) = {Par}
BY DEF Quotes

\* A request gets a rate, and may commit if it has something to move.
LEMMA RateGoes ==
  ASSUME FundsInv, NEW r \in Requests, req[r].phase = "checked",
         NEW phase \in {"quoted", "failed"}, NEW rate \in Rates \cup {Par}, NEW usd,
         phase = "quoted" =>
           /\ SameCurrency(req[r].body) => rate = Par
           /\ Cents(req[r].body.amount) > 0
           /\ req[r].body.operation # "WITHDRAWAL" =>
                Convert(Cents(req[r].body.amount), rate) > 0,
         req' = [req EXCEPT ![r].phase = phase, ![r].rate = rate, ![r].usd = usd]
  PROVE  CallsGo
<1> DEFINE call == [req[r] EXCEPT !.phase = phase, !.rate = rate, !.usd = usd]
<1>1. req[r] \in Calls /\ req \in [Requests -> Calls \cup {Idle}]
  BY ActiveCall DEF FundsInv, FundsTypeOK, DepositTypeOK, StoreTypeOK
<1>2. /\ call.phase = phase /\ call.rate = rate
      /\ call.user = req[r].user /\ call.key = req[r].key
      /\ call.body = req[r].body
  BY <1>1 DEF Calls
<1>3. req' = [req EXCEPT ![r] = call]
  BY <1>1 DEF Calls
<1> HIDE DEF call
<1>4. Goes(req[r], call)
  BY <1>2 DEF Goes, Quoted
<1> QED
  BY <1>3, <1>4, OneGoes

\* A request gets a quote.
LEMMA QuoteGoes ==
  ASSUME FundsInv, NEW r \in Requests,
         WithdrawQuote(r) \/ TransferQuote(r) \/ DepositQuote(r)
  PROVE  CallsGo
<1> DEFINE amount == Cents(req[r].body.amount)
           Sets(phase, rate, usd) ==
             req' = [req EXCEPT ![r].phase = phase, ![r].rate = rate, ![r].usd = usd]
<1>1. req[r].phase = "checked"
  BY DEF WithdrawQuote, TransferQuote, DepositQuote
<1>2. req[r] \in Calls /\ req \in [Requests -> Calls \cup {Idle}]
  BY <1>1, ActiveCall DEF FundsInv, FundsTypeOK, DepositTypeOK, StoreTypeOK
<1>3. CASE Answer(r, "failed", Null)
  BY <1>1, <1>3, AnswerGoes
<1>4. CASE WithdrawQuote(r) /\ ~Answer(r, "failed", Null)
  <2>1. MayWithdraw(r) /\ req[r].body.operation = "WITHDRAWAL" /\ amount > 0
    BY <1>4 DEF WithdrawQuote, MayWithdraw
  <2>2. PICK rate, usd :
          /\ rate \in Rates \cup {Par}
          /\ SameCurrency(req[r].body) => rate = Par
          /\ Sets("quoted", rate, usd)
    <3>1. \E toUsd \in Quotes(AccountCurrency[req[r].body.account], USD),
             rate \in Quotes(AccountCurrency[req[r].body.account],
                             req[r].body.payout) :
            Sets("quoted", rate, Convert(amount, toUsd))
      BY <1>4 DEF WithdrawQuote
    <3>2. SameCurrency(req[r].body) =>
            AccountCurrency[req[r].body.account] = req[r].body.payout
      BY <2>1 DEF SameCurrency
    <3> HIDE DEF Sets
    <3> QED
      BY <3>1, <3>2, QuotesAreGiven
  <2> QED
    BY <1>1, <2>1, <2>2, RateGoes
<1>5. CASE /\ TransferQuote(r) \/ DepositQuote(r)
           /\ ~Answer(r, "failed", Null)
  <2>1. amount > 0
    BY <1>5 DEF TransferQuote, MayTransfer, DepositQuote
  <2>2. PICK rate \in Rates \cup {Par} :
          /\ SameCurrency(req[r].body) => rate = Par
          /\ req' = [req EXCEPT
               ![r].phase = IF Convert(amount, rate) > 0 THEN "quoted" ELSE "failed",
               ![r].rate = rate]
    <3>1. CASE TransferQuote(r)
      <4>1. SameCurrency(req[r].body) =>
              AccountCurrency[req[r].body.account]
                = AccountCurrency[req[r].body.destination]
        BY <3>1 DEF TransferQuote, SameCurrency
      <4> QED
        BY <1>5, <3>1, <4>1, QuotesAreGiven DEF TransferQuote
    <3>2. CASE DepositQuote(r)
      <4>1. SameCurrency(req[r].body) =>
              req[r].body.currency = AccountCurrency[req[r].body.account]
        BY <3>2 DEF DepositQuote, SameCurrency
      <4> QED
        BY <1>5, <3>2, <4>1, QuotesAreGiven DEF DepositQuote
    <3> QED
      BY <1>5, <3>1, <3>2
  <2>3. PICK phase \in {"quoted", "failed"} :
          /\ phase = "quoted" => Convert(amount, rate) > 0
          /\ req' = [req EXCEPT ![r].phase = phase, ![r].rate = rate]
    BY <2>2
  <2>4. Sets(phase, rate, req[r].usd)
    BY <1>2, <2>3 DEF Calls
  <2>5. phase = "quoted" =>
          /\ SameCurrency(req[r].body) => rate = Par
          /\ Cents(req[r].body.amount) > 0
          /\ req[r].body.operation # "WITHDRAWAL" =>
               Convert(Cents(req[r].body.amount), rate) > 0
    BY <2>1, <2>2, <2>3
  <2> QED
    BY <1>1, <2>4, <2>5, RateGoes
<1> QED
  BY <1>3, <1>4, <1>5

\* Every step.
LEMMA CallsMove == ASSUME FundsInv, [FundsNext]_fundsVars PROVE CallsGo
<1>1. CASE UNCHANGED fundsVars
  BY <1>1, NobodyGoes DEF fundsVars, storeVars
<1>2. ASSUME NEW r \in Requests, RequestAborts(r) PROVE CallsGo
  BY <1>2, AnswerGoes DEF RequestAborts, InFlight
<1>3. ASSUME NEW u \in Users, DeactivateCustomer(u) PROVE CallsGo
  BY <1>3, NobodyGoes DEF DeactivateCustomer
<1>4. ASSUME NEW r \in Requests, WithdrawCommit(r) PROVE CallsGo
  BY <1>4, AnswerGoes DEF WithdrawCommit
<1>5. ASSUME NEW r \in Requests, TransferCommit(r) PROVE CallsGo
  BY <1>5, AnswerGoes DEF TransferCommit
<1>6. ASSUME NEW r \in Requests, 
             DepositCommit(r) \/ OpenCheckout(r) \/ MarkFailed(r) \/ SaveCheckout(r)
      PROVE  CallsGo
  BY <1>6, AnswerGoes DEF DepositCommit, OpenCheckout, MarkFailed, SaveCheckout
<1>7. ASSUME NEW r \in Requests,
             \/ ApproveWithdrawal(r) \/ RejectWithdrawal(r) \/ ProcessWithdrawal(r)
             \/ CompleteWithdrawal(r) \/ FailWithdrawal(r)
      PROVE  CallsGo
  BY <1>7, NobodyGoes DEF ApproveWithdrawal, RejectWithdrawal, ProcessWithdrawal,
     CompleteWithdrawal, FailWithdrawal, FailPending, FailAgain
<1>8. ASSUME NEW r \in Requests,
             \/ CustomerPays(r) \/ DelayedPaymentEnds(r) \/ SessionExpires(r)
             \/ Webhook(r)
      PROVE  CallsGo
  BY <1>8, NobodyGoes DEF CustomerPays, DelayedPaymentEnds, SessionExpires,
     Webhook, StripePaid, StripeNotPaid, CoinPaymentsRead, CoinPaymentsSettle,
     DeliveryDies, storeVars
<1>9. CASE WithdrawalStep
  BY <1>4, <1>7, <1>9, SubmitGoes, QuoteGoes DEF WithdrawalStep, WithdrawSubmit
<1>10. CASE TransferStep
  BY <1>5, <1>10, TransferSubmitGoes, QuoteGoes DEF TransferStep
<1>11. CASE DepositStep
  BY <1>6, <1>8, <1>11, SubmitGoes, QuoteGoes DEF DepositStep, DepositSubmit
<1> QED
  BY <1>1, <1>2, <1>3, <1>9, <1>10, <1>11 DEF FundsNext

\* What a request was quoted stands until it commits.
LEMMA QuotesStand == ASSUME CallsAreQuoted, CallsGo PROVE CallsAreQuoted'
<1> SUFFICES ASSUME NEW r \in Requests, req'[r].phase # "idle"
             PROVE  Quoted(req'[r])
  BY DEF CallsAreQuoted
<1>1. Goes(req[r], req'[r])
  BY DEF CallsGo
<1>2. req[r].phase # "idle" => Quoted(req[r])
  BY DEF CallsAreQuoted
<1> QED
  BY <1>1, <1>2 DEF Goes, Quoted

-----------------------------------------------------------------------------
(* The steps of the component, as what they do to one row and to the money. *)

\* Row r appears: what request r asked for and was quoted.
Makes(r, row) ==
  /\ r \in Requests \ Rows
  /\ row \in TxnRows
  /\ req[r].phase = "quoted"
  /\ row.amount = Cents(req[r].body.amount)
  /\ row.converted = Convert(row.amount, req[r].rate)
  /\ txn' = [txn EXCEPT ![r] = row]

\* Row r changes its status or approval, and nothing else.
Changes(r, row) ==
  /\ r \in Rows
  /\ row \in TxnRows
  /\ row = [txn[r] EXCEPT !.status = row.status, !.approval = row.approval]
  /\ txn' = [txn EXCEPT ![r] = row]

\* What is taken from an account is there, and is not held already.
Affordable(row) == row.amount \in LedgerSums /\ row.amount > 0
                   /\ row.amount <= Available(row.account)

Holds(r, row) ==
  /\ Makes(r, row) /\ Affordable(row)
  /\ row.type = "WITHDRAWAL" /\ row.status = "PENDING"
  /\ reserved' = [reserved EXCEPT ![row.account] = @ + row.amount]
  /\ UNCHANGED balance

Expects(r, row) ==
  /\ Makes(r, row)
  /\ row.type = "DEPOSIT" /\ row.status = "PENDING"
  /\ row.converted \in LedgerSums /\ row.converted > 0
  /\ UNCHANGED <<balance, reserved>>

Moves(r, row) ==
  /\ Makes(r, row) /\ Affordable(row)
  /\ row.type = "TRANSFER" /\ row.status = "COMPLETED"
  /\ row.destination \in Accounts \ {row.account}
  /\ row.converted \in LedgerSums /\ row.converted > 0
  /\ balance' = [balance EXCEPT ![row.account] = @ - row.amount,
                                ![row.destination] = @ + row.converted]
  /\ UNCHANGED reserved

Judges(r, row) ==
  /\ Changes(r, row)
  /\ row.status = txn[r].status
  /\ UNCHANGED <<balance, reserved>>

Releases(r, row) ==
  /\ Changes(r, row)
  /\ txn[r].type = "WITHDRAWAL" /\ txn[r].status = "PENDING"
  /\ row.status \in {"REJECTED", "FAILED"}
  /\ reserved[row.account] >= row.amount
  /\ reserved' = [reserved EXCEPT ![row.account] = @ - row.amount]
  /\ UNCHANGED balance

Pays(r, row) ==
  /\ Changes(r, row)
  /\ txn[r].type = "WITHDRAWAL" /\ txn[r].status = "PENDING"
  /\ row.status = "COMPLETED"
  /\ reserved[row.account] >= row.amount
  /\ reserved' = [reserved EXCEPT ![row.account] = @ - row.amount]
  /\ balance' = [balance EXCEPT ![row.account] = @ - row.amount]

Receives(r, row) ==
  /\ Changes(r, row)
  /\ txn[r].type = "DEPOSIT" /\ txn[r].status = "PENDING"
  /\ row.status = "COMPLETED"
  /\ balance' = [balance EXCEPT ![row.account] = @ + row.converted]
  /\ UNCHANGED reserved

MoneyStep(r, row) ==
  \/ Holds(r, row) \/ Expects(r, row) \/ Moves(r, row) \/ Judges(r, row)
  \/ Releases(r, row) \/ Pays(r, row) \/ Receives(r, row)

MoneyMoves ==
  \/ UNCHANGED <<balance, reserved, txn>>
  \/ \E r \in Requests, row \in TxnRows : MoneyStep(r, row)

\* At a rate of one nothing changes.
LEMMA ConvertPar == ASSUME NEW c \in Nat PROVE Convert(c, Par) = c
<1>1. (2 * c * 1 + 1) \div (2 * 1) = c
  OBVIOUS
<1> QED
  BY <1>1 DEF Convert, Par

\* What the API accepts is a sum of the ledger, converted or not.
LEMMA SumsOfMoney ==
  ASSUME NEW m \in Amounts, NEW q \in Rates \cup {Par}
  PROVE  /\ Cents(m) \in LedgerSums /\ Convert(Cents(m), q) \in LedgerSums
         /\ Cents(m) \in Nat /\ Convert(Cents(m), q) \in Nat
<1>1. Cents(m) \in Nat
  BY CentsNat, StoreAssumption DEF StoreAssumption
<1>2. Convert(Cents(m), Par) = Cents(m)
  BY <1>1, ConvertPar
<1>3. Convert(Cents(m), q) \in Nat
  BY <1>1, ConvertNat, ParIsRate, StoreAssumption DEF StoreAssumption
<1> QED
  BY <1>1, <1>2, <1>3 DEF LedgerSums

\* The amounts of a request that may commit.
LEMMA QuotedMoney ==
  ASSUME FundsInv, CallsAreQuoted, NEW r \in Requests, req[r].phase = "quoted"
  PROVE  LET amount == Cents(req[r].body.amount)
             converted == Convert(amount, req[r].rate)
         IN  /\ req[r] \in Calls /\ req[r].body \in Bodies
             /\ amount \in LedgerSums /\ amount > 0 /\ amount \in Nat
             /\ converted \in LedgerSums /\ converted \in Nat
             /\ req[r].body.operation # "WITHDRAWAL" => converted > 0
<1>1. Quoted(req[r]) /\ req[r] \in Calls /\ req[r].body \in Bodies
  BY ActiveCall DEF CallsAreQuoted
<1>2. req[r].body.amount \in Amounts
  BY <1>1 DEF Bodies, WithdrawalBodies, TransferBodies, DepositBodies
<1> QED
  BY <1>1, <1>2, SumsOfMoney DEF Quoted

\* The commit of a withdrawal.
LEMMA WithdrawMoney ==
  ASSUME FundsInv, RequestInv, CallsAreQuoted, NEW r \in Requests,
         WithdrawCommit(r)
  PROVE  MoneyMoves
<1> DEFINE a == req[r].body.account
           amount == Cents(req[r].body.amount)
           row == [type |-> "WITHDRAWAL", customer |-> req[r].user,
                 account |-> a, destination |-> Null, amount |-> amount,
                 converted |-> Convert(amount, req[r].rate),
                 status |-> "PENDING",
                 approval |-> IF req[r].usd > Threshold THEN "PENDING"
                                                        ELSE "NOT_REQUIRED"]
<1>1. CASE UNCHANGED <<reserved, txn>>
  BY <1>1 DEF WithdrawCommit, MoneyMoves
<1>2. CASE /\ Available(a) >= amount
           /\ reserved' = [reserved EXCEPT ![a] = @ + amount]
           /\ txn' = [txn EXCEPT ![r] = row]
  <2>1. /\ r \notin Rows /\ req[r].phase = "quoted" /\ balance' = balance
        /\ req[r].user \in Users /\ a \in Accounts
    BY NoRowYet, ActiveCall DEF WithdrawCommit, RequestInv
  <2>2. /\ amount \in LedgerSums /\ amount > 0 /\ amount \in Nat
        /\ Convert(amount, req[r].rate) \in Nat
    BY <2>1, QuotedMoney
  <2>3. row \in TxnRows
    BY <2>1, <2>2 DEF TxnRows, Open
  <2>4. amount <= Available(a)
    BY <1>2, <2>1, <2>2 DEF Available, FundsInv, FundsTypeOK, DepositTypeOK, StoreTypeOK
  <2>5. /\ row.type = "WITHDRAWAL" /\ row.status = "PENDING"
        /\ row.account = a /\ row.amount = amount
        /\ row.converted = Convert(row.amount, req[r].rate)
        /\ row.amount = Cents(req[r].body.amount)
    OBVIOUS
  <2>6. Holds(r, row)
    <3> HIDE DEF row, a, amount
    <3> QED
      BY <1>2, <2>1, <2>2, <2>3, <2>4, <2>5 DEF Holds, Makes, Affordable
  <2> QED
    BY <2>3, <2>6 DEF MoneyMoves, MoneyStep
<1> QED
  BY <1>1, <1>2 DEF WithdrawCommit

\* The commit of a transfer.
LEMMA TransferMoney ==
  ASSUME FundsInv, RequestInv, CallsAreQuoted, NEW r \in Requests,
         TransferCommit(r)
  PROVE  MoneyMoves
<1> DEFINE from == req[r].body.account
           to == req[r].body.destination
           amount == Cents(req[r].body.amount)
           received == Convert(amount, req[r].rate)
           row == [type |-> "TRANSFER", customer |-> req[r].user,
                   account |-> from, destination |-> to, amount |-> amount,
                   converted |-> received, status |-> "COMPLETED",
                   approval |-> "NOT_REQUIRED"]
<1>0. UNCHANGED reserved
  BY DEF TransferCommit
<1>1. CASE UNCHANGED <<balance, txn>>
  BY <1>0, <1>1 DEF MoneyMoves
<1>2. CASE /\ Available(from) >= amount
           /\ MoveMoney(from, to, amount, received)
           /\ txn' = [txn EXCEPT ![r] = row]
  <2>1. /\ r \notin Rows /\ req[r].phase = "quoted" /\ req[r].phase # "idle"
        /\ req[r].user \in Users /\ from \in Accounts /\ req[r].body \in Bodies
        /\ req[r].body.operation = "TRANSFER"
    BY NoRowYet, ActiveCall DEF TransferCommit, RequestInv
  <2>2. /\ amount \in LedgerSums /\ amount > 0 /\ amount \in Nat
        /\ received \in LedgerSums /\ received \in Nat /\ received > 0
    BY <2>1, QuotedMoney
  <2>3. to \in Accounts /\ to # from
    <3>1. to \in Accounts
      BY <2>1 DEF Bodies, WithdrawalBodies, TransferBodies, DepositBodies
    <3>2. CheckedTransfer(req[r])
      BY <2>1 DEF RequestInv, TransfersAreChecked
    <3> QED
      BY <2>1, <3>1, <3>2 DEF CheckedTransfer
  <2>4. row \in TxnRows
    BY <2>1, <2>2, <2>3 DEF TxnRows, Settled
  <2>5. amount <= Available(from)
    BY <1>2, <2>1, <2>2 DEF Available, FundsInv, FundsTypeOK, DepositTypeOK, StoreTypeOK
  <2>6. /\ row.type = "TRANSFER" /\ row.status = "COMPLETED"
        /\ row.account = from /\ row.amount = amount
        /\ row.destination = to /\ row.converted = received
        /\ row.converted = Convert(row.amount, req[r].rate)
        /\ row.amount = Cents(req[r].body.amount)
    OBVIOUS
  <2>7. Moves(r, row)
    <3> HIDE DEF row, from, to, amount, received
    <3> QED
      BY <1>0, <1>2, <2>1, <2>2, <2>3, <2>4, <2>5, <2>6
      DEF Moves, Makes, Affordable, MoveMoney
  <2> QED
    BY <2>4, <2>7 DEF MoneyMoves, MoneyStep
<1> QED
  BY <1>1, <1>2 DEF TransferCommit

\* The first transaction of a deposit.
LEMMA DepositMoney ==
  ASSUME FundsInv, RequestInv, CallsAreQuoted, NEW r \in Requests,
         DepositCommit(r)
  PROVE  MoneyMoves
<1> DEFINE amount == Cents(req[r].body.amount)
           received == Convert(amount, req[r].rate)
           row == [type |-> "DEPOSIT", customer |-> req[r].user,
                 account |-> req[r].body.account, destination |-> Null,
                 amount |-> amount, converted |-> received,
                 status |-> "PENDING", approval |-> "NOT_REQUIRED"]
<1>0. UNCHANGED <<balance, reserved>>
  BY DEF DepositCommit
<1>1. CASE UNCHANGED txn
  BY <1>0, <1>1 DEF MoneyMoves
<1>2. CASE txn' = [txn EXCEPT ![r] = row]
  <2>1. /\ r \notin Rows /\ req[r].phase = "quoted" /\ req[r].phase # "idle"
        /\ req[r].user \in Users /\ req[r].body.account \in Accounts
        /\ req[r].body.operation = "DEPOSIT"
    BY NoRowYet, ActiveCall DEF DepositCommit, RequestInv
  <2>2. /\ amount \in Nat
        /\ received \in LedgerSums /\ received \in Nat /\ received > 0
    BY <2>1, QuotedMoney
  <2>3. row \in TxnRows
    BY <2>1, <2>2 DEF TxnRows, Open
  <2>4. /\ row.type = "DEPOSIT" /\ row.status = "PENDING"
        /\ row.converted = received
        /\ row.converted = Convert(row.amount, req[r].rate)
        /\ row.amount = Cents(req[r].body.amount)
    OBVIOUS
  <2>5. Expects(r, row)
    <3> HIDE DEF row, amount, received
    <3> QED
      BY <1>0, <1>2, <2>1, <2>2, <2>3, <2>4 DEF Expects, Makes
  <2> QED
    BY <2>3, <2>5 DEF MoneyMoves, MoneyStep
<1> QED
  BY <1>1, <1>2 DEF DepositCommit

\* The end of a withdrawal, or its approval.
LEMMA WithdrawalLifeMoney ==
  ASSUME FundsInv, NEW t \in Requests,
         \/ ApproveWithdrawal(t) \/ RejectWithdrawal(t) \/ ProcessWithdrawal(t)
         \/ CompleteWithdrawal(t) \/ FailWithdrawal(t)
  PROVE  MoneyMoves
<1>0. CASE FailAgain(t)
  BY <1>0 DEF FailAgain, MoneyMoves
<1> SUFFICES ASSUME \/ ApproveWithdrawal(t) \/ RejectWithdrawal(t)
                    \/ ProcessWithdrawal(t) \/ CompleteWithdrawal(t)
                    \/ FailPending(t)
             PROVE  MoneyMoves
  BY <1>0 DEF FailWithdrawal
<1>1. PendingWithdrawal(t) /\ t \in Rows
  BY DEF ApproveWithdrawal, RejectWithdrawal, ProcessWithdrawal,
     CompleteWithdrawal, FailPending, PendingWithdrawal, Rows
<1>2. txn[t] \in TxnRows /\ txn \in [Requests -> TxnRows \cup {NoTxn}]
  BY <1>1, RowTypes DEF FundsInv, FundsTypeOK, DepositTypeOK, StoreTypeOK
<1> DEFINE Row(status, approval) ==
             [txn[t] EXCEPT !.status = status, !.approval = approval]
<1>3. ASSUME NEW status \in Open \cup Settled,
             NEW approval \in {"NOT_REQUIRED", "PENDING", "APPROVED", "REJECTED"},
             txn' = [txn EXCEPT ![t].status = status, ![t].approval = approval]
      PROVE  /\ Row(status, approval) \in TxnRows
             /\ Changes(t, Row(status, approval))
             /\ Row(status, approval).status = status
             /\ Row(status, approval).amount = txn[t].amount
             /\ Row(status, approval).account = txn[t].account
  <2>1. /\ Row(status, approval) \in TxnRows
        /\ Row(status, approval).status = status
        /\ Row(status, approval).approval = approval
        /\ Row(status, approval).amount = txn[t].amount
        /\ Row(status, approval).account = txn[t].account
    BY <1>2 DEF TxnRows
  <2>2. txn' = [txn EXCEPT ![t] = Row(status, approval)]
    BY <1>2, <1>3 DEF TxnRows
  <2>3. Row(status, approval) =
          [txn[t] EXCEPT !.status = Row(status, approval).status,
                         !.approval = Row(status, approval).approval]
    BY <2>1
  <2> HIDE DEF Row
  <2> QED
    BY <1>1, <2>1, <2>2, <2>3 DEF Changes
<1> HIDE DEF Row
<1>4. CASE ApproveWithdrawal(t)
  <2>1. /\ txn' = [txn EXCEPT ![t].status = "PENDING", ![t].approval = "APPROVED"]
        /\ txn[t].status = "PENDING" /\ UNCHANGED <<balance, reserved>>
    BY <1>2, <1>4 DEF ApproveWithdrawal, PendingWithdrawal, TxnRows
  <2>2. Judges(t, Row("PENDING", "APPROVED"))
    BY <1>3, <2>1 DEF Judges, Open
  <2> QED
    BY <1>3, <2>1, <2>2 DEF MoneyMoves, MoneyStep, Open
<1>5. CASE RejectWithdrawal(t)
  <2>1. /\ txn' = [txn EXCEPT ![t].status = "REJECTED", ![t].approval = "REJECTED"]
        /\ Release(t) /\ UNCHANGED balance
    BY <1>5 DEF RejectWithdrawal
  <2>2. Releases(t, Row("REJECTED", "REJECTED"))
    BY <1>1, <1>3, <2>1 DEF Releases, Release, PendingWithdrawal, Settled
  <2> QED
    BY <1>3, <2>1, <2>2 DEF MoneyMoves, MoneyStep, Settled
<1>6. CASE ProcessWithdrawal(t)
  BY <1>6 DEF ProcessWithdrawal, MoneyMoves
<1>7. ASSUME NEW status \in Settled, txn' = [txn EXCEPT ![t].status = status]
      PROVE  /\ txn' = [txn EXCEPT ![t].status = status,
                                   ![t].approval = txn[t].approval]
             /\ txn[t].approval \in {"NOT_REQUIRED", "PENDING", "APPROVED", "REJECTED"}
  BY <1>2, <1>7 DEF TxnRows
<1>8. CASE CompleteWithdrawal(t)
  <2>1. /\ txn' = [txn EXCEPT ![t].status = "COMPLETED",
                              ![t].approval = txn[t].approval]
        /\ txn[t].approval \in {"NOT_REQUIRED", "PENDING", "APPROVED", "REJECTED"}
        /\ Release(t) /\ Take(t)
    BY <1>7, <1>8 DEF CompleteWithdrawal, Settled
  <2>2. Pays(t, Row("COMPLETED", txn[t].approval))
    BY <1>1, <1>3, <2>1 DEF Pays, Release, Take, PendingWithdrawal, Settled
  <2> QED
    BY <1>3, <2>1, <2>2 DEF MoneyMoves, MoneyStep, Settled
<1>9. CASE FailPending(t)
  <2>1. /\ txn' = [txn EXCEPT ![t].status = "FAILED",
                              ![t].approval = txn[t].approval]
        /\ txn[t].approval \in {"NOT_REQUIRED", "PENDING", "APPROVED", "REJECTED"}
        /\ Release(t) /\ UNCHANGED balance
    BY <1>7, <1>9 DEF FailPending, Settled
  <2>2. Releases(t, Row("FAILED", txn[t].approval))
    BY <1>1, <1>3, <2>1 DEF Releases, Release, PendingWithdrawal, Settled
  <2> QED
    BY <1>3, <2>1, <2>2 DEF MoneyMoves, MoneyStep, Settled
<1> QED
  BY <1>4, <1>5, <1>6, <1>8, <1>9

\* A delivery that claims its attempt finds the transaction pending.
LEMMA CreditMoney ==
  ASSUME FundsInv, SettlementInv, NEW r \in Requests, Claimable(r), Credit(r),
         UNCHANGED reserved
  PROVE  MoneyMoves
<1> DEFINE row == [txn[r] EXCEPT !.status = "COMPLETED"]
<1>1. r \in Deposited /\ txn[r].status = "PENDING" /\ r \in Rows
  BY DEF Claimable, FundsInv, AttemptsBelong, Deposited, SettlementInv, CheckoutTells
<1>2. txn[r] \in TxnRows
  BY <1>1, RowTypes
<1>3. /\ row \in TxnRows /\ row.status = "COMPLETED"
      /\ row.approval = txn[r].approval
      /\ row.account = txn[r].account /\ row.converted = txn[r].converted
  BY <1>2 DEF TxnRows, Settled
<1>4. row = [txn[r] EXCEPT !.status = row.status, !.approval = row.approval]
  BY <1>2, <1>3 DEF TxnRows
<1>5. txn' = [txn EXCEPT ![r] = row]
  BY DEF Credit
<1> HIDE DEF row
<1>6. Receives(r, row)
  BY <1>1, <1>3, <1>4, <1>5 DEF Receives, Changes, Credit, Deposited
<1> QED
  BY <1>3, <1>6 DEF MoneyMoves, MoneyStep

\* Every step.
LEMMA MoneySteps ==
  ASSUME FundsInv, RequestInv, SettlementInv, CallsAreQuoted, [FundsNext]_fundsVars
  PROVE  MoneyMoves
<1>1. CASE UNCHANGED <<balance, reserved, txn>>
  BY <1>1 DEF MoneyMoves
<1>2. CASE WithdrawalStep
  <2>1. ASSUME NEW r \in Requests,
               \/ \E u \in Users, k \in Keys, b \in WithdrawalBodies :
                    WithdrawSubmit(r, u, k, b)
               \/ WithdrawQuote(r)
        PROVE  UNCHANGED <<balance, reserved, txn>>
    BY <2>1 DEF WithdrawSubmit, Submit, WithdrawQuote
  <2> QED
    BY <1>1, <1>2, <2>1, WithdrawMoney, WithdrawalLifeMoney DEF WithdrawalStep
<1>3. CASE TransferStep
  <2>1. ASSUME NEW r \in Requests,
               \/ \E u \in Users, k \in Keys, b \in TransferBodies :
                    TransferSubmit(r, u, k, b)
               \/ TransferQuote(r)
        PROVE  UNCHANGED <<balance, reserved, txn>>
    BY <2>1 DEF TransferSubmit, Submit, TransferQuote
  <2> QED
    BY <1>1, <1>3, <2>1, TransferMoney DEF TransferStep
<1>4. CASE DepositStep
  <2>1. ASSUME NEW r \in Requests, StripePaid(r) \/ CoinPaymentsSettle(r)
        PROVE  MoneyMoves
    BY <1>1, <2>1, CreditMoney DEF StripePaid, CoinPaymentsSettle
  <2>2. ASSUME NEW r \in Requests,
               \/ \E u \in Users, k \in Keys, b \in DepositBodies :
                    DepositSubmit(r, u, k, b)
               \/ DepositQuote(r) \/ OpenCheckout(r)
               \/ MarkFailed(r) \/ SaveCheckout(r)
               \/ CustomerPays(r) \/ DelayedPaymentEnds(r) \/ SessionExpires(r)
               \/ StripeNotPaid(r) \/ CoinPaymentsRead(r) \/ DeliveryDies(r)
        PROVE  UNCHANGED <<balance, reserved, txn>>
    BY <2>2 DEF DepositSubmit, Submit, DepositQuote, OpenCheckout, MarkFailed,
       SaveCheckout, CustomerPays, DelayedPaymentEnds, SessionExpires,
       StripeNotPaid, CoinPaymentsRead, DeliveryDies, storeVars
  <2> QED
    BY <1>1, <1>4, <2>1, <2>2, DepositMoney DEF DepositStep, Webhook
<1> QED
  BY <1>1, <1>2, <1>3, <1>4
  DEF FundsNext, RequestAborts, DeactivateCustomer, fundsVars, storeVars

-----------------------------------------------------------------------------
(* What such a step does to the sums. *)

\* What a row holds of account a, has brought to it, and has taken from it.
HeldBy(row, a) ==
  IF row.type = "WITHDRAWAL" /\ row.account = a /\ row.status = "PENDING"
  THEN row.amount ELSE 0
TakenBy(row, a) ==
  IF /\ row.type \in {"WITHDRAWAL", "TRANSFER"} /\ row.account = a
     /\ row.status = "COMPLETED"
  THEN row.amount ELSE 0
BroughtBy(row, a) ==
  IF /\ \/ row.type = "DEPOSIT" /\ row.account = a
        \/ row.type = "TRANSFER" /\ row.destination = a
     /\ row.status = "COMPLETED"
  THEN row.converted ELSE 0

\* The same of a request that may have no row yet.
WasHeld(r, a) == IF r \in Rows THEN HeldBy(txn[r], a) ELSE 0
WasTaken(r, a) == IF r \in Rows THEN TakenBy(txn[r], a) ELSE 0
WasBrought(r, a) == IF r \in Rows THEN BroughtBy(txn[r], a) ELSE 0

\* One row appears or changes.
LEMMA OneRow ==
  ASSUME FundsInv, IsFiniteSet(Rows), NEW r \in Requests, NEW row \in TxnRows,
         Makes(r, row) \/ Changes(r, row)
  PROVE  /\ Rows' = Rows \cup {r} /\ IsFiniteSet(Rows')
         /\ txn'[r] = row
         /\ \A s \in Requests \ {r} : txn'[s] = txn[s]
         /\ \A s \in Rows : txn[s] \in TxnRows
         /\ \A s \in Rows' : txn'[s] \in TxnRows
<1>1. txn'[r] = row /\ \A s \in Requests \ {r} : txn'[s] = txn[s]
  BY DEF Makes, Changes, FundsInv, FundsTypeOK, DepositTypeOK, StoreTypeOK
<1>2. row.status # "NONE"
  BY DEF TxnRows, Open, Settled
<1>3. Rows' = Rows \cup {r}
  BY <1>1, <1>2 DEF Rows
<1>4. IsFiniteSet(Rows')
  BY <1>3, FS_AddElement
<1>5. \A s \in Rows : txn[s] \in TxnRows
  BY RowTypes
<1>6. \A s \in Rows' : txn'[s] \in TxnRows
  BY <1>1, <1>3, <1>5 DEF Rows
<1> QED
  BY <1>1, <1>3, <1>4, <1>5, <1>6

\* What pending withdrawals hold moves by what the row holds.
LEMMA PendingMoves ==
  ASSUME FundsInv, IsFiniteSet(Rows), NEW r \in Requests, NEW row \in TxnRows,
         Makes(r, row) \/ Changes(r, row), NEW a
  PROVE  /\ PendingOn(a) \in Int
         /\ PendingOn(a)' = PendingOn(a) - WasHeld(r, a) + HeldBy(row, a)
<1> DEFINE S == Holding(a)
           T == Holding(a)'
           f == AmountOf
           g == AmountOf'
<1>1. /\ Rows' = Rows \cup {r} /\ IsFiniteSet(Rows')
      /\ txn'[r] = row
      /\ \A s \in Requests \ {r} : txn'[s] = txn[s]
      /\ \A s \in Rows : txn[s] \in TxnRows
      /\ \A s \in Rows' : txn'[s] \in TxnRows
  BY OneRow
<1>2. S \subseteq Rows /\ T \subseteq Rows' /\ IsFiniteSet(S) /\ IsFiniteSet(T)
  BY <1>1, FS_Subset DEF Holding
<1>3. (\A x \in S : f[x] \in Int) /\ (\A x \in T : g[x] \in Int)
  BY <1>1 DEF AmountOf, Holding, TxnRows
<1>4. S \ {r} = T \ {r} /\ \A x \in S \ {r} : f[x] = g[x]
  BY <1>1 DEF Holding, AmountOf, Rows
<1>5. Share(f, S, r) = WasHeld(r, a)
  BY DEF Share, WasHeld, Holding, HeldBy, AmountOf
<1>6. Share(g, T, r) = HeldBy(row, a)
  BY <1>1 DEF Share, Holding, HeldBy, AmountOf
<1>7. PendingOn(a) = SumFunctionOnSet(f, S) /\ PendingOn(a)' = SumFunctionOnSet(g, T)
  BY DEF PendingOn
<1> HIDE DEF S, T, f, g
<1> QED
  BY <1>2, <1>3, <1>4, <1>5, <1>6, <1>7, SumMoves, SumInt

\* What completed transactions brought and took moves by what the row did.
LEMMA NetMoves ==
  ASSUME FundsInv, IsFiniteSet(Rows), NEW r \in Requests, NEW row \in TxnRows,
         Makes(r, row) \/ Changes(r, row), NEW a
  PROVE  /\ NetCompleted(a) \in Int
         /\ NetCompleted(a)' =
              NetCompleted(a) - WasBrought(r, a) + BroughtBy(row, a)
                              + WasTaken(r, a) - TakenBy(row, a)
<1> DEFINE S == Credits(a)
           T == Credits(a)'
           f == ConvertedOf
           g == ConvertedOf'
           U == Debits(a)
           V == Debits(a)'
           h == AmountOf
           i == AmountOf'
<1>1. /\ Rows' = Rows \cup {r} /\ IsFiniteSet(Rows')
      /\ txn'[r] = row
      /\ \A s \in Requests \ {r} : txn'[s] = txn[s]
      /\ \A s \in Rows : txn[s] \in TxnRows
      /\ \A s \in Rows' : txn'[s] \in TxnRows
  BY OneRow
<1>2. SumFunctionOnSet(g, T) = SumFunctionOnSet(f, S)
         - WasBrought(r, a) + BroughtBy(row, a)
      /\ SumFunctionOnSet(f, S) \in Int
      /\ WasBrought(r, a) \in Int /\ BroughtBy(row, a) \in Int
  <2>1. S \subseteq Rows /\ T \subseteq Rows' /\ IsFiniteSet(S) /\ IsFiniteSet(T)
    BY <1>1, FS_Subset DEF Credits
  <2>2. (\A x \in S : f[x] \in Int) /\ (\A x \in T : g[x] \in Int)
    BY <1>1 DEF ConvertedOf, Credits, TxnRows
  <2>3. S \ {r} = T \ {r} /\ \A x \in S \ {r} : f[x] = g[x]
    BY <1>1 DEF Credits, ConvertedOf, Rows
  <2>4. Share(f, S, r) = WasBrought(r, a)
    BY DEF Share, WasBrought, Credits, BroughtBy, ConvertedOf
  <2>5. Share(g, T, r) = BroughtBy(row, a)
    BY <1>1 DEF Share, Credits, BroughtBy, ConvertedOf
  <2> HIDE DEF S, T, f, g
  <2>6. Share(f, S, r) \in Int /\ Share(g, T, r) \in Int
    BY <2>2 DEF Share
  <2> QED
    BY <2>1, <2>2, <2>3, <2>4, <2>5, <2>6, SumMoves, SumInt
<1>3. SumFunctionOnSet(i, V) = SumFunctionOnSet(h, U)
         - WasTaken(r, a) + TakenBy(row, a)
      /\ SumFunctionOnSet(h, U) \in Int
      /\ WasTaken(r, a) \in Int /\ TakenBy(row, a) \in Int
  <2>1. U \subseteq Rows /\ V \subseteq Rows' /\ IsFiniteSet(U) /\ IsFiniteSet(V)
    BY <1>1, FS_Subset DEF Debits
  <2>2. (\A x \in U : h[x] \in Int) /\ (\A x \in V : i[x] \in Int)
    BY <1>1 DEF AmountOf, Debits, TxnRows
  <2>3. U \ {r} = V \ {r} /\ \A x \in U \ {r} : h[x] = i[x]
    BY <1>1 DEF Debits, AmountOf, Rows
  <2>4. Share(h, U, r) = WasTaken(r, a)
    BY DEF Share, WasTaken, Debits, TakenBy, AmountOf
  <2>5. Share(i, V, r) = TakenBy(row, a)
    BY <1>1 DEF Share, Debits, TakenBy, AmountOf
  <2> HIDE DEF U, V, h, i
  <2>6. Share(h, U, r) \in Int /\ Share(i, V, r) \in Int
    BY <2>2 DEF Share
  <2> QED
    BY <2>1, <2>2, <2>3, <2>4, <2>5, <2>6, SumMoves, SumInt
<1>4. /\ NetCompleted(a) = SumFunctionOnSet(f, S) - SumFunctionOnSet(h, U)
      /\ NetCompleted(a)' = SumFunctionOnSet(g, T) - SumFunctionOnSet(i, V)
  BY DEF NetCompleted
<1> HIDE DEF S, T, U, V, f, g, h, i
<1>5. SumFunctionOnSet(g, T) \in Int /\ SumFunctionOnSet(i, V) \in Int
  BY <1>2, <1>3
<1> QED
  BY <1>2, <1>3, <1>4, <1>5

-----------------------------------------------------------------------------
(* The books are kept: what the counters of an account say is what its rows  *)
(* say, and no account is overdrawn.                                         *)

\* A row has the amounts that its request asked for and was quoted, and the
\* request still remembers them.
RowAsQuoted(row, call) ==
  /\ row.amount = Cents(call.body.amount)
  /\ row.converted = Convert(row.amount, call.rate)
  /\ SameCurrency(call.body) => call.rate = Par

RowsAsQuoted == \A r \in Rows : RowAsQuoted(txn[r], req[r])

\* The inductive invariant of the money: the sums over rows make sense, the
\* handlers hold rates the provider gave, and the books agree with the rows.
BooksInv ==
  /\ IsFiniteSet(Rows)
  /\ CallsAreQuoted
  /\ Solvent
  /\ ReservedMatchesPending
  /\ BalanceMatchesHistory
  /\ RowsAsQuoted

\* The balances and reserves are numbers.
LEMMA MoneyTyped ==
  ASSUME FundsInv
  PROVE  balance \in [Accounts -> Int] /\ reserved \in [Accounts -> Int]
BY DEF FundsInv, FundsTypeOK, DepositTypeOK, StoreTypeOK

\* What a row says of an account is a number, and 0 without a row.
LEMMA RowSays ==
  ASSUME FundsInv, NEW r \in Requests, NEW row \in TxnRows, NEW a
  PROVE  /\ HeldBy(row, a) \in Int /\ TakenBy(row, a) \in Int
         /\ BroughtBy(row, a) \in Int
         /\ WasHeld(r, a) \in Int /\ WasTaken(r, a) \in Int
         /\ WasBrought(r, a) \in Int
<1>1. \A x \in TxnRows : /\ HeldBy(x, a) \in Int /\ TakenBy(x, a) \in Int
                         /\ BroughtBy(x, a) \in Int
  BY DEF TxnRows, HeldBy, TakenBy, BroughtBy
<1> QED
  BY <1>1, RowTypes DEF WasHeld, WasTaken, WasBrought

\* A new row was nothing before; a changed one had its type, its accounts and
\* its amounts.
LEMMA RowBefore ==
  ASSUME FundsInv, NEW r \in Requests, NEW row \in TxnRows
  PROVE  /\ Makes(r, row) => \A a : /\ WasHeld(r, a) = 0 /\ WasTaken(r, a) = 0
                                    /\ WasBrought(r, a) = 0
         /\ Changes(r, row) =>
              /\ r \in Rows /\ txn[r] \in TxnRows
              /\ row.type = txn[r].type /\ row.account = txn[r].account
              /\ row.destination = txn[r].destination
              /\ row.amount = txn[r].amount /\ row.converted = txn[r].converted
<1>1. Makes(r, row) => \A a : /\ WasHeld(r, a) = 0 /\ WasTaken(r, a) = 0
                              /\ WasBrought(r, a) = 0
  BY DEF Makes, WasHeld, WasTaken, WasBrought
<1>2. ASSUME Changes(r, row)
      PROVE  /\ r \in Rows /\ txn[r] \in TxnRows
             /\ row.type = txn[r].type /\ row.account = txn[r].account
             /\ row.destination = txn[r].destination
             /\ row.amount = txn[r].amount /\ row.converted = txn[r].converted
  BY <1>2, RowTypes DEF Changes, TxnRows
<1> QED
  BY <1>1, <1>2

\* The reserve of an account moves by what the row holds of it.
LEMMA ReserveMoves ==
  ASSUME FundsInv, NEW r \in Requests, NEW row \in TxnRows, MoneyStep(r, row),
         NEW a \in Accounts
  PROVE  reserved'[a] = reserved[a] - WasHeld(r, a) + HeldBy(row, a)
<1>1. reserved \in [Accounts -> Int] /\ row.account \in Accounts /\ row.amount \in Int
  BY MoneyTyped DEF TxnRows
<1>2. CASE Holds(r, row)
  <2>1. WasHeld(r, a) = 0
    BY <1>2, RowBefore DEF Holds
  <2> QED
    BY <1>1, <1>2, <2>1 DEF Holds, HeldBy
<1>3. CASE Expects(r, row) \/ Moves(r, row)
  <2>1. WasHeld(r, a) = 0
    BY <1>3, RowBefore DEF Expects, Moves
  <2> QED
    BY <1>1, <1>3, <2>1 DEF Expects, Moves, HeldBy
<1>4. CASE Judges(r, row)
  <2>1. WasHeld(r, a) = HeldBy(row, a)
    BY <1>4, RowBefore DEF Judges, WasHeld, HeldBy
  <2> QED
    BY <1>1, <1>4, <2>1, RowSays DEF Judges
<1>5. CASE Releases(r, row) \/ Pays(r, row)
  <2>1. WasHeld(r, a) = (IF row.account = a THEN row.amount ELSE 0)
    BY <1>5, RowBefore DEF Releases, Pays, WasHeld, HeldBy
  <2>2. HeldBy(row, a) = 0
    BY <1>5 DEF Releases, Pays, HeldBy
  <2>3. reserved' = [reserved EXCEPT ![row.account] = @ - row.amount]
    BY <1>5 DEF Releases, Pays
  <2> QED
    BY <1>1, <2>1, <2>2, <2>3
<1>6. CASE Receives(r, row)
  <2>1. WasHeld(r, a) = 0 /\ HeldBy(row, a) = 0
    BY <1>6, RowBefore DEF Receives, WasHeld, HeldBy
  <2> QED
    BY <1>1, <1>6, <2>1 DEF Receives
<1> QED
  BY <1>2, <1>3, <1>4, <1>5, <1>6 DEF MoneyStep

\* The balance of an account moves by what the row brings to it or takes.
LEMMA BalanceMoves ==
  ASSUME FundsInv, NEW r \in Requests, NEW row \in TxnRows, MoneyStep(r, row),
         NEW a \in Accounts
  PROVE  balance'[a] = balance[a] - WasBrought(r, a) + BroughtBy(row, a)
                                  + WasTaken(r, a) - TakenBy(row, a)
<1>1. /\ balance \in [Accounts -> Int] /\ row.account \in Accounts
      /\ row.amount \in Int /\ row.converted \in Int
  BY MoneyTyped DEF TxnRows
<1>2. CASE Holds(r, row) \/ Expects(r, row)
  <2>1. WasBrought(r, a) = 0 /\ WasTaken(r, a) = 0
    BY <1>2, RowBefore DEF Holds, Expects
  <2>2. BroughtBy(row, a) = 0 /\ TakenBy(row, a) = 0
    BY <1>2 DEF Holds, Expects, BroughtBy, TakenBy
  <2> QED
    BY <1>1, <1>2, <2>1, <2>2 DEF Holds, Expects
<1>3. CASE Moves(r, row)
  <2>1. WasBrought(r, a) = 0 /\ WasTaken(r, a) = 0
    BY <1>3, RowBefore DEF Moves
  <2>2. /\ BroughtBy(row, a) = (IF row.destination = a THEN row.converted ELSE 0)
        /\ TakenBy(row, a) = (IF row.account = a THEN row.amount ELSE 0)
    BY <1>3 DEF Moves, BroughtBy, TakenBy
  <2>3. balance'[a] = IF a = row.account THEN balance[a] - row.amount
                      ELSE IF a = row.destination THEN balance[a] + row.converted
                      ELSE balance[a]
    BY <1>1, <1>3 DEF Moves
  <2>4. row.destination # row.account
    BY <1>3 DEF Moves
  <2> QED
    BY <1>1, <2>1, <2>2, <2>3, <2>4
<1>4. CASE Judges(r, row)
  <2>1. WasBrought(r, a) = BroughtBy(row, a) /\ WasTaken(r, a) = TakenBy(row, a)
    BY <1>4, RowBefore DEF Judges, WasBrought, BroughtBy, WasTaken, TakenBy
  <2> QED
    BY <1>1, <1>4, <2>1, RowSays DEF Judges
<1>5. CASE Releases(r, row)
  <2>1. /\ WasBrought(r, a) = 0 /\ BroughtBy(row, a) = 0
        /\ WasTaken(r, a) = 0 /\ TakenBy(row, a) = 0
    BY <1>5, RowBefore DEF Releases, WasBrought, BroughtBy, WasTaken, TakenBy
  <2> QED
    BY <1>1, <1>5, <2>1 DEF Releases
<1>6. CASE Pays(r, row)
  <2>1. /\ WasBrought(r, a) = 0 /\ BroughtBy(row, a) = 0 /\ WasTaken(r, a) = 0
        /\ TakenBy(row, a) = (IF row.account = a THEN row.amount ELSE 0)
    BY <1>6, RowBefore DEF Pays, WasBrought, BroughtBy, WasTaken, TakenBy
  <2> QED
    BY <1>1, <1>6, <2>1 DEF Pays
<1>7. CASE Receives(r, row)
  <2>1. /\ WasBrought(r, a) = 0 /\ WasTaken(r, a) = 0 /\ TakenBy(row, a) = 0
        /\ BroughtBy(row, a) = (IF row.account = a THEN row.converted ELSE 0)
    BY <1>7, RowBefore DEF Receives, WasBrought, BroughtBy, WasTaken, TakenBy
  <2> QED
    BY <1>1, <1>7, <2>1 DEF Receives
<1> QED
  BY <1>2, <1>3, <1>4, <1>5, <1>6, <1>7 DEF MoneyStep

\* A row that is made or changed, whatever else the step does.
LEMMA MoneyStepRow ==
  ASSUME NEW r, NEW row, MoneyStep(r, row)
  PROVE  Makes(r, row) \/ Changes(r, row)
BY DEF MoneyStep, Holds, Expects, Moves, Judges, Releases, Pays, Receives

\* An account pays only what is available, or what it held for that purpose.
LEMMA SolventMoves ==
  ASSUME FundsInv, Solvent, NEW r \in Requests, NEW row \in TxnRows,
         MoneyStep(r, row)
  PROVE  Solvent'
<1> SUFFICES ASSUME NEW a \in Accounts
             PROVE  0 <= reserved'[a] /\ reserved'[a] <= balance'[a]
  BY DEF Solvent
<1>1. /\ balance \in [Accounts -> Int] /\ reserved \in [Accounts -> Int]
      /\ row.account \in Accounts /\ row.amount \in Nat /\ row.converted \in Nat
      /\ 0 <= reserved[a] /\ reserved[a] <= balance[a]
  BY MoneyTyped DEF TxnRows, Solvent
<1>2. CASE Holds(r, row)
  BY <1>1, <1>2 DEF Holds, Affordable, Available
<1>3. CASE Expects(r, row) \/ Judges(r, row)
  BY <1>1, <1>3 DEF Expects, Judges
<1>4. CASE Moves(r, row)
  <2>1. balance'[a] = IF a = row.account THEN balance[a] - row.amount
                      ELSE IF a = row.destination THEN balance[a] + row.converted
                      ELSE balance[a]
    BY <1>1, <1>4 DEF Moves
  <2> QED
    BY <1>1, <1>4, <2>1 DEF Moves, Affordable, Available
<1>5. CASE Releases(r, row)
  BY <1>1, <1>5 DEF Releases
<1>6. CASE Pays(r, row)
  BY <1>1, <1>6 DEF Pays
<1>7. CASE Receives(r, row)
  BY <1>1, <1>7 DEF Receives
<1> QED
  BY <1>2, <1>3, <1>4, <1>5, <1>6, <1>7 DEF MoneyStep

\* A request that may commit, or has committed, is not quoted again.
LEMMA QuotesLast ==
  ASSUME CallsGo, NEW s \in Requests, req[s].phase \notin {"idle", "checked"}
  PROVE  req'[s].body = req[s].body /\ req'[s].rate = req[s].rate
BY DEF CallsGo, Goes

\* A request with a row is past its quote.
LEMMA RowsAreLater ==
  ASSUME FundsInv, RequestInv, NEW s \in Rows
  PROVE  req[s].phase \notin {"idle", "checked", "quoted"}
BY DEF FundsInv, RowsAreClaimed, RequestInv, RowsAreAnswered

\* No row is touched.
LEMMA AsQuotedSame ==
  ASSUME FundsInv, RequestInv, RowsAsQuoted, CallsGo, txn' = txn
  PROVE  RowsAsQuoted'
<1> SUFFICES ASSUME NEW s \in Rows
             PROVE  RowAsQuoted(txn[s], req'[s])
  BY DEF RowsAsQuoted, RowAsQuoted, Rows
<1>1. req'[s].body = req[s].body /\ req'[s].rate = req[s].rate
  BY QuotesLast, RowsAreLater DEF Rows
<1> QED
  BY <1>1 DEF RowsAsQuoted, RowAsQuoted

\* A row is made as it was quoted, and keeps its amounts when it changes.
LEMMA AsQuotedMoves ==
  ASSUME FundsInv, RequestInv, IsFiniteSet(Rows), CallsAreQuoted, RowsAsQuoted,
         CallsGo, NEW r \in Requests, NEW row \in TxnRows,
         Makes(r, row) \/ Changes(r, row)
  PROVE  RowsAsQuoted'
<1> SUFFICES ASSUME NEW s \in Rows'
             PROVE  RowAsQuoted(txn'[s], req'[s])
  BY DEF RowsAsQuoted, RowAsQuoted
<1>1. /\ s \in Rows \cup {r} /\ txn'[r] = row
      /\ \A t \in Requests \ {r} : txn'[t] = txn[t]
  BY OneRow
<1>2. CASE s \in Rows
  <2>1. RowAsQuoted(txn[s], req[s]) /\ s \in Requests
    BY <1>2 DEF RowsAsQuoted, Rows
  <2>2. req'[s].body = req[s].body /\ req'[s].rate = req[s].rate
    BY <1>2, <2>1, QuotesLast, RowsAreLater
  <2>3. txn'[s].amount = txn[s].amount /\ txn'[s].converted = txn[s].converted
    <3>1. CASE s = r
      <4>1. Changes(r, row)
        BY <1>2, <3>1 DEF Makes
      <4> QED
        BY <1>1, <3>1, <4>1, RowBefore
    <3>2. CASE s # r
      BY <1>1, <2>1, <3>2
    <3> QED
      BY <3>1, <3>2
  <2> QED
    BY <2>1, <2>2, <2>3 DEF RowAsQuoted
<1>3. CASE s \notin Rows
  <2>1. s = r /\ Makes(r, row)
    BY <1>1, <1>3 DEF Changes
  <2>2. /\ req[r].phase = "quoted" /\ row.amount = Cents(req[r].body.amount)
        /\ row.converted = Convert(row.amount, req[r].rate)
    BY <2>1 DEF Makes
  <2>3. req'[r].body = req[r].body /\ req'[r].rate = req[r].rate
    BY <2>2, QuotesLast
  <2>4. SameCurrency(req[r].body) => req[r].rate = Par
    BY <2>2 DEF CallsAreQuoted, Quoted
  <2> QED
    BY <1>1, <2>1, <2>2, <2>3, <2>4 DEF RowAsQuoted
<1> QED
  BY <1>2, <1>3

\* The accounts open without rows and without reserves.
LEMMA BooksInit == FundsInit => BooksInv
<1> SUFFICES ASSUME FundsInit PROVE BooksInv
  OBVIOUS
<1>1. /\ balance = OpeningBalance /\ reserved = [a \in Accounts |-> 0]
      /\ txn = [r \in Requests |-> NoTxn] /\ req = [r \in Requests |-> Idle]
  BY DEF FundsInit, DepositInit, StoreInit
<1>2. Rows = {}
  BY <1>1 DEF Rows, NoTxn
<1>3. IsFiniteSet(Rows)
  BY <1>2, FS_EmptySet
<1>4. CallsAreQuoted
  BY <1>1 DEF CallsAreQuoted, Quoted, Idle, InFlight
<1>5. Solvent
  BY <1>1, StoreAssumption DEF Solvent, StoreAssumption
<1>6. \A a : Holding(a) = {} /\ Credits(a) = {} /\ Debits(a) = {}
  BY <1>2 DEF Holding, Credits, Debits
<1>7. \A a : PendingOn(a) = 0 /\ NetCompleted(a) = 0
  BY <1>6, SumEmpty DEF PendingOn, NetCompleted
<1>8. ReservedMatchesPending
  BY <1>1, <1>7 DEF ReservedMatchesPending
<1>9. BalanceMatchesHistory
  BY <1>1, <1>7, StoreAssumption DEF BalanceMatchesHistory, StoreAssumption
<1>10. RowsAsQuoted
  BY <1>2 DEF RowsAsQuoted
<1> QED
  BY <1>3, <1>4, <1>5, <1>8, <1>9, <1>10 DEF BooksInv

\* Every step keeps the books.
LEMMA BooksStep ==
  ASSUME FundsInv, RequestInv, SettlementInv, BooksInv, [FundsNext]_fundsVars
  PROVE  BooksInv'
<1> USE DEF BooksInv
<1>1. CallsAreQuoted'
  BY CallsMove, QuotesStand
<1>2. CASE UNCHANGED <<balance, reserved, txn>>
  <2>1. RowsAsQuoted'
    BY <1>2, CallsMove, AsQuotedSame
  <2> QED
    BY <1>1, <1>2, <2>1 DEF Rows, Solvent, ReservedMatchesPending,
       BalanceMatchesHistory, PendingOn, NetCompleted, Holding, Credits, Debits,
       AmountOf, ConvertedOf
<1>3. ASSUME NEW r \in Requests, NEW row \in TxnRows, MoneyStep(r, row)
      PROVE  BooksInv'
  <2>1. Makes(r, row) \/ Changes(r, row)
    BY <1>3, MoneyStepRow
  <2>2. IsFiniteSet(Rows')
    BY <2>1, OneRow
  <2>3. Solvent'
    BY <1>3, SolventMoves
  <2>4. ReservedMatchesPending'
    <3> SUFFICES ASSUME NEW a \in Accounts
                 PROVE  reserved'[a] = PendingOn(a)'
      BY DEF ReservedMatchesPending
    <3>1. PendingOn(a)' = PendingOn(a) - WasHeld(r, a) + HeldBy(row, a)
      BY <2>1, PendingMoves
    <3>2. reserved'[a] = reserved[a] - WasHeld(r, a) + HeldBy(row, a)
      BY <1>3, ReserveMoves
    <3>3. reserved[a] = PendingOn(a)
      BY DEF ReservedMatchesPending
    <3> QED
      BY <3>1, <3>2, <3>3
  <2>5. BalanceMatchesHistory'
    <3> SUFFICES ASSUME NEW a \in Accounts
                 PROVE  balance'[a] = OpeningBalance[a] + NetCompleted(a)'
      BY DEF BalanceMatchesHistory
    <3>1. /\ NetCompleted(a) \in Int
          /\ NetCompleted(a)' = NetCompleted(a) - WasBrought(r, a)
               + BroughtBy(row, a) + WasTaken(r, a) - TakenBy(row, a)
      BY <2>1, NetMoves
    <3>2. balance'[a] = balance[a] - WasBrought(r, a) + BroughtBy(row, a)
                                   + WasTaken(r, a) - TakenBy(row, a)
      BY <1>3, BalanceMoves
    <3>3. balance[a] = OpeningBalance[a] + NetCompleted(a)
      BY DEF BalanceMatchesHistory
    <3>4. /\ OpeningBalance[a] \in Int
          /\ WasBrought(r, a) \in Int /\ BroughtBy(row, a) \in Int
          /\ WasTaken(r, a) \in Int /\ TakenBy(row, a) \in Int
      BY StoreAssumption, RowSays DEF StoreAssumption
    <3> QED
      BY <3>1, <3>2, <3>3, <3>4
  <2>6. RowsAsQuoted'
    BY <2>1, CallsMove, AsQuotedMoves
  <2> QED
    BY <1>1, <2>2, <2>3, <2>4, <2>5, <2>6
<1>4. MoneyMoves
  BY MoneySteps
<1> QED
  BY <1>2, <1>3, <1>4 DEF MoneyMoves

\* In every reachable state the requests, the settlements and the books agree.
THEOREM BooksInvariant ==
  FundsSpec => [](FundsInv /\ RequestInv /\ SettlementInv /\ BooksInv)
<1>1. FundsInit => BooksInv
  BY BooksInit
<1>2. FundsInv /\ RequestInv /\ SettlementInv /\ BooksInv /\ [FundsNext]_fundsVars
        => BooksInv'
  BY BooksStep
<1> QED
  BY <1>1, <1>2, SettlementInvariant, PTL DEF FundsSpec

\* No account owes more than it holds, in whichever order reservations,
\* releases, payouts, transfers and credits commit.
THEOREM Solvency == FundsSpec => []Solvent
<1>1. BooksInv => Solvent
  BY DEF BooksInv
<1> QED
  BY <1>1, BooksInvariant, PTL

\* The reserve of an account is what its pending withdrawals hold: no rejection,
\* settlement, replay or crash leaks a reserve or releases it twice.
THEOREM ReserveMatches == FundsSpec => []ReservedMatchesPending
<1>1. BooksInv => ReservedMatchesPending
  BY DEF BooksInv
<1> QED
  BY <1>1, BooksInvariant, PTL

\* The balance of an account is what it opened with and what its completed
\* transactions brought and took: nothing is credited or debited twice, or lost.
THEOREM BalanceMatches == FundsSpec => []BalanceMatchesHistory
<1>1. BooksInv => BalanceMatchesHistory
  BY DEF BooksInv
<1> QED
  BY <1>1, BooksInvariant, PTL

\* Division leaves less than the divisor.
LEMMA DivisionRounds ==
  ASSUME NEW n \in Nat, NEW d \in Nat \ {0}
  PROVE  n \div d \in Int /\ d * (n \div d) <= n /\ n < d * (n \div d) + d
OBVIOUS

\* An amount is rounded to the nearest cent, half up.
LEMMA CentsRound == ASSUME NEW m \in Nat PROVE 10 * Cents(m) - m \in -4 .. 5
BY DEF Cents

\* And so is a conversion.
LEMMA ConvertRounds ==
  ASSUME NEW c \in Nat, NEW q \in ExchangeRates
  PROVE  2 * (q.den * Convert(c, q) - q.num * c) \in 1 - q.den .. q.den
<1> DEFINE n == 2 * c * q.num + q.den
           d == 2 * q.den
           k == n \div d
<1>1. q.num \in Nat /\ q.den \in Nat \ {0}
  BY DEF ExchangeRates
<1>2. n \in Nat /\ d \in Nat \ {0} /\ d = 2 * q.den
  BY <1>1
<1>3. k \in Int /\ d * k <= n /\ n < d * k + d
  <2> HIDE DEF n, d
  <2> QED
    BY <1>2, DivisionRounds
<1>4. Convert(c, q) = k
  BY DEF Convert
<1> HIDE DEF k
<1>5. d * k = 2 * (q.den * k) /\ n = 2 * (q.num * c) + q.den
  BY <1>1, <1>3
<1>6. q.den * k \in Int /\ q.num * c \in Int
  BY <1>1, <1>3
<1> HIDE DEF n, d
<1>7. 2 * (q.den * k - q.num * c) <= q.den /\ 2 * (q.den * k - q.num * c) > -q.den
  BY <1>1, <1>2, <1>3, <1>5, <1>6
<1> QED
  BY <1>1, <1>4, <1>6, <1>7

\* What a row records is what was asked for and quoted, rounded once.
THEOREM RecordedQuoted == FundsSpec => []RecordedAsQuoted
<1>1. FundsInv /\ BooksInv => RecordedAsQuoted
  <2> SUFFICES ASSUME FundsInv, RowsAsQuoted, NEW r \in Rows
               PROVE  LET t == txn[r]
                          q == req[r].rate
                      IN  /\ 10 * t.amount - req[r].body.amount \in -4 .. 5
                          /\ 2 * (q.den * t.converted - q.num * t.amount)
                               \in 1 - q.den .. q.den
                          /\ SameCurrency(req[r].body) => t.converted = t.amount
    BY DEF BooksInv, RecordedAsQuoted
  <2>1. req[r].body.amount \in Nat /\ req[r].rate \in ExchangeRates
    <3>1. req[r] \in Calls /\ req[r].body \in Bodies
      BY RowTypes DEF Calls
    <3>2. req[r].body.amount \in Amounts
      BY <3>1 DEF Bodies, WithdrawalBodies, TransferBodies, DepositBodies
    <3> QED
      BY <3>1, <3>2, StoreAssumption DEF StoreAssumption, Calls
  <2>2. /\ txn[r].amount = Cents(req[r].body.amount)
        /\ txn[r].converted = Convert(txn[r].amount, req[r].rate)
        /\ SameCurrency(req[r].body) => req[r].rate = Par
    BY DEF RowsAsQuoted, RowAsQuoted
  <2>3. txn[r].amount \in Nat
    BY <2>1, <2>2, CentsNat
  <2> QED
    BY <2>1, <2>2, <2>3, CentsRound, ConvertRounds, ConvertPar
<1> QED
  BY <1>1, BooksInvariant, PTL

-----------------------------------------------------------------------------
(* The component implements the ledger. *)

\* What a row says in the ledger.
Recorded(row) ==
  [kind |-> Kind[row.type], account |-> row.account,
   amount |-> IF row.type = "DEPOSIT" THEN row.converted ELSE row.amount,
   state |-> State[row.status]]

Book == [r \in Requests |-> EntryOf(r)]
Makers == [r \in Requests |-> MakerOf(r)]

\* The kinds and states of rows are those of entries.
LEMMA KindsAndStates ==
  ASSUME NEW row \in TxnRows
  PROVE  /\ Kind[row.type] = "out" <=> row.type = "WITHDRAWAL"
         /\ Kind[row.type] = "in" <=> row.type = "DEPOSIT"
         /\ Kind[row.type] = "move" <=> row.type = "TRANSFER"
         /\ State[row.status] = "pending" <=> row.status = "PENDING"
         /\ State[row.status] = "done" <=> row.status = "COMPLETED"
         /\ State[row.status] = "void" <=> row.status \in {"FAILED", "REJECTED"}
         /\ State[row.status] # "none" /\ row.status # "NONE"
BY DEF TxnRows, Kind, State, Open, Settled

\* The fields of an entry.
LEMMA RecordedFields ==
  ASSUME NEW row \in TxnRows
  PROVE  /\ Recorded(row).kind = Kind[row.type]
         /\ Recorded(row).account = row.account
         /\ Recorded(row).state = State[row.status]
         /\ row.type = "DEPOSIT" => Recorded(row).amount = row.converted
         /\ row.type # "DEPOSIT" => Recorded(row).amount = row.amount
BY DEF Recorded

\* The entries are the rows.
LEMMA EntriesAreRows ==
  ASSUME FundsInv
  PROVE  /\ TheLedger!Entries = Rows
         /\ \A r \in Rows : Book[r] = Recorded(txn[r])
         /\ \A r \in Requests \ Rows : Book[r] = TheLedger!NoEntry
<1>1. \A r \in Rows : Book[r] = Recorded(txn[r])
  BY DEF Book, EntryOf, Recorded, Rows
<1>2. \A r \in Requests \ Rows : Book[r] = TheLedger!NoEntry
  BY DEF Book, EntryOf, Rows, TheLedger!NoEntry
<1>3. \A r \in Rows : Book[r].state # "none"
  BY <1>1, RowTypes, RecordedFields, KindsAndStates
<1>4. \A r \in Requests \ Rows : Book[r].state = "none"
  BY <1>2 DEF TheLedger!NoEntry
<1>5. TheLedger!Entries = {r \in Requests : Book[r].state # "none"}
  BY DEF TheLedger!Entries, Book
<1> QED
  BY <1>1, <1>2, <1>3, <1>4, <1>5 DEF Rows

\* The ledger adds as the store does.
LEMMA LedgerAdds ==
  ASSUME NEW f, NEW S
  PROVE  TheLedger!SumFunctionOnSet(f, S) = SumFunctionOnSet(f, S)
<1>1. TheLedger!SumFunctionOnSet(f, S) = (CHOOSE g : IsSum(g, f, S))[S]
  BY DEF TheLedger!SumFunctionOnSet, TheLedger!FoldFunctionOnSet,
         TheLedger!MapThenFoldSet, IsSum
<1> QED
  BY <1>1, SumIs

\* What the entries of an account hold is what its pending withdrawals hold.
LEMMA HeldIsPending ==
  ASSUME FundsInv, IsFiniteSet(Rows), NEW a
  PROVE  TheLedger!Held(a) = PendingOn(a)
<1> DEFINE f == [r \in TheLedger!Entries |-> Book[r].amount]
<1>1. \A r \in Rows : /\ Book[r] = Recorded(txn[r]) /\ txn[r] \in TxnRows
  BY EntriesAreRows, RowTypes
<1>2. TheLedger!Holds(a) =
        {r \in TheLedger!Entries : /\ Book[r].kind = "out" /\ Book[r].account = a
                                   /\ Book[r].state = "pending"}
  BY DEF TheLedger!Holds, Book, TheLedger!Entries
<1>3. TheLedger!Holds(a) = Holding(a)
  <2> SUFFICES ASSUME NEW r \in Rows
               PROVE  r \in TheLedger!Holds(a) <=> r \in Holding(a)
    BY <1>2, EntriesAreRows DEF Holding
  <2> QED
    BY <1>1, <1>2, EntriesAreRows, RecordedFields, KindsAndStates DEF Holding
<1>4. \A r \in Holding(a) : f[r] = AmountOf[r]
  BY <1>1, EntriesAreRows, RecordedFields DEF Holding, AmountOf
<1>5. IsFiniteSet(Holding(a))
  BY FS_Subset DEF Holding
<1>6. TheLedger!Held(a) = SumFunctionOnSet(f, TheLedger!Holds(a))
  BY LedgerAdds DEF TheLedger!Held, Book
<1> HIDE DEF f
<1>7. SumFunctionOnSet(f, Holding(a)) = SumFunctionOnSet(AmountOf, Holding(a))
  BY <1>4, <1>5, SumSame
<1> QED
  BY <1>3, <1>6, <1>7 DEF PendingOn

\* What can be taken from an account is what the ledger would let go.
LEMMA FundsFree ==
  ASSUME FundsInv, BooksInv, NEW a \in Accounts
  PROVE  Available(a) = balance[a] - TheLedger!Held(a)
BY HeldIsPending DEF BooksInv, ReservedMatchesPending, Available

\* One row's entry is made or changed.
LEMMA BookMoves ==
  ASSUME FundsInv, BooksInv, NEW r \in Requests, NEW row \in TxnRows,
         Makes(r, row) \/ Changes(r, row)
  PROVE  Book' = [Book EXCEPT ![r] = Recorded(row)]
<1>1. /\ Rows' = Rows \cup {r} /\ txn'[r] = row
      /\ \A s \in Requests \ {r} : txn'[s] = txn[s]
  BY OneRow DEF BooksInv
<1>2. Book'[r] = Recorded(row)
  BY <1>1, KindsAndStates DEF Book, EntryOf, Recorded
<1>3. \A s \in Requests \ {r} : Book'[s] = Book[s]
  BY <1>1 DEF Book, EntryOf
<1>4. Book' = [s \in Requests |-> Book'[s]] /\ Book = [s \in Requests |-> Book[s]]
  BY DEF Book
<1> QED
  BY <1>2, <1>3, <1>4

\* A request that has its row keeps its customer and its key.
LEMMA MakersStay ==
  ASSUME FundsInv, CallsGo, NEW s \in Rows
  PROVE  <<req'[s].user, req'[s].key>> = <<req[s].user, req[s].key>>
BY DEF FundsInv, RowsAreClaimed, CallsGo, Goes, Rows

\* A changed row is made by whom it was made.
LEMMA MakersKept ==
  ASSUME FundsInv, CallsGo, Rows' = Rows
  PROVE  Makers' = Makers
<1>1. \A s \in Requests : MakerOf(s)' = MakerOf(s)
  BY MakersStay DEF MakerOf, Rows
<1> QED
  BY <1>1 DEF Makers

\* So a row that changes has the maker it had.
LEMMA ChangeKeepsMakers ==
  ASSUME FundsInv, BooksInv, CallsGo, NEW r \in Requests, NEW row \in TxnRows,
         Changes(r, row)
  PROVE  Makers' = Makers
<1>1. r \in Rows /\ Rows' = Rows \cup {r}
  BY OneRow DEF BooksInv, Changes
<1>2. Rows' = Rows
  BY <1>1
<1> QED
  BY <1>2, MakersKept

\* A new row is made for a customer and a key that made no other.
LEMMA MakerIsNew ==
  ASSUME FundsInv, FundsInv', BooksInv, CallsGo, NEW r \in Requests,
         NEW row \in TxnRows, Makes(r, row)
  PROVE  \E m \in Users \X Keys : TheLedger!Make(r, m)
<1> DEFINE m == <<req'[r].user, req'[r].key>>
<1>1. /\ Rows' = Rows \cup {r} /\ r \notin Rows
      /\ \A s \in Requests \ {r} : txn'[s] = txn[s]
  BY OneRow DEF BooksInv, Makes
<1>2. m \in Users \X Keys
  <2>1. req'[r] \in Calls \cup {Idle} /\ req'[r].phase # "idle"
    BY <1>1 DEF FundsInv, FundsTypeOK, DepositTypeOK, StoreTypeOK, RowsAreClaimed
  <2> QED
    BY <2>1 DEF Calls, Idle
<1>3. Book[r] = TheLedger!NoEntry
  BY <1>1, EntriesAreRows
<1>4. \A s \in Rows : Makers[s] = <<req[s].user, req[s].key>>
  BY DEF Makers, MakerOf, Rows
<1>5. \A s \in Rows : Makers[s] # m
  <2> SUFFICES ASSUME NEW s \in Rows, Makers[s] = m PROVE FALSE
    OBVIOUS
  <2>1. req'[s].user = req'[r].user /\ req'[s].key = req'[r].key
    BY <1>4, MakersStay
  <2>2. idem'[<<req'[s].user, req'[s].key>>].txn = s
    BY <1>1 DEF FundsInv, RowsAreClaimed, ClaimOf
  <2>3. idem'[<<req'[r].user, req'[r].key>>].txn = r
    BY <1>1 DEF FundsInv, RowsAreClaimed, ClaimOf
  <2> QED
    BY <1>1, <2>1, <2>2, <2>3
<1>6. Makers' = [Makers EXCEPT ![r] = m]
  <2>1. MakerOf(r)' = m
    BY <1>1 DEF MakerOf, Rows
  <2>2. \A s \in Requests \ {r} : MakerOf(s)' = MakerOf(s)
    BY <1>1, MakersStay DEF MakerOf, Rows
  <2> QED
    BY <2>1, <2>2 DEF Makers
<1> QED
  BY <1>2, <1>3, <1>5, <1>6, EntriesAreRows DEF TheLedger!Make, Book, Makers

\* The funds open as the ledger does.
LEMMA LedgerBegins == FundsInit => TheLedger!LedgerInit
<1> SUFFICES ASSUME FundsInit PROVE TheLedger!LedgerInit
  OBVIOUS
<1>1. balance = OpeningBalance /\ txn = [r \in Requests |-> NoTxn]
  BY DEF FundsInit, DepositInit, StoreInit
<1>2. \A r \in Requests : EntryOf(r) = TheLedger!NoEntry /\ MakerOf(r) = <<>>
  BY <1>1 DEF EntryOf, MakerOf, NoTxn, TheLedger!NoEntry
<1> QED
  BY <1>1, <1>2 DEF TheLedger!LedgerInit, TheLedger!Nobody

\* A new withdrawal holds what it asks for.
LEMMA HoldsIsHold ==
  ASSUME FundsInv, BooksInv, NEW r \in Requests, NEW row \in TxnRows,
         Holds(r, row)
  PROVE  TheLedger!Hold(r, row.account, row.amount)
<1>1. Book' = [Book EXCEPT ![r] =
                 TheLedger!Entry("out", row.account, row.amount, "pending")]
  BY BookMoves DEF Holds, Recorded, Kind, State, TheLedger!Entry
<1>2. balance[row.account] - TheLedger!Held(row.account) >= row.amount
  <2>1. /\ Available(row.account) = balance[row.account] - TheLedger!Held(row.account)
        /\ Available(row.account) \in Int /\ row.amount \in Int
        /\ row.amount <= Available(row.account)
    BY FundsFree, MoneyTyped DEF TxnRows, Holds, Affordable, Available
  <2> QED
    BY <2>1
<1>3. row.amount > 0 /\ balance' = balance
  BY DEF Holds, Affordable
<1> QED
  BY <1>1, <1>2, <1>3 DEF TheLedger!Hold, Book

\* A new deposit is expected, in the currency of the account.
LEMMA ExpectsIsExpect ==
  ASSUME FundsInv, BooksInv, NEW r \in Requests, NEW row \in TxnRows,
         Expects(r, row)
  PROVE  TheLedger!Expect(r, row.account, row.converted)
<1>1. Book' = [Book EXCEPT ![r] =
                 TheLedger!Entry("in", row.account, row.converted, "pending")]
  BY BookMoves DEF Expects, Recorded, Kind, State, TheLedger!Entry
<1> QED
  BY <1>1 DEF Expects, TheLedger!Expect, Book

\* A transfer is one move.
LEMMA MovesIsMove ==
  ASSUME FundsInv, BooksInv, NEW r \in Requests, NEW row \in TxnRows,
         Moves(r, row)
  PROVE  TheLedger!Move(r, row.account, row.amount, row.destination, row.converted)
<1>1. Book' = [Book EXCEPT ![r] =
                 TheLedger!Entry("move", row.account, row.amount, "done")]
  BY BookMoves DEF Moves, Recorded, Kind, State, TheLedger!Entry
<1>2. balance[row.account] - TheLedger!Held(row.account) >= row.amount
  <2>1. /\ Available(row.account) = balance[row.account] - TheLedger!Held(row.account)
        /\ Available(row.account) \in Int /\ row.amount \in Int
        /\ row.amount <= Available(row.account)
    BY FundsFree, MoneyTyped DEF TxnRows, Moves, Affordable, Available
  <2> QED
    BY <2>1
<1>3. /\ row.account # row.destination /\ row.amount > 0 /\ row.converted > 0
      /\ balance' = [balance EXCEPT ![row.account] = @ - row.amount,
                                    ![row.destination] = @ + row.converted]
  BY DEF Moves, Affordable
<1> QED
  BY <1>1, <1>2, <1>3 DEF TheLedger!Move, Book

\* A withdrawal that is rejected or fails is void.
LEMMA ReleasesIsVoid ==
  ASSUME FundsInv, BooksInv, CallsGo, NEW r \in Requests, NEW row \in TxnRows,
         Releases(r, row)
  PROVE  TheLedger!Void(r)
<1>1. /\ r \in Rows /\ txn[r] \in TxnRows
      /\ row.type = txn[r].type /\ row.account = txn[r].account
      /\ row.amount = txn[r].amount /\ row.converted = txn[r].converted
  BY RowBefore DEF Releases
<1>2. Book[r] = Recorded(txn[r])
  BY <1>1, EntriesAreRows
<1>3. Book[r].state = "pending" /\ Book[r].kind = "out"
  BY <1>1, <1>2, RecordedFields, KindsAndStates DEF Releases
<1>4. Recorded(row) = [Recorded(txn[r]) EXCEPT !.state = "void"]
  BY <1>1, KindsAndStates DEF Releases, Recorded
<1>5. Book' = [Book EXCEPT ![r].state = "void"]
  BY <1>2, <1>4, BookMoves DEF Releases
<1>6. Makers' = Makers
  BY ChangeKeepsMakers DEF Releases
<1> QED
  BY <1>3, <1>5, <1>6 DEF Releases, TheLedger!Void, Book, Makers

\* A withdrawal that is paid and a deposit that is received are done.
LEMMA SettlesIsFinish ==
  ASSUME FundsInv, BooksInv, CallsGo, NEW r \in Requests, NEW row \in TxnRows,
         Pays(r, row) \/ Receives(r, row)
  PROVE  TheLedger!Finish(r)
<1>1. /\ r \in Rows /\ txn[r] \in TxnRows
      /\ row.type = txn[r].type /\ row.account = txn[r].account
      /\ row.amount = txn[r].amount /\ row.converted = txn[r].converted
  BY RowBefore DEF Pays, Receives
<1>2. Book[r] = Recorded(txn[r])
  BY <1>1, EntriesAreRows
<1>3. /\ Book[r].state = "pending" /\ Book[r].account = row.account
      /\ Pays(r, row) => Book[r].kind = "out" /\ Book[r].amount = row.amount
      /\ Receives(r, row) => Book[r].kind = "in" /\ Book[r].amount = row.converted
  BY <1>1, <1>2, RecordedFields, KindsAndStates DEF Pays, Receives
<1>4. Recorded(row) = [Recorded(txn[r]) EXCEPT !.state = "done"]
  BY <1>1, KindsAndStates DEF Pays, Receives, Recorded
<1>5. Book' = [Book EXCEPT ![r].state = "done"]
  BY <1>2, <1>4, BookMoves DEF Pays, Receives
<1>6. balance' = [balance EXCEPT ![Book[r].account] =
                    IF Book[r].kind = "in" THEN @ + Book[r].amount
                                           ELSE @ - Book[r].amount]
  BY <1>3 DEF Pays, Receives
<1>7. Makers' = Makers
  BY ChangeKeepsMakers DEF Pays, Receives
<1> QED
  BY <1>3, <1>5, <1>6, <1>7 DEF TheLedger!Finish, Book, Makers

\* An approval, and a step that moves no money, is nothing to the ledger.
LEMMA JudgesIsNothing ==
  ASSUME FundsInv, BooksInv, CallsGo,
         \/ UNCHANGED <<balance, reserved, txn>>
         \/ \E r \in Requests, row \in TxnRows : Judges(r, row)
  PROVE  UNCHANGED TheLedger!ledgerVars
<1>1. CASE UNCHANGED <<balance, reserved, txn>>
  <2>1. Rows' = Rows
    BY <1>1 DEF Rows
  <2>2. Makers' = Makers
    BY <2>1, MakersKept
  <2>3. Book' = Book
    BY <1>1 DEF Book, EntryOf
  <2> QED
    BY <1>1, <2>2, <2>3 DEF TheLedger!ledgerVars, Book, Makers
<1>2. ASSUME NEW r \in Requests, NEW row \in TxnRows, Judges(r, row)
      PROVE  UNCHANGED TheLedger!ledgerVars
  <2>1. /\ r \in Rows /\ txn[r] \in TxnRows
        /\ row.type = txn[r].type /\ row.account = txn[r].account
        /\ row.amount = txn[r].amount /\ row.converted = txn[r].converted
    BY <1>2, RowBefore DEF Judges
  <2>2. Recorded(row) = Recorded(txn[r])
    BY <1>2, <2>1 DEF Judges, Recorded
  <2>3. Book' = Book
    <3>1. Book' = [Book EXCEPT ![r] = Book[r]]
      BY <1>2, <2>1, <2>2, BookMoves, EntriesAreRows DEF Judges
    <3> QED
      BY <3>1 DEF Book
  <2>4. Makers' = Makers
    BY <1>2, ChangeKeepsMakers DEF Judges
  <2> QED
    BY <1>2, <2>3, <2>4 DEF Judges, TheLedger!ledgerVars, Book, Makers
<1> QED
  BY <1>1, <1>2

\* Every step is a step of the ledger, or none.
LEMMA LedgerSteps ==
  ASSUME FundsInv, RequestInv, SettlementInv, BooksInv, [FundsNext]_fundsVars
  PROVE  [TheLedger!LedgerNext]_TheLedger!ledgerVars
<1>1. MoneyMoves /\ CallsGo /\ FundsInv'
  BY MoneySteps, CallsMove, StepInv DEF BooksInv
<1>2. CASE UNCHANGED <<balance, reserved, txn>>
  BY <1>1, <1>2, JudgesIsNothing
<1>3. ASSUME NEW r \in Requests, NEW row \in TxnRows, MoneyStep(r, row)
      PROVE  [TheLedger!LedgerNext]_TheLedger!ledgerVars
  <2>1. row.account \in Accounts
    BY DEF TxnRows
  <2>2. CASE Holds(r, row)
    <3>1. \E m \in Users \X Keys : TheLedger!Make(r, m)
      BY <1>1, <2>2, MakerIsNew DEF Holds
    <3>2. TheLedger!Hold(r, row.account, row.amount) /\ row.amount \in LedgerSums
      BY <2>2, HoldsIsHold DEF Holds, Affordable
    <3> QED
      BY <2>1, <3>1, <3>2 DEF TheLedger!LedgerNext
  <2>3. CASE Expects(r, row)
    <3>1. \E m \in Users \X Keys : TheLedger!Make(r, m)
      BY <1>1, <2>3, MakerIsNew DEF Expects
    <3>2. TheLedger!Expect(r, row.account, row.converted) /\ row.converted \in LedgerSums
      BY <2>3, ExpectsIsExpect DEF Expects
    <3> QED
      BY <2>1, <3>1, <3>2 DEF TheLedger!LedgerNext
  <2>4. CASE Moves(r, row)
    <3>1. \E m \in Users \X Keys : TheLedger!Make(r, m)
      BY <1>1, <2>4, MakerIsNew DEF Moves
    <3>2. /\ TheLedger!Move(r, row.account, row.amount, row.destination, row.converted)
          /\ row.amount \in LedgerSums /\ row.converted \in LedgerSums
          /\ row.destination \in Accounts
      BY <2>4, MovesIsMove DEF Moves, Affordable
    <3> QED
      BY <2>1, <3>1, <3>2 DEF TheLedger!LedgerNext
  <2>5. CASE Judges(r, row)
    BY <1>1, <2>5, JudgesIsNothing
  <2>6. CASE Releases(r, row)
    BY <1>1, <2>6, ReleasesIsVoid DEF TheLedger!LedgerNext
  <2>7. CASE Pays(r, row) \/ Receives(r, row)
    BY <1>1, <2>7, SettlesIsFinish DEF TheLedger!LedgerNext
  <2> QED
    BY <1>3, <2>2, <2>3, <2>4, <2>5, <2>6, <2>7 DEF MoneyStep
<1> QED
  BY <1>1, <1>2, <1>3 DEF MoneyMoves

\* The handlers, the administrators and the webhooks together do to the balances
\* what a ledger without concurrency would: each commit is one entry made, done
\* or void, and no entry is made twice for one customer and key.
THEOREM LedgerKept == FundsSpec => ImplementsLedger
<1>1. FundsInv /\ RequestInv /\ SettlementInv /\ BooksInv /\ [FundsNext]_fundsVars
        => [TheLedger!LedgerNext]_TheLedger!ledgerVars
  BY LedgerSteps
<1> QED
  BY <1>1, LedgerBegins, BooksInvariant, PTL
  DEF FundsSpec, ImplementsLedger, TheLedger!LedgerSpec
=============================================================================
