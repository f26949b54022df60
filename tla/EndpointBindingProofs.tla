----------------------- MODULE EndpointBindingProofs -----------------------
(***************************************************************************)
(* What EndpointBinding promises for any number of connections and         *)
(* endpoint objects.                                                       *)
(*                                                                         *)
(* The invariants speak of Pending, the set of calls that some goroutine   *)
(* has still to make.  Where the order of calls matters, Placed says what  *)
(* follows what on a stack, and Once that a call is made once.             *)
(***************************************************************************)
EXTENDS EndpointBinding, FiniteSetTheorems, TLAPS

\* The calls that take a connection, and those that take an endpoint.
ConnOps == {"ConnReset", "ConnResetEnd", "RemoveConnection", "Release", "Unbind", "MakeEndpoint",
            "Refuse", "AddEndpoint", "AddToKnown", "AddToNew", "AddData", "Bind", "Promote",
            "DataChannel"}
EndpointOps == {"RemoveConnection", "EndpointReset", "Release", "AddEndpointGcList",
                "EndpointResetEnd", "AddEndpoint", "AddToKnown", "AddToNew", "AddData", "Bind",
                "Promote", "DataChannel", "GcCheck"}

\* A call with the arguments its operation takes.
GoodCall ==
  {x \in [op: Ops, c: Conn \cup {NoConn}, e: Endpoint \cup {NoEndpoint}] :
     (x.op \in ConnOps => x.c \in Conn) /\ (x.op \in EndpointOps => x.e \in Endpoint)}

\* The types, and that what is listed is finite.
Typed ==
  /\ TypeOK /\ stack \in [Thread -> Seq(GoodCall)]
  /\ IsFiniteSet(gcList) /\ \A e \in Endpoint : IsFiniteSet(ep[e].data)

\* The calls still to be made.
Pending == UNION {{stack[t][i] : i \in DOMAIN stack[t]} : t \in Thread}

-----------------------------------------------------------------------------
(* The invariants.                                                         *)

\* The order of calls on a stack: a new endpoint gets its connection right
\* after it is in the routes, what Endpoint.Reset takes away is released before
\* the endpoint is queued, and the rest of AddConnection is made at once.
LockOps == {"Bind", "Promote"}
Well(s) ==
  \A i \in 1..Len(s) :
    /\ s[i].op = "AddEndpoint" =>
         i + 1 \in 1..Len(s) /\ s[i + 1] = Call("AddToNew", s[i].c, s[i].e)
    /\ s[i].op = "Release" =>
         \E j \in (i + 1)..Len(s) : s[j] = Call("AddEndpointGcList", NoConn, s[i].e)
    /\ s[i].op \in LockOps => i = 1
Placed == \A t \in Thread : Well(stack[t])

\* An endpoint is put in the routes once, and gets its first connection once.
NewOps == {"AddEndpoint", "AddToNew"}
Once ==
  \A t, u \in Thread : \A i \in 1..Len(stack[t]), j \in 1..Len(stack[u]) :
    /\ stack[t][i].op \in NewOps /\ stack[u][j].op = stack[t][i].op
    /\ stack[u][j].e = stack[t][i].e
    => t = u /\ i = j

\* The goroutine in the middle of AddConnection owns the mutex, and the endpoint
\* was not being reset when it took it.
Locked ==
  \A t \in Thread : \A i \in 1..Len(stack[t]) :
    stack[t][i].op \in LockOps =>
      /\ ep[stack[t][i].e].owner = t
      /\ stack[t][i].op = "Bind" => ~ep[stack[t][i].e].resetting

\* An endpoint that is being reset holds nothing.
Tidy == \A e \in Endpoint : ep[e].resetting => Held(e) = {}

\* A connection that is bound is held, or about to be released by a reset of the
\* endpoint it is bound to.
Released(c, e) == Call("Release", c, e) \in Pending
BoundOrReleased ==
  \A c \in Conn : conn[c].binding # NoEndpoint =>
    c \in Held(conn[c].binding) \/ Released(c, conn[c].binding)

\* Nobody knows of an endpoint before AddEndpoint puts it in the routes.
Known(e) ==
  \/ route = e \/ e \in gcList \/ ep[e].resetting \/ Held(e) # {}
  \/ \E c \in Conn : conn[c].binding = e
  \/ \E x \in Pending : x.e = e /\ x.op \notin NewOps
NewIsUnknown ==
  /\ \A e \in Endpoint : ~ep[e].created => ~Known(e) /\ \A x \in Pending : x.e # e
  /\ \A x \in Pending : x.op = "AddEndpoint" => ~Known(x.e)

\* The garbage collection will look at the endpoint, or has lost it.
Tended(e) ==
  \/ e \in gcList \/ e \in stranded
  \/ \E x \in Pending : x.e = e /\ x.op \in {"AddEndpointGcList", "GcCheck"}
RouteTended ==
  \A e \in Endpoint : route = e =>
    /\ ep[e].resetting => Tended(e)
    /\ \/ Held(e) # {} \/ Tended(e)
       \/ \E x \in Pending : x.e = e /\ x.op \in {"EndpointReset", "AddToNew", "Bind"}

\* The inductive invariant.
Inv == /\ Typed /\ Placed /\ Once /\ Locked /\ Tidy /\ BoundOrReleased
       /\ NewIsUnknown /\ RouteTended

-----------------------------------------------------------------------------
(* Stacks of calls.                                                        *)

\* The calls in gone may no longer be pending, and those in X have become so.
PendingStep(gone, X) ==
  Pending' \subseteq Pending \cup X /\ X \subseteq Pending' /\ Pending \subseteq Pending' \cup gone

\* A list of distinct elements of a finite set, as long as the set is large,
\* has all of them.
LEMMA SeqsCover ==
  ASSUME NEW S, IsFiniteSet(S), NEW f \in SetToSeqs(S)
  PROVE  /\ f \in Seq(S) /\ Len(f) = Cardinality(S) /\ Cardinality(S) \in Nat
         /\ \A x \in S : \E i \in 1..Len(f) : f[i] = x
<1>1. Cardinality(S) \in Nat
  BY FS_CardinalityType
<1> DEFINE n == Cardinality(S)
<1>2. f \in [1..n -> S] /\ \A i, j \in 1..n : i # j => f[i] # f[j]
  BY DEF SetToSeqs
<1>3. f \in Injection(1..n, S)
  BY <1>2 DEF Injection, IsInjective
<1>4. IsFiniteSet(1..n) /\ Cardinality(1..n) = n
  BY <1>1, FS_Interval
<1>5. f \in Surjection(1..n, S)
  BY <1>3, <1>4, FS_Injection
<1>6. \A x \in S : \E i \in 1..n : f[i] = x
  BY <1>5 DEF Surjection
<1>7. f \in Seq(S) /\ Len(f) = n
  BY <1>1, <1>2
<1> QED BY <1>1, <1>6, <1>7

\* Pending, call by call.
LEMMA PendingCalls ==
  ASSUME stack \in [Thread -> Seq(GoodCall)]
  PROVE  /\ \A x : x \in Pending <=> \E t \in Thread : \E i \in 1..Len(stack[t]) : x = stack[t][i]
         /\ Pending \subseteq GoodCall
<1>1. \A t \in Thread : DOMAIN stack[t] = 1..Len(stack[t])
  OBVIOUS
<1> QED BY <1>1 DEF Pending

\* A goroutine returns from its call and goes on with these calls.
LEMMA ThenStack ==
  ASSUME stack \in [Thread -> Seq(GoodCall)], NEW t \in Thread, stack[t] # << >>,
         NEW calls \in Seq(GoodCall), Then(t, calls)
  PROVE  /\ stack' \in [Thread -> Seq(GoodCall)]
         /\ \A u \in Thread : u # t => stack'[u] = stack[u]
         /\ Len(stack'[t]) = Len(calls) + Len(stack[t]) - 1 /\ Len(stack[t]) \in Nat \ {0}
         /\ \A i \in 1..Len(calls) : stack'[t][i] = calls[i]
         /\ \A i \in (Len(calls) + 1)..Len(stack'[t]) : stack'[t][i] = stack[t][i - Len(calls) + 1]
         /\ \A i \in 2..Len(stack[t]) : stack'[t][Len(calls) + i - 1] = stack[t][i]
         /\ Head(stack[t]) = stack[t][1] /\ Head(stack[t]) \in Pending
<1> DEFINE s == stack[t]
<1>1. s \in Seq(GoodCall) /\ s # << >>
  OBVIOUS
<1>2. Len(s) \in Nat \ {0} /\ Tail(s) \in Seq(GoodCall) /\ Len(Tail(s)) = Len(s) - 1
      /\ Head(s) = s[1]
      /\ \A i \in 1..(Len(s) - 1) : Tail(s)[i] = s[i + 1]
  BY <1>1
<1>3. stack' = [stack EXCEPT ![t] = calls \o Tail(s)]
  BY DEF Then
<1>4. stack'[t] = calls \o Tail(s) /\ \A u \in Thread : u # t => stack'[u] = stack[u]
  BY <1>3
<1>5. /\ calls \o Tail(s) \in Seq(GoodCall)
      /\ Len(calls \o Tail(s)) = Len(calls) + Len(s) - 1
      /\ \A i \in 1..Len(calls) : (calls \o Tail(s))[i] = calls[i]
      /\ \A i \in (Len(calls) + 1)..(Len(calls) + Len(s) - 1) :
           (calls \o Tail(s))[i] = Tail(s)[i - Len(calls)]
  BY <1>2
<1>6. stack' \in [Thread -> Seq(GoodCall)]
  BY <1>3, <1>5
<1>7. Head(s) \in Pending
  BY <1>1, <1>2, PendingCalls
<1> HIDE DEF s
<1>8. Len(calls) \in Nat
  OBVIOUS
<1>9. \A i \in (Len(calls) + 1)..Len(stack'[t]) : stack'[t][i] = s[i - Len(calls) + 1]
  BY <1>2, <1>4, <1>5, <1>8
<1>10. ASSUME NEW i \in 2..Len(s) PROVE stack'[t][Len(calls) + i - 1] = s[i]
  <2> DEFINE k == Len(calls) + i - 1
  <2>1. Len(stack'[t]) = Len(calls) + Len(s) - 1
    BY <1>4, <1>5
  <2>2. k \in (Len(calls) + 1)..Len(stack'[t]) /\ k - Len(calls) + 1 = i
    BY <1>2, <1>8, <2>1
  <2> HIDE DEF k
  <2>3. stack'[t][k] = s[i]
    BY <1>9, <2>2
  <2> QED BY <2>3 DEF k
<1> QED BY <1>2, <1>4, <1>5, <1>6, <1>7, <1>9, <1>10 DEF s

\* What that does to the set of calls.
LEMMA ThenPending ==
  ASSUME stack \in [Thread -> Seq(GoodCall)], NEW t \in Thread, stack[t] # << >>,
         NEW calls \in Seq(GoodCall), Then(t, calls)
  PROVE  PendingStep({Head(stack[t])}, {calls[i] : i \in 1..Len(calls)})
<1> DEFINE X == {calls[i] : i \in 1..Len(calls)}
<1>0. Len(calls) \in Nat
  OBVIOUS
<1>1. ASSUME NEW x \in Pending' PROVE x \in Pending \cup X
  <2>1. PICK u \in Thread : \E i \in 1..Len(stack'[u]) : x = stack'[u][i]
    BY <1>1, ThenStack, PendingCalls DEF Pending
  <2>2. PICK i \in 1..Len(stack'[u]) : x = stack'[u][i]
    BY <2>1
  <2>3. CASE u # t
    BY <2>2, <2>3, ThenStack, PendingCalls
  <2>4. CASE u = t /\ i <= Len(calls)
    BY <1>0, <2>2, <2>4, ThenStack
  <2>5. CASE u = t /\ i > Len(calls)
    <3>1. x = stack[t][i - Len(calls) + 1] /\ i - Len(calls) + 1 \in 1..Len(stack[t])
      BY <1>0, <2>2, <2>5, ThenStack
    <3> QED BY <3>1, PendingCalls
  <2> QED BY <1>0, <2>3, <2>4, <2>5
<1>2. ASSUME NEW x \in X PROVE x \in Pending'
  <2>1. PICK i \in 1..Len(calls) : x = calls[i]
    BY <1>2
  <2>2. i \in 1..Len(stack'[t]) /\ stack'[t][i] = x
    BY <1>0, <2>1, ThenStack
  <2>3. DOMAIN stack'[t] = 1..Len(stack'[t])
    BY ThenStack
  <2> QED BY <2>2, <2>3 DEF Pending
<1>3. ASSUME NEW x \in Pending PROVE x \in Pending' \cup {Head(stack[t])}
  <2>1. PICK u \in Thread : \E i \in 1..Len(stack[u]) : x = stack[u][i]
    BY <1>3, PendingCalls
  <2>2. PICK i \in 1..Len(stack[u]) : x = stack[u][i]
    BY <2>1
  <2>3. DOMAIN stack'[u] = 1..Len(stack'[u])
    BY ThenStack
  <2>4. CASE u # t
    BY <2>2, <2>3, <2>4, ThenStack DEF Pending
  <2>5. CASE u = t /\ i = 1
    BY <2>2, <2>5, ThenStack
  <2>6. CASE u = t /\ i # 1
    <3>1. Len(calls) + i - 1 \in 1..Len(stack'[t]) /\ stack'[t][Len(calls) + i - 1] = x
      BY <1>0, <2>2, <2>6, ThenStack
    <3> QED BY <2>3, <2>6, <3>1 DEF Pending
  <2> QED BY <2>4, <2>5, <2>6
<1> QED BY <1>1, <1>2, <1>3 DEF PendingStep

\* An idle goroutine starts with these calls.
LEMMA StartPending ==
  ASSUME stack \in [Thread -> Seq(GoodCall)], NEW t \in Thread, NEW calls \in Seq(GoodCall),
         Start(t, calls)
  PROVE  /\ stack' \in [Thread -> Seq(GoodCall)] /\ stack'[t] = calls
         /\ \A u \in Thread : u # t => stack'[u] = stack[u]
         /\ PendingStep({}, {calls[i] : i \in 1..Len(calls)})
<1> DEFINE X == {calls[i] : i \in 1..Len(calls)}
<1>1. /\ stack[t] = << >> /\ stack'[t] = calls /\ stack' \in [Thread -> Seq(GoodCall)]
      /\ \A u \in Thread : u # t => stack'[u] = stack[u]
  BY DEF Start
<1>2. \A u \in Thread : DOMAIN stack'[u] = 1..Len(stack'[u])
  BY <1>1
<1>3. ASSUME NEW x \in Pending' PROVE x \in Pending \cup X
  <2>1. PICK u \in Thread : \E i \in 1..Len(stack'[u]) : x = stack'[u][i]
    BY <1>2 DEF Pending
  <2>2. CASE u # t
    BY <1>1, <2>1, <2>2, PendingCalls
  <2>3. CASE u = t
    BY <1>1, <2>1, <2>3
  <2> QED BY <2>2, <2>3
<1>4. X \subseteq Pending'
  BY <1>1, <1>2 DEF Pending
<1>5. ASSUME NEW x \in Pending PROVE x \in Pending'
  <2>1. PICK u \in Thread : \E i \in 1..Len(stack[u]) : x = stack[u][i]
    BY PendingCalls
  <2>2. u # t
    BY <1>1, <2>1
  <2> QED BY <1>1, <1>2, <2>1, <2>2 DEF Pending
<1> QED BY <1>1, <1>3, <1>4, <1>5 DEF PendingStep

\* The call a goroutine makes next.
LEMMA AtHead ==
  ASSUME stack \in [Thread -> Seq(GoodCall)], NEW t \in Thread, NEW op, At(t, op)
  PROVE  /\ stack[t] # << >> /\ Head(stack[t]) \in GoodCall /\ Head(stack[t]) \in Pending
         /\ Head(stack[t]) = Call(op, C(t), E(t)) /\ op \in Ops
         /\ C(t) \in Conn \cup {NoConn} /\ E(t) \in Endpoint \cup {NoEndpoint}
         /\ op \in ConnOps => C(t) \in Conn
         /\ op \in EndpointOps => E(t) \in Endpoint
<1>1. stack[t] # << >> /\ Head(stack[t]).op = op
  BY DEF At
<1>2. Head(stack[t]) = stack[t][1] /\ 1 \in 1..Len(stack[t]) /\ Head(stack[t]) \in GoodCall
  BY <1>1
<1>3. Head(stack[t]) \in Pending
  BY <1>2, PendingCalls
<1>4. Head(stack[t]) = Call(op, C(t), E(t))
  BY <1>1, <1>2 DEF GoodCall, Call, C, E
<1> QED BY <1>1, <1>2, <1>3, <1>4 DEF GoodCall, C, E

\* Calls are well formed.
LEMMA CallGood ==
  ASSUME NEW op \in Ops, NEW c \in Conn \cup {NoConn}, NEW e \in Endpoint \cup {NoEndpoint},
         op \in ConnOps => c \in Conn, op \in EndpointOps => e \in Endpoint
  PROVE  /\ Call(op, c, e) \in GoodCall
         /\ Call(op, c, e).op = op /\ Call(op, c, e).c = c /\ Call(op, c, e).e = e
BY DEF GoodCall, Call

\* The elements of a list.
Members(s) == {s[i] : i \in 1..Len(s)}

\* The elements of one list after another, by place.
LEMMA ConcatAt ==
  ASSUME NEW S, NEW a \in Seq(S), NEW b \in Seq(S)
  PROVE  /\ Len(a \o b) = Len(a) + Len(b)
         /\ \A i \in 1..Len(a) : (a \o b)[i] = a[i]
         /\ \A i \in (Len(a) + 1)..(Len(a) + Len(b)) : (a \o b)[i] = b[i - Len(a)]
OBVIOUS

\* The members of one list after another.
LEMMA ConcatRange ==
  ASSUME NEW S, NEW a \in Seq(S), NEW b \in Seq(S)
  PROVE  /\ a \o b \in Seq(S)
         /\ Members(a \o b) = Members(a) \cup Members(b)
<1> DEFINE n == Len(a)
           m == Len(b)
           s == a \o b
<1>1. n \in Nat /\ m \in Nat
  OBVIOUS
<1>2. /\ s \in Seq(S) /\ Len(s) = n + m
      /\ \A i \in 1..n : s[i] = a[i]
      /\ \A i \in (n + 1)..(n + m) : s[i] = b[i - n]
  OBVIOUS
<1> HIDE DEF s
<1>3. ASSUME NEW i \in 1..Len(s)
      PROVE  s[i] \in {a[j] : j \in 1..Len(a)} \cup {b[j] : j \in 1..Len(b)}
  <2>1. CASE i <= n
    <3>1. i \in 1..n /\ s[i] = a[i]
      BY <1>1, <1>2, <2>1
    <3> QED BY <3>1
  <2>2. CASE i > n
    <3>1. i - n \in 1..m /\ s[i] = b[i - n]
      BY <1>1, <1>2, <2>2
    <3> QED BY <3>1
  <2>3. i <= n \/ i > n
    BY <1>1, <1>2
  <2> QED BY <2>1, <2>2, <2>3
<1>4. ASSUME NEW i \in 1..Len(a) PROVE \E j \in 1..Len(s) : s[j] = a[i]
  <2>1. i \in 1..Len(s) /\ s[i] = a[i]
    BY <1>1, <1>2
  <2> QED BY <2>1
<1>5. ASSUME NEW j \in 1..Len(b) PROVE \E i \in 1..Len(s) : s[i] = b[j]
  <2>1. n + j \in 1..Len(s) /\ n + j \in (n + 1)..(n + m) /\ (n + j) - n = j
    BY <1>1, <1>2
  <2>2. s[n + j] = b[j]
    BY <1>2, <2>1
  <2> QED BY <2>1, <2>2
<1>6. {s[i] : i \in 1..Len(s)} = {a[i] : i \in 1..Len(a)} \cup {b[i] : i \in 1..Len(b)}
  <2>1. \A x \in {s[i] : i \in 1..Len(s)} :
          x \in {a[i] : i \in 1..Len(a)} \cup {b[i] : i \in 1..Len(b)}
    BY <1>3
  <2>2. \A x \in {a[i] : i \in 1..Len(a)} : x \in {s[i] : i \in 1..Len(s)}
    BY <1>4
  <2>3. \A x \in {b[i] : i \in 1..Len(b)} : x \in {s[i] : i \in 1..Len(s)}
    BY <1>5
  <2> QED BY <2>1, <2>2, <2>3
<1> QED BY <1>2, <1>6 DEF s, Members

\* A stack stays well ordered when its first call is replaced by a list that is.
LEMMA WellThen ==
  ASSUME NEW s \in Seq(GoodCall), s # << >>, Well(s), NEW calls \in Seq(GoodCall), Well(calls),
         NEW r \in Seq(GoodCall), Len(r) = Len(calls) + Len(s) - 1,
         \A i \in 1..Len(calls) : r[i] = calls[i],
         \A i \in (Len(calls) + 1)..Len(r) : r[i] = s[i - Len(calls) + 1],
         \A i \in 2..Len(s) : r[Len(calls) + i - 1] = s[i]
  PROVE  Well(r)
<1> DEFINE n == Len(calls)
           m == Len(s)
<1>1. n \in Nat /\ m \in Nat \ {0} /\ Len(r) = n + m - 1
  OBVIOUS
<1> SUFFICES ASSUME NEW i \in 1..Len(r)
             PROVE  /\ r[i].op = "AddEndpoint" =>
                         i + 1 \in 1..Len(r) /\ r[i + 1] = Call("AddToNew", r[i].c, r[i].e)
                    /\ r[i].op = "Release" =>
                         \E j \in (i + 1)..Len(r) : r[j] = Call("AddEndpointGcList", NoConn, r[i].e)
                    /\ r[i].op \in LockOps => i = 1
  BY DEF Well
<1>2. CASE i <= n
  <2>1. i \in 1..n /\ r[i] = calls[i]
    BY <1>1, <1>2
  <2>2. /\ calls[i].op = "AddEndpoint" =>
             i + 1 \in 1..n /\ calls[i + 1] = Call("AddToNew", calls[i].c, calls[i].e)
        /\ calls[i].op = "Release" =>
             \E j \in (i + 1)..n : calls[j] = Call("AddEndpointGcList", NoConn, calls[i].e)
        /\ calls[i].op \in LockOps => i = 1
    BY <2>1 DEF Well
  <2>3. \A j \in 1..n : j \in 1..Len(r) /\ r[j] = calls[j]
    BY <1>1
  <2>4. \A j \in (i + 1)..n : j \in 1..n /\ j \in (i + 1)..Len(r)
    BY <1>1
  <2> QED BY <2>1, <2>2, <2>3, <2>4
<1>3. CASE i > n
  <2> DEFINE k == i - n + 1
  <2>1. k \in 2..m /\ k \in 1..m /\ i \in (n + 1)..Len(r)
    BY <1>1, <1>3
  <2>2. r[i] = s[k]
    BY <2>1
  <2>3. /\ s[k].op = "AddEndpoint" =>
             k + 1 \in 1..m /\ s[k + 1] = Call("AddToNew", s[k].c, s[k].e)
        /\ s[k].op = "Release" =>
             \E j \in (k + 1)..m : s[j] = Call("AddEndpointGcList", NoConn, s[k].e)
        /\ s[k].op \in LockOps => k = 1
    BY <2>1 DEF Well
  <2>4. \A j \in (k + 1)..m :
          /\ j \in 2..m /\ n + j - 1 \in (i + 1)..Len(r)
    BY <1>1, <2>1
  <2>5. k + 1 \in 1..m => k + 1 \in (k + 1)..m /\ n + (k + 1) - 1 = i + 1 /\ i + 1 \in 1..Len(r)
    BY <1>1, <2>1
  <2>6. \A j \in (k + 1)..m : r[n + j - 1] = s[j] /\ n + j - 1 \in (i + 1)..Len(r)
    BY <2>4
  <2>7. k # 1
    BY <2>1
  <2> HIDE DEF k
  <2>8. s[k].op = "AddEndpoint" =>
          i + 1 \in 1..Len(r) /\ r[i + 1] = Call("AddToNew", s[k].c, s[k].e)
    BY <2>3, <2>5, <2>6
  <2>9. s[k].op = "Release" =>
          \E j \in (i + 1)..Len(r) : r[j] = Call("AddEndpointGcList", NoConn, s[k].e)
    BY <2>3, <2>6
  <2> QED BY <2>2, <2>3, <2>7, <2>8, <2>9
<1> QED BY <1>1, <1>2, <1>3

\* Calls that are not about a new endpoint are made.
LEMMA OnceThen ==
  ASSUME stack \in [Thread -> Seq(GoodCall)], Once, NEW t \in Thread, stack[t] # << >>,
         NEW calls \in Seq(GoodCall), Then(t, calls),
         \A i \in 1..Len(calls) : calls[i].op \notin NewOps
  PROVE  Once'
<1> DEFINE n == Len(calls)
<1>1. /\ n \in Nat /\ Len(stack[t]) \in Nat \ {0} /\ Len(stack'[t]) = n + Len(stack[t]) - 1
      /\ \A u \in Thread : u # t => stack'[u] = stack[u]
      /\ \A i \in 1..n : stack'[t][i] = calls[i]
      /\ \A i \in (n + 1)..Len(stack'[t]) : stack'[t][i] = stack[t][i - n + 1]
  BY ThenStack
<1>2. ASSUME NEW i \in 1..Len(stack'[t]), stack'[t][i].op \in NewOps
      PROVE  i - n + 1 \in 1..Len(stack[t]) /\ stack'[t][i] = stack[t][i - n + 1]
  <2>1. i > n
    BY <1>1, <1>2
  <2> QED BY <1>1, <2>1
<1> SUFFICES ASSUME NEW u \in Thread, NEW v \in Thread,
                    NEW i \in 1..Len(stack'[u]), NEW j \in 1..Len(stack'[v]),
                    stack'[u][i].op \in NewOps, stack'[v][j].op = stack'[u][i].op,
                    stack'[v][j].e = stack'[u][i].e
             PROVE  u = v /\ i = j
  BY DEF Once
<1>3. PICK k \in 1..Len(stack[u]) : stack'[u][i] = stack[u][k] /\ k = IF u = t THEN i - n + 1 ELSE i
  BY <1>1, <1>2
<1>4. PICK m \in 1..Len(stack[v]) : stack'[v][j] = stack[v][m] /\ m = IF v = t THEN j - n + 1 ELSE j
  BY <1>1, <1>2
<1>5. stack[u][k].op \in NewOps /\ stack[v][m].op = stack[u][k].op /\ stack[v][m].e = stack[u][k].e
  BY <1>3, <1>4
<1>6. u = v /\ k = m
  BY <1>5 DEF Once
<1>7. i \in Int /\ j \in Int /\ n \in Int
  BY <1>1
<1> QED BY ONLY <1>3, <1>4, <1>6, <1>7

\* A goroutine goes on with a well ordered list of calls that are not about a
\* new endpoint.
LEMMA PlacedThen ==
  ASSUME Inv, NEW t \in Thread, stack[t] # << >>, NEW calls \in Seq(GoodCall), Then(t, calls),
         Well(calls)
  PROVE  /\ stack' \in [Thread -> Seq(GoodCall)] /\ Placed'
         /\ PendingStep({Head(stack[t])}, Members(calls))
         /\ (\A x \in Members(calls) : x.op \notin NewOps) => Once'
<1>1. stack \in [Thread -> Seq(GoodCall)] /\ Placed /\ Once
  BY DEF Inv, Typed
<1>2. PendingStep({Head(stack[t])}, Members(calls))
  BY <1>1, ThenPending DEF Members
<1>3. /\ stack' \in [Thread -> Seq(GoodCall)]
      /\ \A u \in Thread : u # t => stack'[u] = stack[u]
      /\ Len(stack'[t]) = Len(calls) + Len(stack[t]) - 1
      /\ \A i \in 1..Len(calls) : stack'[t][i] = calls[i]
      /\ \A i \in (Len(calls) + 1)..Len(stack'[t]) : stack'[t][i] = stack[t][i - Len(calls) + 1]
      /\ \A i \in 2..Len(stack[t]) : stack'[t][Len(calls) + i - 1] = stack[t][i]
  BY <1>1, ThenStack
<1>4. Well(stack'[t])
  <2> DEFINE s == stack[t]
             r == stack'[t]
  <2>1. s \in Seq(GoodCall) /\ r \in Seq(GoodCall) /\ Well(s) /\ s # << >>
    BY <1>1, <1>3 DEF Placed
  <2>2. /\ Len(r) = Len(calls) + Len(s) - 1
        /\ \A i \in 1..Len(calls) : r[i] = calls[i]
        /\ \A i \in (Len(calls) + 1)..Len(r) : r[i] = s[i - Len(calls) + 1]
        /\ \A i \in 2..Len(s) : r[Len(calls) + i - 1] = s[i]
    BY <1>3
  <2> HIDE DEF s, r
  <2>3. Well(r)
    BY <2>1, <2>2, WellThen
  <2> QED BY <2>3 DEF r
<1>5. \A u \in Thread : Well(stack'[u])
  BY <1>1, <1>3, <1>4 DEF Placed
<1>6. Placed'
  BY <1>5 DEF Placed, Well
<1>7. (\A x \in Members(calls) : x.op \notin NewOps) => Once'
  BY <1>1, OnceThen DEF Members
<1> QED BY <1>2, <1>3, <1>6, <1>7

\* The mutexes other goroutines own stay theirs, and what this one goes on with
\* under a mutex it owns.
LockStep(t, calls) ==
  /\ \A e \in Endpoint : ep[e].owner \notin {t, Nobody} =>
       ep'[e].owner = ep[e].owner /\ (ep'[e].resetting => ep[e].resetting)
  /\ \A i \in 1..Len(calls) : calls[i].op \in LockOps =>
       /\ ep'[calls[i].e].owner = t
       /\ calls[i].op = "Bind" => ~ep'[calls[i].e].resetting

LEMMA LockedThen ==
  ASSUME Inv, NEW t \in Thread, stack[t] # << >>, NEW calls \in Seq(GoodCall), Then(t, calls),
         LockStep(t, calls)
  PROVE  Locked'
<1>1. stack \in [Thread -> Seq(GoodCall)] /\ Placed /\ Locked
  BY DEF Inv, Typed
<1> DEFINE n == Len(calls)
<1>2. /\ n \in Nat /\ Len(stack[t]) \in Nat \ {0} /\ Len(stack'[t]) = n + Len(stack[t]) - 1
      /\ \A u \in Thread : u # t => stack'[u] = stack[u]
      /\ \A i \in 1..n : stack'[t][i] = calls[i]
      /\ \A i \in (n + 1)..Len(stack'[t]) : stack'[t][i] = stack[t][i - n + 1]
  BY <1>1, ThenStack
<1> SUFFICES ASSUME NEW u \in Thread, NEW i \in 1..Len(stack'[u]), stack'[u][i].op \in LockOps
             PROVE  /\ ep'[stack'[u][i].e].owner = u
                    /\ stack'[u][i].op = "Bind" => ~ep'[stack'[u][i].e].resetting
  BY DEF Locked
<1>3. CASE u # t
  <2>1. stack'[u] = stack[u] /\ i \in 1..Len(stack[u])
    BY <1>2, <1>3
  <2>2. stack[u][i] \in GoodCall
    BY <1>1, <2>1
  <2>3. stack[u][i].e \in Endpoint
    BY <2>1, <2>2 DEF GoodCall, EndpointOps, LockOps
  <2>4. /\ ep[stack[u][i].e].owner = u
        /\ stack[u][i].op = "Bind" => ~ep[stack[u][i].e].resetting
    BY <1>1, <2>1 DEF Locked
  <2>5. u # Nobody
    BY DEF Thread, Nobody
  <2> QED BY <1>3, <2>1, <2>3, <2>4, <2>5 DEF LockStep
<1>4. CASE u = t /\ i <= n
  <2>1. i \in 1..n /\ stack'[t][i] = calls[i]
    BY <1>2, <1>4
  <2> QED BY <1>4, <2>1 DEF LockStep
<1>5. CASE u = t /\ i > n
  <2>1. i - n + 1 \in 2..Len(stack[t]) /\ stack'[t][i] = stack[t][i - n + 1]
    BY <1>2, <1>5, SMTT(60)
  <2>2. PICK k \in 2..Len(stack[t]) : k = i - n + 1
    BY <2>1
  <2>3. stack[t][k].op \in LockOps /\ k \in 1..Len(stack[t]) /\ k # 1
    BY <1>5, <2>1, <2>2
  <2> QED BY <1>1, <2>3 DEF Placed, Well
<1> QED BY <1>2, <1>3, <1>4, <1>5


-----------------------------------------------------------------------------
(* What a step of a goroutine does to the order of calls.                  *)

\* The calls stay in order and the mutexes with their owners.
Settled == stack' \in [Thread -> Seq(GoodCall)] /\ Placed' /\ Once' /\ Locked'

\* The elements of short lists.
LEMMA ShortLists ==
  ASSUME NEW S
  PROVE  /\ << >> \in Seq(S) /\ Members(<< >>) = {}
         /\ \A a \in S : <<a>> \in Seq(S) /\ Members(<<a>>) = {a}
         /\ \A a, b \in S : <<a, b>> \in Seq(S) /\ Members(<<a, b>>) = {a, b}
         /\ \A a, b, c \in S : <<a, b, c>> \in Seq(S) /\ Members(<<a, b, c>>) = {a, b, c}
<1>1. << >> \in Seq(S) /\ Members(<< >>) = {}
  BY DEF Members
<1>2. ASSUME NEW a \in S PROVE <<a>> \in Seq(S) /\ Members(<<a>>) = {a}
  BY DEF Members
<1>3. ASSUME NEW a \in S, NEW b \in S PROVE <<a, b>> \in Seq(S) /\ Members(<<a, b>>) = {a, b}
  <2> DEFINE s == <<a, b>>
  <2>1. s \in Seq(S) /\ Len(s) = 2 /\ s[1] = a /\ s[2] = b
    OBVIOUS
  <2> HIDE DEF s
  <2>2. 1..Len(s) = {1, 2}
    BY <2>1
  <2>3. Members(s) = {a, b}
    BY <2>1, <2>2 DEF Members
  <2> QED BY <2>1, <2>3 DEF s
<1>4. ASSUME NEW a \in S, NEW b \in S, NEW c \in S
      PROVE  <<a, b, c>> \in Seq(S) /\ Members(<<a, b, c>>) = {a, b, c}
  <2> DEFINE s == <<a, b, c>>
  <2>1. s \in Seq(S) /\ Len(s) = 3 /\ s[1] = a /\ s[2] = b /\ s[3] = c
    OBVIOUS
  <2> HIDE DEF s
  <2>2. 1..Len(s) = {1, 2, 3}
    BY <2>1
  <2>3. Members(s) = {a, b, c}
    BY <2>1, <2>2 DEF Members
  <2> QED BY <2>1, <2>3 DEF s
<1> QED BY <1>1, <1>2, <1>3, <1>4

\* A call that may be anywhere on a stack.
Plain(x) == x.op \notin NewOps /\ x.op # "Release" /\ x.op \notin LockOps

\* The mutexes of other goroutines stay theirs.
OthersKeep(t) ==
  \A e \in Endpoint : ep[e].owner \notin {t, Nobody} =>
    ep'[e].owner = ep[e].owner /\ (ep'[e].resetting => ep[e].resetting)

\* A goroutine returns from a call and goes on.
LEMMA ThenSettled ==
  ASSUME Inv, NEW t \in Thread, stack[t] # << >>, NEW calls \in Seq(GoodCall), Then(t, calls),
         Well(calls), \A x \in Members(calls) : x.op \notin NewOps, LockStep(t, calls)
  PROVE  Settled /\ PendingStep({Head(stack[t])}, Members(calls))
BY PlacedThen, LockedThen DEF Settled

\* The same for calls that may be anywhere.
LEMMA PlainThen ==
  ASSUME Inv, NEW t \in Thread, stack[t] # << >>, NEW calls \in Seq(GoodCall), Then(t, calls),
         \A x \in Members(calls) : Plain(x), OthersKeep(t)
  PROVE  Settled /\ PendingStep({Head(stack[t])}, Members(calls))
<1>1. \A i \in 1..Len(calls) : Plain(calls[i])
  BY DEF Members
<1>2. Well(calls)
  BY <1>1 DEF Well, Plain, NewOps
<1>3. LockStep(t, calls)
  BY <1>1 DEF LockStep, Plain, OthersKeep
<1>4. \A x \in Members(calls) : x.op \notin NewOps
  BY DEF Plain
<1> QED BY <1>2, <1>3, <1>4, ThenSettled

\* An idle goroutine starts with calls that may be anywhere.
LEMMA PlainStart ==
  ASSUME Inv, NEW t \in Thread, NEW calls \in Seq(GoodCall), Start(t, calls),
         \A x \in Members(calls) : Plain(x), OthersKeep(t)
  PROVE  Settled /\ PendingStep({}, Members(calls))
<1>1. stack \in [Thread -> Seq(GoodCall)] /\ Placed /\ Once /\ Locked
  BY DEF Inv, Typed
<1>2. /\ stack' \in [Thread -> Seq(GoodCall)] /\ stack'[t] = calls
      /\ \A u \in Thread : u # t => stack'[u] = stack[u]
      /\ PendingStep({}, Members(calls))
  BY <1>1, StartPending DEF Members
<1>3. \A i \in 1..Len(calls) : Plain(calls[i])
  BY DEF Members
<1>4. Well(calls)
  BY <1>3 DEF Well, Plain, NewOps
<1>5. \A u \in Thread : Well(stack'[u])
  BY <1>1, <1>2, <1>4 DEF Placed
<1>6. Placed'
  BY <1>5 DEF Placed, Well
<1>7. Once'
  <2> SUFFICES ASSUME NEW u \in Thread, NEW v \in Thread,
                      NEW i \in 1..Len(stack'[u]), NEW j \in 1..Len(stack'[v]),
                      stack'[u][i].op \in NewOps, stack'[v][j].op = stack'[u][i].op,
                      stack'[v][j].e = stack'[u][i].e
               PROVE  u = v /\ i = j
    BY DEF Once
  <2>1. u # t /\ v # t
    BY <1>2, <1>3 DEF Plain
  <2>2. stack'[u] = stack[u] /\ stack'[v] = stack[v]
    BY <1>2, <2>1
  <2>3. i \in 1..Len(stack[u]) /\ j \in 1..Len(stack[v])
    BY <2>2
  <2>4. stack[u][i].op \in NewOps /\ stack[v][j].op = stack[u][i].op /\ stack[v][j].e = stack[u][i].e
    BY <2>2
  <2> QED BY <1>1, <2>3, <2>4 DEF Once
<1>8. Locked'
  <2> SUFFICES ASSUME NEW u \in Thread, NEW i \in 1..Len(stack'[u]), stack'[u][i].op \in LockOps
               PROVE  /\ ep'[stack'[u][i].e].owner = u
                      /\ stack'[u][i].op = "Bind" => ~ep'[stack'[u][i].e].resetting
    BY DEF Locked
  <2>1. u # t
    BY <1>2, <1>3 DEF Plain
  <2>2. stack'[u] = stack[u] /\ i \in 1..Len(stack[u])
    BY <1>2, <2>1
  <2>3. stack[u][i] \in GoodCall
    BY <1>1, <2>2
  <2>4. stack[u][i].e \in Endpoint
    BY <2>2, <2>3 DEF GoodCall, EndpointOps, LockOps
  <2>5. /\ ep[stack[u][i].e].owner = u
        /\ stack[u][i].op = "Bind" => ~ep[stack[u][i].e].resetting
    BY <1>1, <2>2 DEF Locked
  <2>6. u # Nobody
    BY DEF Thread, Nobody
  <2> QED BY <2>1, <2>2, <2>4, <2>5, <2>6 DEF OthersKeep
<1> QED BY <1>2, <1>6, <1>7, <1>8 DEF Settled

-----------------------------------------------------------------------------
(* Steps that change little.                                               *)

\* No connection is bound or unbound.
BindingSame == \A c \in Conn : conn'[c].binding = conn[c].binding

\* No endpoint gets or loses a connection.
HeldSame ==
  \A e \in Endpoint : /\ ep'[e].ctrl = ep[e].ctrl /\ ep'[e].data = ep[e].data
                      /\ ep'[e].resetting = ep[e].resetting /\ ep'[e].created = ep[e].created

\* Nobody learns of an endpoint that was unknown, but of those in N.
LEMMA UnknownBut ==
  ASSUME Typed, NewIsUnknown, NEW gone, NEW X, PendingStep(gone, X), NEW N,
         \A e \in Endpoint :
           /\ ep'[e].created = ep[e].created
           /\ e \in N => ep[e].created
           /\ e \notin N =>
                /\ Held(e)' \subseteq Held(e)
                /\ ep'[e].resetting \/ route' = e \/ e \in gcList' => Known(e),
         \A c \in Conn : conn'[c].binding \in {conn[c].binding, NoEndpoint} \cup N,
         \A x \in X : x.op \notin NewOps /\ (x.e \in Endpoint /\ x.e \notin N => Known(x.e)),
         \A x \in Pending' : x.op = "AddEndpoint" => x.e \notin N
  PROVE  NewIsUnknown'
<1>1. /\ Pending' \subseteq Pending \cup X
  BY DEF PendingStep
<1>2. ASSUME NEW e \in Endpoint, e \notin N, Known(e)' PROVE Known(e)
  <2>1. CASE \E x \in Pending' : x.e = e /\ x.op \notin NewOps
    BY <1>1, <1>2, <2>1 DEF Known
  <2>2. CASE \E c \in Conn : conn'[c].binding = e
    <3>1. PICK c \in Conn : conn'[c].binding = e
      BY <2>2
    <3>2. conn[c].binding = e
      BY <1>2, <3>1, EndpointAssumption
    <3> QED BY <3>2 DEF Known
  <2>3. CASE route' = e \/ e \in gcList' \/ ep'[e].resetting
    BY <1>2, <2>3
  <2>4. CASE Held(e)' # {}
    BY <1>2, <2>4 DEF Known
  <2> QED BY <1>2, <2>1, <2>2, <2>3, <2>4 DEF Known
<1>3. \A e \in Endpoint : ~ep'[e].created => ~Known(e)' /\ \A x \in Pending' : x.e # e
  BY <1>1, <1>2 DEF NewIsUnknown
<1>4. \A x \in Pending : x.op = "AddEndpoint" => x.e \in Endpoint
  BY PendingCalls DEF Typed, GoodCall, EndpointOps
<1>5. \A x \in Pending' : x.op = "AddEndpoint" => ~Known(x.e)'
  BY <1>1, <1>2, <1>4 DEF NewIsUnknown, NewOps
<1> QED BY <1>3, <1>5 DEF NewIsUnknown

\* Nobody learns of an endpoint that was unknown.
LEMMA UnknownKept ==
  ASSUME Typed, NewIsUnknown, NEW gone, NEW X, PendingStep(gone, X),
         \A e \in Endpoint :
           /\ ep'[e].created = ep[e].created /\ Held(e)' \subseteq Held(e)
           /\ ep'[e].resetting \/ route' = e \/ e \in gcList' => Known(e),
         \A c \in Conn : conn'[c].binding \in {conn[c].binding, NoEndpoint},
         \A x \in X : x.op \notin NewOps /\ (x.e \in Endpoint => Known(x.e))
  PROVE  NewIsUnknown'
<1> DEFINE N == {}
<1>1. \A e : e \notin N
  OBVIOUS
<1> HIDE DEF N
<1> QED BY <1>1, UnknownBut

\* A step that neither binds nor releases anything, and by which no endpoint
\* comes to hold or to be reset.
LEMMA QuietStep ==
  ASSUME Typed, Tidy, BoundOrReleased, BindingSame,
         \A e \in Endpoint : /\ ep'[e].ctrl = ep[e].ctrl /\ ep'[e].data = ep[e].data
                             /\ ep'[e].resetting => ep[e].resetting,
         NEW gone, NEW X, PendingStep(gone, X), \A g \in gone : g.op # "Release"
  PROVE  /\ Tidy' /\ BoundOrReleased'
         /\ \A e \in Endpoint : Held(e)' = Held(e)
<1>1. /\ Pending' \subseteq Pending \cup X /\ X \subseteq Pending' /\ Pending \subseteq Pending' \cup gone
  BY DEF PendingStep
<1>2. \A e \in Endpoint : Held(e)' = Held(e)
  BY DEF Held
<1>3. Tidy'
  BY <1>2 DEF Tidy
<1>4. BoundOrReleased'
  <2>1. \A c, e : Released(c, e) => Released(c, e)'
    <3>1. \A c, e : Call("Release", c, e).op = "Release"
      BY DEF Call
    <3> QED BY <1>1, <3>1 DEF Released
  <2>2. ASSUME NEW c \in Conn, conn'[c].binding # NoEndpoint
        PROVE  c \in Held(conn[c].binding)' \/ Released(c, conn[c].binding)'
    <3>1. conn[c].binding \in Endpoint \cup {NoEndpoint} /\ conn[c].binding = conn'[c].binding
      BY DEF Typed, TypeOK, BindingSame
    <3> QED BY <1>2, <2>1, <2>2, <3>1 DEF BoundOrReleased
  <2> QED BY <2>2 DEF BoundOrReleased, BindingSame
<1> QED BY <1>2, <1>3, <1>4

-----------------------------------------------------------------------------
(* Calm steps.                                                             *)

\* The states of a connection and of an endpoint.
ConnRecord == [status: Status, binding: Endpoint \cup {NoEndpoint}, resetting: BOOLEAN,
               server: BOOLEAN, registered: BOOLEAN]
EndpointRecord == [ctrl: Conn \cup {NoConn}, data: SUBSET Conn, resetting: BOOLEAN,
                   owner: Thread \cup {Nobody}, created: BOOLEAN]

\* The parts of Typed, before and after a step.
LEMMA TypedParts ==
  ASSUME Typed
  PROVE  /\ conn \in [Conn -> ConnRecord] /\ ep \in [Endpoint -> EndpointRecord]
         /\ route \in Endpoint \cup {NoEndpoint} /\ gcList \subseteq Endpoint
         /\ inGc \in BOOLEAN /\ stranded \subseteq Endpoint
         /\ stack \in [Thread -> Seq(GoodCall)]
         /\ IsFiniteSet(gcList) /\ \A e \in Endpoint : IsFiniteSet(ep[e].data)
BY DEF Typed, TypeOK, ConnRecord, EndpointRecord

\* A step whose parts keep their types keeps Typed.
LEMMA TypedStep ==
  ASSUME conn' \in [Conn -> ConnRecord], ep' \in [Endpoint -> EndpointRecord],
         route' \in Endpoint \cup {NoEndpoint}, gcList' \subseteq Endpoint,
         inGc' \in BOOLEAN, stranded' \subseteq Endpoint, stack' \in [Thread -> Seq(GoodCall)],
         IsFiniteSet(gcList'), \A e \in Endpoint : IsFiniteSet(ep'[e].data)
  PROVE  Typed'
<1>1. ASSUME NEW t \in Thread, NEW i \in DOMAIN stack'[t]
      PROVE  stack'[t][i] \in [op: Ops, c: Conn \cup {NoConn}, e: Endpoint \cup {NoEndpoint}]
  <2>1. stack'[t][i] \in GoodCall
    OBVIOUS
  <2> QED BY <2>1 DEF GoodCall
<1> QED BY <1>1 DEF Typed, TypeOK, ConnRecord, EndpointRecord

\* What a calm step leaves alone.
Calm ==
  /\ UNCHANGED <<gcList, inGc, stranded>> /\ route' \in {route, NoEndpoint}
  /\ conn' \in [Conn -> ConnRecord] /\ BindingSame
  /\ ep' \in [Endpoint -> EndpointRecord] /\ HeldSame

\* The calls that a calm step may return from, and those it may make.
CalmReturn(g) ==
  g.op \notin {"Release", "AddEndpointGcList", "GcCheck", "EndpointReset", "AddToNew", "Bind"}
CalmCall(x) ==
  x.op \notin NewOps /\ x.op # "Release" /\ (x.e \in Endpoint => Known(x.e))

\* A step that neither binds nor holds nor releases anything, and calls only
\* what may be called.
LEMMA CalmInv ==
  ASSUME Inv, Calm, Settled, NEW gone, NEW X, PendingStep(gone, X),
         \A g \in gone : CalmReturn(g), \A x \in X : CalmCall(x)
  PROVE  Inv'
<1>0. Typed /\ Tidy /\ BoundOrReleased /\ NewIsUnknown /\ RouteTended
  BY DEF Inv
<1>1. /\ Pending' \subseteq Pending \cup X /\ X \subseteq Pending' /\ Pending \subseteq Pending' \cup gone
  BY DEF PendingStep
<1>2. /\ Tidy' /\ BoundOrReleased'
      /\ \A e \in Endpoint : Held(e)' = Held(e)
  <2>1. \A e \in Endpoint : /\ ep'[e].ctrl = ep[e].ctrl /\ ep'[e].data = ep[e].data
                            /\ ep'[e].resetting => ep[e].resetting
    BY DEF Calm, HeldSame
  <2>2. \A g \in gone : g.op # "Release"
    BY DEF CalmReturn
  <2> QED BY <1>0, <2>1, <2>2, QuietStep DEF Calm
<1>3. NewIsUnknown'
  <2>1. \A e \in Endpoint :
           /\ ep'[e].created = ep[e].created /\ Held(e)' \subseteq Held(e)
           /\ ep'[e].resetting \/ route' = e \/ e \in gcList' => Known(e)
    BY <1>2, EndpointAssumption DEF Calm, HeldSame, Known
  <2>2. \A c \in Conn : conn'[c].binding \in {conn[c].binding, NoEndpoint}
    BY DEF Calm, BindingSame
  <2>3. \A x \in X : x.op \notin NewOps /\ (x.e \in Endpoint => Known(x.e))
    BY DEF CalmCall
  <2> QED BY <1>0, <2>1, <2>2, <2>3, UnknownKept
<1>4. RouteTended'
  <2> SUFFICES ASSUME NEW e \in Endpoint, route' = e
               PROVE  /\ ep'[e].resetting => Tended(e)'
                      /\ \/ Held(e)' # {} \/ Tended(e)'
                         \/ \E x \in Pending' : x.e = e /\ x.op \in {"EndpointReset", "AddToNew", "Bind"}
    BY DEF RouteTended
  <2>1. route = e
    BY EndpointAssumption DEF Calm
  <2>2. Tended(e) => Tended(e)'
    BY <1>1 DEF Tended, CalmReturn, Calm
  <2>3. \A x \in Pending : x.op \in {"EndpointReset", "AddToNew", "Bind"} => x \in Pending'
    BY <1>1 DEF CalmReturn
  <2> QED BY <1>0, <1>2, <2>1, <2>2, <2>3 DEF RouteTended, HeldSame, Calm
<1>5. \A e \in Endpoint : IsFiniteSet(ep'[e].data)
  BY <1>0, TypedParts DEF HeldSame, Calm
<1>6. Typed'
  BY <1>0, <1>5, TypedParts, TypedStep DEF Calm, Settled
<1> QED BY <1>2, <1>3, <1>4, <1>6 DEF Inv, Settled

\* A goroutine returns from a call and goes on with calls that may be anywhere.
LEMMA CalmThen ==
  ASSUME Inv, Calm, NEW t \in Thread, OthersKeep(t), stack[t] # << >>, CalmReturn(Head(stack[t])),
         NEW calls \in Seq(GoodCall), Then(t, calls),
         \A x \in Members(calls) : CalmCall(x) /\ x.op \notin LockOps
  PROVE  Inv'
<1>1. \A x \in Members(calls) : Plain(x) /\ CalmCall(x)
  BY DEF Plain, CalmCall
<1> DEFINE X == Members(calls)
           gone == {Head(stack[t])}
<1>2. Settled /\ PendingStep(gone, X)
  BY <1>1, PlainThen
<1>3. (\A g \in gone : CalmReturn(g)) /\ \A x \in X : CalmCall(x)
  BY <1>1
<1> HIDE DEF X, gone
<1> QED BY <1>2, <1>3, CalmInv

\* The same with one call.
LEMMA CalmOne ==
  ASSUME Inv, Calm, NEW t \in Thread, OthersKeep(t), stack[t] # << >>, CalmReturn(Head(stack[t])),
         NEW a \in GoodCall, Then(t, <<a>>), CalmCall(a), a.op \notin LockOps
  PROVE  Inv'
<1> DEFINE calls == <<a>>
<1>1. calls \in Seq(GoodCall) /\ Members(calls) = {a} /\ Then(t, calls)
  BY ShortLists
<1> HIDE DEF calls
<1> QED BY <1>1, CalmThen

\* The same with no call.
LEMMA CalmNone ==
  ASSUME Inv, Calm, NEW t \in Thread, OthersKeep(t), stack[t] # << >>, CalmReturn(Head(stack[t])),
         Then(t, << >>)
  PROVE  Inv'
<1> DEFINE calls == << >>
<1>1. calls \in Seq(GoodCall) /\ Members(calls) = {} /\ Then(t, calls)
  BY ShortLists
<1> HIDE DEF calls
<1> QED BY <1>1, CalmThen

\* An idle goroutine starts with a call.
LEMMA CalmStart ==
  ASSUME Inv, Calm, NEW t \in Thread, OthersKeep(t), NEW a \in GoodCall, Start(t, <<a>>),
         CalmCall(a), a.op \notin LockOps
  PROVE  Inv'
<1> DEFINE calls == <<a>>
           X == Members(calls)
           gone == {}
<1>1. calls \in Seq(GoodCall) /\ X = {a} /\ Start(t, calls)
  BY ShortLists
<1>2. \A x \in Members(calls) : Plain(x) /\ CalmCall(x)
  BY <1>1 DEF Plain, CalmCall
<1> HIDE DEF calls
<1>3. Settled /\ PendingStep(gone, X)
  BY <1>1, <1>2, PlainStart
<1>4. (\A g \in gone : CalmReturn(g)) /\ \A x \in X : CalmCall(x)
  BY <1>2
<1> HIDE DEF X, gone
<1> QED BY <1>3, <1>4, CalmInv

\* Setting one field of a connection.
LEMMA ConnField ==
  ASSUME conn \in [Conn -> ConnRecord], NEW c \in Conn
  PROVE  /\ \A v \in BOOLEAN :
              conn' = [conn EXCEPT ![c].resetting = v] =>
                conn' \in [Conn -> ConnRecord] /\ BindingSame
         /\ \A v \in BOOLEAN, w \in BOOLEAN :
              conn' = [conn EXCEPT ![c].resetting = v, ![c].server = w] =>
                conn' \in [Conn -> ConnRecord] /\ BindingSame
         /\ \A v \in Status :
              conn' = [conn EXCEPT ![c].status = v] =>
                conn' \in [Conn -> ConnRecord] /\ BindingSame
         /\ \A v \in Status, w \in BOOLEAN :
              conn' = [conn EXCEPT ![c].status = v, ![c].server = w] =>
                conn' \in [Conn -> ConnRecord] /\ BindingSame
         /\ conn' = [conn EXCEPT ![c].registered = TRUE] =>
              conn' \in [Conn -> ConnRecord] /\ BindingSame
         /\ \A v \in Endpoint \cup {NoEndpoint} :
              conn' = [conn EXCEPT ![c].binding = v] =>
                /\ conn' \in [Conn -> ConnRecord] /\ conn'[c].binding = v
                /\ \A d \in Conn : d # c => conn'[d] = conn[d]
<1> USE DEF BindingSame
<1>1. ASSUME NEW v \in BOOLEAN, conn' = [conn EXCEPT ![c].resetting = v]
      PROVE  conn' \in [Conn -> ConnRecord] /\ BindingSame
  BY <1>1 DEF ConnRecord
<1>2. ASSUME NEW v \in BOOLEAN, NEW w \in BOOLEAN,
             conn' = [conn EXCEPT ![c].resetting = v, ![c].server = w]
      PROVE  conn' \in [Conn -> ConnRecord] /\ BindingSame
  <2> DEFINE f == [conn EXCEPT ![c].resetting = v]
  <2>1. f \in [Conn -> ConnRecord]
    BY DEF ConnRecord
  <2>2. \A d \in Conn : f[d].binding = conn[d].binding
    BY DEF ConnRecord
  <2>3. conn' = [f EXCEPT ![c].server = w]
    BY <1>2
  <2> HIDE DEF f
  <2> QED BY <2>1, <2>2, <2>3 DEF ConnRecord
<1>3. ASSUME NEW v \in Status, conn' = [conn EXCEPT ![c].status = v]
      PROVE  conn' \in [Conn -> ConnRecord] /\ BindingSame
  BY <1>3 DEF ConnRecord
<1>4. ASSUME NEW v \in Status, NEW w \in BOOLEAN,
             conn' = [conn EXCEPT ![c].status = v, ![c].server = w]
      PROVE  conn' \in [Conn -> ConnRecord] /\ BindingSame
  <2> DEFINE f == [conn EXCEPT ![c].status = v]
  <2>1. f \in [Conn -> ConnRecord]
    BY DEF ConnRecord
  <2>2. \A d \in Conn : f[d].binding = conn[d].binding
    BY DEF ConnRecord
  <2>3. conn' = [f EXCEPT ![c].server = w]
    BY <1>4
  <2> HIDE DEF f
  <2> QED BY <2>1, <2>2, <2>3 DEF ConnRecord
<1>5. ASSUME conn' = [conn EXCEPT ![c].registered = TRUE]
      PROVE  conn' \in [Conn -> ConnRecord] /\ BindingSame
  BY <1>5 DEF ConnRecord
<1>6. ASSUME NEW v \in Endpoint \cup {NoEndpoint}, conn' = [conn EXCEPT ![c].binding = v]
      PROVE  /\ conn' \in [Conn -> ConnRecord] /\ conn'[c].binding = v
             /\ \A d \in Conn : d # c => conn'[d] = conn[d]
  BY <1>6 DEF ConnRecord
<1> QED BY <1>1, <1>2, <1>3, <1>4, <1>5, <1>6

\* An endpoint that a connection is bound to, or that a call is about, is known.
LEMMA KnownEndpoint ==
  /\ \A c \in Conn : conn[c].binding \in Endpoint => Known(conn[c].binding)
  /\ \A x \in Pending : x.op \notin NewOps => Known(x.e)
BY DEF Known

\* A step that leaves a variable alone leaves its typing alone.
LEMMA Unchanged ==
  ASSUME Inv
  PROVE  /\ conn' = conn => conn' \in [Conn -> ConnRecord] /\ BindingSame
         /\ ep' = ep => /\ ep' \in [Endpoint -> EndpointRecord] /\ HeldSame
                        /\ \A t \in Thread : OthersKeep(t)
         /\ route' = route => route' \in {route, NoEndpoint}
BY TypedParts DEF Inv, BindingSame, HeldSame, OthersKeep

\* A goroutine gives up the mutex of an endpoint, or takes one that is free.
LEMMA EndpointOwner ==
  ASSUME ep \in [Endpoint -> EndpointRecord], NEW e \in Endpoint, NEW v \in Thread \cup {Nobody},
         ep' = [ep EXCEPT ![e].owner = v], NEW t \in Thread, ep[e].owner \in {t, Nobody}
  PROVE  ep' \in [Endpoint -> EndpointRecord] /\ HeldSame /\ OthersKeep(t) /\ ep'[e].owner = v
BY DEF EndpointRecord, HeldSame, OthersKeep

\* The goroutine that makes the rest of AddConnection owns the mutex.
LEMMA OwnerAt ==
  ASSUME Inv, NEW t \in Thread, NEW op \in LockOps, At(t, op)
  PROVE  ep[E(t)].owner = t /\ (op = "Bind" => ~ep[E(t)].resetting)
<1>1. stack \in [Thread -> Seq(GoodCall)] /\ Locked
  BY DEF Inv, Typed
<1>2. stack[t] # << >> /\ Head(stack[t]).op = op
  BY DEF At
<1>3. Head(stack[t]) = stack[t][1] /\ 1 \in 1..Len(stack[t])
  BY <1>1, <1>2
<1> QED BY <1>1, <1>2, <1>3 DEF Locked, E

-----------------------------------------------------------------------------
(* The inductive step, one lemma per action that is calm.                  *)

\* Connection.Reset asks the endpoint to let go, once.
LEMMA ConnResetKeeps ==
  ASSUME Inv, NEW t \in Thread, ConnReset(t)
  PROVE  Inv'
<1> DEFINE c == C(t)
           b == conn[c].binding
           end == Call("ConnResetEnd", c, NoEndpoint)
           remove == Call("RemoveConnection", c, b)
<1>0. stack \in [Thread -> Seq(GoodCall)] /\ conn \in [Conn -> ConnRecord]
  BY TypedParts DEF Inv
<1>1. At(t, "ConnReset") /\ UNCHANGED <<ep, route, gcList, inGc, stranded>>
  BY DEF ConnReset
<1>2. c \in Conn /\ stack[t] # << >> /\ Head(stack[t]).op = "ConnReset"
  BY <1>0, <1>1, AtHead DEF ConnOps, At
<1>3. CalmReturn(Head(stack[t]))
  BY <1>2 DEF CalmReturn
<1>4. \/ conn' = conn
      \/ conn' = [conn EXCEPT ![c].resetting = TRUE]
  BY DEF ConnReset
<1>5. \/ Then(t, << >>)
      \/ Then(t, << >> \o <<end>>)
      \/ Then(t, <<remove>> \o <<end>>) /\ b # NoEndpoint
  BY DEF ConnReset
<1>6. b \in Endpoint \cup {NoEndpoint}
  BY <1>0, <1>2 DEF ConnRecord
<1>7. b \in Endpoint => Known(b)
  BY <1>2, KnownEndpoint
<1> HIDE DEF c, b
<1>8. conn' \in [Conn -> ConnRecord] /\ BindingSame
  BY <1>0, <1>2, <1>4, ConnField, Unchanged
<1>9. Calm /\ OthersKeep(t)
  BY <1>1, <1>8, Unchanged DEF Calm
<1>10. end \in GoodCall /\ end.op = "ConnResetEnd" /\ end.e = NoEndpoint
  BY <1>2, CallGood DEF Ops, ConnOps, EndpointOps
<1>11. b # NoEndpoint => remove \in GoodCall /\ remove.op = "RemoveConnection" /\ remove.e = b
  BY <1>2, <1>6, CallGood DEF Ops, ConnOps, EndpointOps
<1> HIDE DEF end, remove
<1>12. CalmCall(end) /\ end.op \notin LockOps
  BY <1>10, EndpointAssumption DEF CalmCall, NewOps, LockOps
<1>13. b # NoEndpoint => CalmCall(remove) /\ remove.op \notin LockOps
  BY <1>6, <1>7, <1>11 DEF CalmCall, NewOps, LockOps
<1>14. /\ << >> \in Seq(GoodCall) /\ Members(<< >>) = {}
       /\ <<end>> \in Seq(GoodCall) /\ Members(<<end>>) = {end}
       /\ b # NoEndpoint => <<remove>> \in Seq(GoodCall) /\ Members(<<remove>>) = {remove}
  BY <1>10, <1>11, ShortLists
<1>15. PICK calls \in Seq(GoodCall) :
         Then(t, calls) /\ Members(calls) \subseteq {end} \cup (IF b = NoEndpoint THEN {} ELSE {remove})
  <2>1. CASE Then(t, << >>)
    BY <1>14, <2>1
  <2>2. CASE Then(t, << >> \o <<end>>)
    <3>1. << >> \in Seq(GoodCall) /\ <<end>> \in Seq(GoodCall)
      BY <1>14
    <3>2. << >> \o <<end>> \in Seq(GoodCall)
          /\ Members(<< >> \o <<end>>) = Members(<< >>) \cup Members(<<end>>)
      BY ONLY <3>1, ConcatRange, ZenonT(60)
    <3> QED BY <1>14, <2>2, <3>2
  <2>3. CASE Then(t, <<remove>> \o <<end>>) /\ b # NoEndpoint
    <3>1. <<remove>> \in Seq(GoodCall) /\ <<end>> \in Seq(GoodCall)
      BY <1>14, <2>3
    <3>2. <<remove>> \o <<end>> \in Seq(GoodCall)
          /\ Members(<<remove>> \o <<end>>) = Members(<<remove>>) \cup Members(<<end>>)
      BY ONLY <3>1, ConcatRange, ZenonT(60)
    <3> QED BY <1>14, <2>3, <3>2
  <2> QED BY <1>5, <2>1, <2>2, <2>3
<1>16. \A x \in Members(calls) : CalmCall(x) /\ x.op \notin LockOps
  BY <1>12, <1>13, <1>15
<1> QED BY <1>2, <1>3, <1>9, <1>15, <1>16, CalmThen

\* The end of Connection.Reset.
LEMMA ConnResetEndKeeps ==
  ASSUME Inv, NEW t \in Thread, ConnResetEnd(t)
  PROVE  Inv'
<1>1. /\ At(t, "ConnResetEnd") /\ Then(t, << >>)
      /\ conn' = [conn EXCEPT ![C(t)].resetting = FALSE, ![C(t)].server = FALSE]
      /\ UNCHANGED <<ep, route, gcList, inGc, stranded>>
  BY DEF ConnResetEnd
<1>2. stack \in [Thread -> Seq(GoodCall)] /\ conn \in [Conn -> ConnRecord]
  BY TypedParts DEF Inv
<1>3. C(t) \in Conn /\ stack[t] # << >> /\ Head(stack[t]).op = "ConnResetEnd"
  BY <1>1, <1>2, AtHead DEF ConnOps, At
<1>4. conn' \in [Conn -> ConnRecord] /\ BindingSame
  BY <1>1, <1>2, <1>3, ConnField
<1>5. Calm /\ OthersKeep(t)
  BY <1>1, <1>4, Unchanged DEF Calm
<1>6. CalmReturn(Head(stack[t]))
  BY <1>3 DEF CalmReturn
<1> QED BY <1>1, <1>3, <1>5, <1>6, CalmNone

\* The end of AddConnection.
LEMMA PromoteKeeps ==
  ASSUME Inv, NEW t \in Thread, Promote(t)
  PROVE  Inv'
<1>1. /\ At(t, "Promote") /\ Then(t, << >>)
      /\ conn' = [conn EXCEPT ![C(t)].status = "Connected"]
      /\ ep' = [ep EXCEPT ![E(t)].owner = Nobody]
      /\ UNCHANGED <<route, gcList, inGc, stranded>>
  BY DEF Promote
<1>2. /\ stack \in [Thread -> Seq(GoodCall)] /\ conn \in [Conn -> ConnRecord]
      /\ ep \in [Endpoint -> EndpointRecord]
  BY TypedParts DEF Inv
<1>3. C(t) \in Conn /\ E(t) \in Endpoint /\ stack[t] # << >> /\ Head(stack[t]).op = "Promote"
  BY <1>1, <1>2, AtHead DEF ConnOps, EndpointOps, At
<1>4. "Connected" \in Status
  BY DEF Status
<1>5. conn' \in [Conn -> ConnRecord] /\ BindingSame
  BY <1>1, <1>2, <1>3, <1>4, ConnField
<1> DEFINE op == "Promote"
<1>6. op \in LockOps /\ At(t, op)
  BY <1>1 DEF LockOps
<1> HIDE DEF op
<1>7. ep[E(t)].owner = t
  BY <1>6, OwnerAt
<1>8. PICK v \in Thread \cup {Nobody} : v = Nobody
  OBVIOUS
<1>9. ep' = [ep EXCEPT ![E(t)].owner = v] /\ ep[E(t)].owner \in {t, Nobody}
  BY <1>1, <1>7, <1>8
<1>10. ep' \in [Endpoint -> EndpointRecord] /\ HeldSame /\ OthersKeep(t)
  BY <1>2, <1>3, <1>9, EndpointOwner
<1>11. Calm
  BY <1>1, <1>5, <1>10, Unchanged DEF Calm
<1>12. CalmReturn(Head(stack[t]))
  BY <1>3 DEF CalmReturn
<1> QED BY <1>1, <1>3, <1>10, <1>11, <1>12, CalmNone

\* A connection is accepted.
LEMMA AcceptedKeeps ==
  ASSUME Inv, NEW c \in Conn, Accepted(c)
  PROVE  Inv'
<1>1. /\ conn' = [conn EXCEPT ![c].status = "Handshaking", ![c].server = TRUE]
      /\ UNCHANGED <<ep, route, gcList, inGc, stack, stranded>>
  BY DEF Accepted
<1>2. stack \in [Thread -> Seq(GoodCall)] /\ conn \in [Conn -> ConnRecord]
  BY TypedParts DEF Inv
<1>3. "Handshaking" \in Status
  BY DEF Status
<1>4. conn' \in [Conn -> ConnRecord] /\ BindingSame
  BY <1>1, <1>2, <1>3, ConnField
<1>5. Calm
  BY <1>1, <1>4, Unchanged DEF Calm
<1>6. PendingStep({}, {})
  BY <1>1 DEF PendingStep, Pending
<1>7. Placed' /\ Once' /\ Locked'
  BY <1>1 DEF Inv, Placed, Well, Once, Locked
<1>8. Settled
  BY <1>1, <1>2, <1>7 DEF Settled
<1> QED BY <1>5, <1>6, <1>8, CalmInv

\* The Disconnected callback of a connection.
LEMMA DisconnectedKeeps ==
  ASSUME Inv, NEW c \in Conn, Disconnected(c)
  PROVE  Inv'
<1> DEFINE a == Call("ConnReset", c, NoEndpoint)
           t == <<"close", c>>
<1>1. /\ conn' = [conn EXCEPT ![c].status = "Disconnected"] /\ Start(t, <<a>>)
      /\ UNCHANGED <<ep, route, gcList, inGc, stranded>>
  BY DEF Disconnected
<1>2. conn \in [Conn -> ConnRecord]
  BY TypedParts DEF Inv
<1>3. "Disconnected" \in Status /\ t \in Thread
  BY DEF Status, Thread
<1>4. conn' \in [Conn -> ConnRecord] /\ BindingSame
  BY <1>1, <1>2, <1>3, ConnField
<1>5. a \in GoodCall /\ a.op = "ConnReset" /\ a.e = NoEndpoint
  BY CallGood DEF Ops, ConnOps, EndpointOps
<1> HIDE DEF a, t
<1>6. Calm /\ OthersKeep(t)
  BY <1>1, <1>3, <1>4, Unchanged DEF Calm
<1>7. CalmCall(a) /\ a.op \notin LockOps
  BY <1>5, EndpointAssumption DEF CalmCall, NewOps, LockOps
<1> QED BY <1>1, <1>3, <1>5, <1>6, <1>7, CalmStart

\* Node.Disconnect.
LEMMA DisconnectKeeps ==
  ASSUME Inv, Disconnect
  PROVE  Inv'
<1> DEFINE a == Call("EndpointReset", NoConn, route)
<1>1. /\ route # NoEndpoint /\ route' = NoEndpoint /\ Start(Main, <<a>>)
      /\ UNCHANGED <<conn, ep, gcList, inGc, stranded>>
  BY DEF Disconnect
<1>2. route \in Endpoint /\ Main \in Thread /\ Known(route)
  BY <1>1, TypedParts DEF Inv, Main, Thread, Known
<1>3. Calm /\ OthersKeep(Main)
  BY <1>1, <1>2, Unchanged DEF Calm
<1>4. a \in GoodCall /\ a.op = "EndpointReset" /\ a.e = route
  BY <1>2, CallGood DEF Ops, ConnOps, EndpointOps
<1> HIDE DEF a
<1>5. CalmCall(a) /\ a.op \notin LockOps
  BY <1>2, <1>4 DEF CalmCall, NewOps, LockOps
<1> QED BY <1>1, <1>2, <1>3, <1>4, <1>5, CalmStart

\* A registration arrives.
LEMMA RegisterReceivedKeeps ==
  ASSUME Inv, NEW c \in Conn, RegisterReceived(c)
  PROVE  Inv'
<1> DEFINE a == Call("MakeEndpoint", c, NoEndpoint)
           t == <<"read", c>>
<1>1. /\ conn' = [conn EXCEPT ![c].registered = TRUE] /\ Start(t, <<a>>)
      /\ UNCHANGED <<ep, route, gcList, inGc, stranded>>
  BY DEF RegisterReceived
<1>2. conn \in [Conn -> ConnRecord] /\ t \in Thread
  BY TypedParts DEF Inv, Thread
<1>3. conn' \in [Conn -> ConnRecord] /\ BindingSame
  BY <1>1, <1>2, ConnField
<1>4. a \in GoodCall /\ a.op = "MakeEndpoint" /\ a.e = NoEndpoint
  BY CallGood DEF Ops, ConnOps, EndpointOps
<1> HIDE DEF a, t
<1>5. Calm /\ OthersKeep(t)
  BY <1>1, <1>2, <1>3, Unchanged DEF Calm
<1>6. CalmCall(a) /\ a.op \notin LockOps
  BY <1>4, EndpointAssumption DEF CalmCall, NewOps, LockOps
<1> QED BY <1>1, <1>2, <1>4, <1>5, <1>6, CalmStart

\* A registration is not accepted.
LEMMA RefuseKeeps ==
  ASSUME Inv, NEW t \in Thread, Refuse(t)
  PROVE  Inv'
<1> DEFINE c == C(t)
           e == E(t)
           reset == Call("ConnReset", c, NoEndpoint)
           queue == Call("AddEndpointGcList", NoConn, e)
<1>1. At(t, "Refuse") /\ UNCHANGED <<conn, ep, route, gcList, inGc, stranded>>
  BY DEF Refuse
<1>2. \/ Then(t, <<reset>>) \/ Then(t, <<reset, reset>>)
      \/ e # NoEndpoint /\ Then(t, <<reset, queue, reset>>)
  BY DEF Refuse
<1>3. stack \in [Thread -> Seq(GoodCall)]
  BY TypedParts DEF Inv
<1>4. /\ c \in Conn /\ e \in Endpoint \cup {NoEndpoint} /\ stack[t] # << >>
      /\ Head(stack[t]).op = "Refuse" /\ Head(stack[t]).e = e /\ Head(stack[t]) \in Pending
  BY <1>1, <1>3, AtHead DEF ConnOps, At, E
<1>5. Known(e)
  BY <1>4, KnownEndpoint DEF NewOps
<1>6. CalmReturn(Head(stack[t]))
  BY <1>4 DEF CalmReturn
<1> HIDE DEF c, e
<1>7. reset \in GoodCall /\ reset.op = "ConnReset" /\ reset.e = NoEndpoint
  BY <1>4, CallGood DEF Ops, ConnOps, EndpointOps
<1>8. ASSUME e # NoEndpoint
      PROVE  queue \in GoodCall /\ queue.op = "AddEndpointGcList" /\ queue.e = e
  <2>1. e \in Endpoint
    BY <1>4, <1>8
  <2> QED BY <2>1, CallGood DEF Ops, ConnOps, EndpointOps
<1> HIDE DEF reset, queue
<1>9. CalmCall(reset) /\ reset.op \notin LockOps
  BY <1>7, EndpointAssumption DEF CalmCall, NewOps, LockOps
<1>10. e # NoEndpoint => CalmCall(queue) /\ queue.op \notin LockOps
  BY <1>5, <1>8 DEF CalmCall, NewOps, LockOps
<1>11. PICK calls \in Seq(GoodCall) :
         Then(t, calls) /\ Members(calls) \subseteq {reset} \cup (IF e = NoEndpoint THEN {} ELSE {queue})
  <2>1. CASE Then(t, <<reset>>)
    <3>1. <<reset>> \in Seq(GoodCall) /\ Members(<<reset>>) = {reset}
      BY <1>7, ShortLists
    <3> QED BY <2>1, <3>1
  <2>2. CASE Then(t, <<reset, reset>>)
    <3>1. <<reset, reset>> \in Seq(GoodCall) /\ Members(<<reset, reset>>) = {reset, reset}
      BY <1>7, ShortLists
    <3> QED BY <2>2, <3>1
  <2>3. CASE e # NoEndpoint /\ Then(t, <<reset, queue, reset>>)
    <3>1. /\ <<reset, queue, reset>> \in Seq(GoodCall)
          /\ Members(<<reset, queue, reset>>) = {reset, queue, reset}
      BY <1>7, <1>8, <2>3, ShortLists
    <3> QED BY <2>3, <3>1
  <2> QED BY <1>2, <2>1, <2>2, <2>3
<1>12. \A x \in Members(calls) : CalmCall(x) /\ x.op \notin LockOps
  BY <1>9, <1>10, <1>11
<1>13. Calm /\ OthersKeep(t)
  BY <1>1, Unchanged DEF Calm
<1> QED BY <1>4, <1>6, <1>11, <1>12, <1>13, CalmThen

\* The data connection is there, is not made, or is made.
LEMMA DataChannelKeeps ==
  ASSUME Inv, NEW t \in Thread, DataChannel(t)
  PROVE  Inv'
<1> DEFINE c == C(t)
           e == E(t)
           queue == Call("AddEndpointGcList", NoConn, e)
           reset == Call("ConnReset", c, NoEndpoint)
<1>1. At(t, "DataChannel") /\ UNCHANGED <<ep, route, gcList, inGc, stranded>>
  BY DEF DataChannel
<1>2. \/ Then(t, << >>) /\ UNCHANGED conn
      \/ Then(t, <<queue>>) /\ UNCHANGED conn
      \/ Then(t, <<queue, reset>>) /\ UNCHANGED conn
      \/ \E d \in Conn : /\ conn' = [conn EXCEPT ![d].status = "Handshaking"]
                         /\ Then(t, <<Call("AddData", d, e)>>)
  BY DEF DataChannel
<1>3. stack \in [Thread -> Seq(GoodCall)] /\ conn \in [Conn -> ConnRecord]
  BY TypedParts DEF Inv
<1>4. /\ c \in Conn /\ e \in Endpoint /\ stack[t] # << >>
      /\ Head(stack[t]).op = "DataChannel" /\ Head(stack[t]).e = e /\ Head(stack[t]) \in Pending
  BY <1>1, <1>3, AtHead DEF ConnOps, EndpointOps, At, E
<1>5. Known(e)
  BY <1>4, KnownEndpoint DEF NewOps
<1>6. CalmReturn(Head(stack[t]))
  BY <1>4 DEF CalmReturn
<1> HIDE DEF c, e
<1>7. reset \in GoodCall /\ reset.op = "ConnReset" /\ reset.e = NoEndpoint
  BY <1>4, CallGood DEF Ops, ConnOps, EndpointOps
<1>8. queue \in GoodCall /\ queue.op = "AddEndpointGcList" /\ queue.e = e
  BY <1>4, CallGood DEF Ops, ConnOps, EndpointOps
<1> HIDE DEF reset, queue
<1>9. CalmCall(reset) /\ reset.op \notin LockOps
  BY <1>7, EndpointAssumption DEF CalmCall, NewOps, LockOps
<1>10. CalmCall(queue) /\ queue.op \notin LockOps
  BY <1>5, <1>8 DEF CalmCall, NewOps, LockOps
<1>11. CASE UNCHANGED conn /\ (Then(t, << >>) \/ Then(t, <<queue>>) \/ Then(t, <<queue, reset>>))
  <2>1. Calm /\ OthersKeep(t)
    BY <1>1, <1>11, Unchanged DEF Calm
  <2>2. CASE Then(t, << >>)
    BY <1>4, <1>6, <2>1, <2>2, CalmNone
  <2>3. CASE Then(t, <<queue>>)
    BY <1>4, <1>6, <1>8, <1>10, <2>1, <2>3, CalmOne
  <2>4. CASE Then(t, <<queue, reset>>)
    <3> DEFINE calls == <<queue, reset>>
    <3>1. calls \in Seq(GoodCall) /\ Members(calls) = {queue, reset} /\ Then(t, calls)
      BY <1>7, <1>8, <2>4, ShortLists
    <3> HIDE DEF calls
    <3>2. \A x \in Members(calls) : CalmCall(x) /\ x.op \notin LockOps
      BY <1>9, <1>10, <3>1
    <3> QED BY <1>4, <1>6, <2>1, <3>1, <3>2, CalmThen
  <2> QED BY <1>11, <2>2, <2>3, <2>4
<1>12. ASSUME NEW d \in Conn, conn' = [conn EXCEPT ![d].status = "Handshaking"],
              Then(t, <<Call("AddData", d, e)>>)
       PROVE  Inv'
  <2> DEFINE a == Call("AddData", d, e)
  <2>1. a \in GoodCall /\ a.op = "AddData" /\ a.e = e /\ Then(t, <<a>>)
    BY <1>4, <1>12, CallGood DEF Ops, ConnOps, EndpointOps
  <2> HIDE DEF a
  <2>2. "Handshaking" \in Status
    BY DEF Status
  <2>3. conn' \in [Conn -> ConnRecord] /\ BindingSame
    BY <1>3, <1>12, <2>2, ConnField
  <2>4. Calm /\ OthersKeep(t)
    BY <1>1, <2>3, Unchanged DEF Calm
  <2>5. CalmCall(a) /\ a.op \notin LockOps
    BY <1>5, <2>1 DEF CalmCall, NewOps, LockOps
  <2> QED BY <1>4, <1>6, <2>1, <2>4, <2>5, CalmOne
<1> QED BY <1>2, <1>11, <1>12

-----------------------------------------------------------------------------
(* Steps that bind or release connections, or queue endpoints.             *)

\* Everything holds again after a step that is not calm.
LEMMA StepInv ==
  ASSUME Inv, conn' \in [Conn -> ConnRecord], ep' \in [Endpoint -> EndpointRecord],
         route' \in Endpoint \cup {NoEndpoint}, gcList' \subseteq Endpoint,
         inGc' \in BOOLEAN, stranded' \subseteq Endpoint,
         IsFiniteSet(gcList'), \A e \in Endpoint : IsFiniteSet(ep'[e].data),
         Settled, Tidy', BoundOrReleased', NewIsUnknown', RouteTended'
  PROVE  Inv'
<1>1. Typed'
  BY TypedStep DEF Settled
<1> QED BY <1>1 DEF Inv, Settled

\* A goroutine returns from a call.
LEMMA PlainNone ==
  ASSUME Inv, NEW t \in Thread, stack[t] # << >>, Then(t, << >>), OthersKeep(t)
  PROVE  Settled /\ PendingStep({Head(stack[t])}, {})
<1> DEFINE calls == << >>
<1>1. calls \in Seq(GoodCall) /\ Members(calls) = {} /\ Then(t, calls)
  BY ShortLists
<1> HIDE DEF calls
<1>2. \A x \in Members(calls) : Plain(x)
  BY <1>1
<1> QED BY <1>1, <1>2, PlainThen

\* A goroutine returns from a call and makes another.
LEMMA PlainOne ==
  ASSUME Inv, NEW t \in Thread, stack[t] # << >>, NEW a \in GoodCall, Plain(a), Then(t, <<a>>),
         OthersKeep(t)
  PROVE  Settled /\ PendingStep({Head(stack[t])}, {a})
<1> DEFINE calls == <<a>>
<1>1. calls \in Seq(GoodCall) /\ Members(calls) = {a} /\ Then(t, calls)
  BY ShortLists
<1> HIDE DEF calls
<1>2. \A x \in Members(calls) : Plain(x)
  BY <1>1
<1> QED BY <1>1, <1>2, PlainThen

\* What was about to be released still is, unless this was that call.
LEMMA ReleasedKept ==
  ASSUME NEW h, NEW X, PendingStep({h}, X), NEW c, NEW e, Released(c, e),
         h.op # "Release" \/ h.c # c
  PROVE  Released(c, e)'
<1>1. Call("Release", c, e).op = "Release" /\ Call("Release", c, e).c = c
  BY DEF Call
<1> QED BY <1>1 DEF PendingStep, Released

\* A connection is taken from the data connections of its endpoint.
LEMMA DataRemoved ==
  ASSUME Inv, NEW t \in Thread, At(t, "RemoveConnection"), NEW c \in Conn, NEW e \in Endpoint,
         conn[c].binding = e, ~ep[e].resetting, c # ep[e].ctrl, c \in ep[e].data,
         conn' = [conn EXCEPT ![c].binding = NoEndpoint],
         ep' = [ep EXCEPT ![e].data = @ \ {c}],
         Then(t, IF ep[e].data = {c} THEN <<Call("EndpointReset", NoConn, e)>> ELSE << >>),
         UNCHANGED <<route, gcList, inGc, stranded>>
  PROVE  Inv'
<1> DEFINE h == Head(stack[t])
           a == Call("EndpointReset", NoConn, e)
<1>1. /\ Typed /\ stack \in [Thread -> Seq(GoodCall)] /\ conn \in [Conn -> ConnRecord]
      /\ ep \in [Endpoint -> EndpointRecord]
      /\ \A f \in Endpoint : IsFiniteSet(ep[f].data)
  BY TypedParts DEF Inv
<1>2. Tidy /\ BoundOrReleased /\ NewIsUnknown /\ RouteTended
  BY DEF Inv
<1>3. stack[t] # << >> /\ h.op = "RemoveConnection"
  BY DEF At
<1>4. a \in GoodCall /\ a.op = "EndpointReset" /\ a.e = e
  BY CallGood, SMTT(60) DEF Ops, ConnOps, EndpointOps
<1>5. /\ conn' \in [Conn -> ConnRecord] /\ conn'[c].binding = NoEndpoint
      /\ \A d \in Conn : d # c => conn'[d] = conn[d]
  BY <1>1, ConnField
<1>6. /\ ep' \in [Endpoint -> EndpointRecord]
      /\ ep'[e].ctrl = ep[e].ctrl /\ ep'[e].data = ep[e].data \ {c}
      /\ \A f \in Endpoint : ep'[f].resetting = ep[f].resetting /\ ep'[f].created = ep[f].created
      /\ \A f \in Endpoint : ep'[f].owner = ep[f].owner
      /\ \A f \in Endpoint : f # e => ep'[f] = ep[f]
  BY <1>1, ZenonT(60) DEF EndpointRecord
<1>7. \A f \in Endpoint : IsFiniteSet(ep'[f].data)
  <2>1. IsFiniteSet(ep[e].data \ {c})
    BY <1>1, FS_RemoveElement
  <2> QED BY <1>1, <1>6, <2>1
<1>8. \/ Then(t, <<a>>) /\ ep[e].data = {c}
      \/ Then(t, << >>) /\ ep[e].data # {c}
  OBVIOUS
<1> HIDE DEF h, a
<1>9. PICK X : /\ Settled /\ PendingStep({h}, X)
               /\ \A x \in X : x = a
               /\ ep[e].data = {c} => a \in X
  <2>1. OthersKeep(t)
    BY <1>6 DEF OthersKeep
  <2>2. Plain(a)
    BY <1>4 DEF Plain, NewOps, LockOps
  <2>3. CASE Then(t, <<a>>) /\ ep[e].data = {c}
    <3>1. Settled /\ PendingStep({h}, {a})
      BY <1>3, <1>4, <2>1, <2>2, <2>3, PlainOne DEF h
    <3> QED BY <3>1
  <2>4. CASE Then(t, << >>) /\ ep[e].data # {c}
    <3>1. Settled /\ PendingStep({h}, {})
      BY <1>3, <2>1, <2>4, PlainNone DEF h
    <3> QED BY <2>4, <3>1
  <2> QED BY <1>8, <2>3, <2>4
<1>10. /\ Pending' \subseteq Pending \cup X /\ X \subseteq Pending' /\ Pending \subseteq Pending' \cup {h}
  BY <1>9 DEF PendingStep
<1>11. /\ \A f \in Endpoint : f # e => Held(f)' = Held(f)
       /\ Held(e)' = Held(e) \ {c}
  <2>1. \A f \in Endpoint : f # e => Held(f)' = Held(f)
    BY <1>6 DEF Held
  <2>2. Held(e)' = Held(e) \ {c}
    BY <1>6 DEF Held
  <2> QED BY <2>1, <2>2
<1>12. Tidy'
  BY <1>2, <1>6, <1>11 DEF Tidy
<1>13. BoundOrReleased'
  <2>1. \A d, f : Released(d, f) => Released(d, f)'
    BY <1>3, <1>9, ReleasedKept
  <2>2. ASSUME NEW d \in Conn, conn'[d].binding # NoEndpoint
        PROVE  d \in Held(conn[d].binding)' \/ Released(d, conn[d].binding)'
    <3>1. d # c /\ conn'[d].binding = conn[d].binding
      BY <1>5, <2>2
    <3>2. PICK f \in Endpoint : f = conn[d].binding /\ f = conn'[d].binding
      BY <1>1, <2>2, <3>1 DEF ConnRecord
    <3>3. d \in Held(f) \/ Released(d, f)
      BY <1>2, <2>2, <3>1, <3>2 DEF BoundOrReleased
    <3>4. d \in Held(f) => d \in Held(f)'
      BY <1>11, <3>1
    <3>5. d \in Held(f)' \/ Released(d, f)'
      BY <2>1, <3>3, <3>4
    <3> QED BY <3>2, <3>5
  <2> QED BY <1>5, <2>2 DEF BoundOrReleased
<1>14. \A f \in Endpoint : Held(f)' \subseteq Held(f)
  BY <1>11
<1>15. Known(e)
  BY DEF Known
<1>16. NewIsUnknown'
  <2>1. \A f \in Endpoint :
           /\ ep'[f].created = ep[f].created /\ Held(f)' \subseteq Held(f)
           /\ ep'[f].resetting \/ route' = f \/ f \in gcList' => Known(f)
    BY <1>6, <1>14 DEF Known
  <2>2. \A d \in Conn : conn'[d].binding \in {conn[d].binding, NoEndpoint}
    BY <1>5
  <2>3. \A x \in X : x.op \notin NewOps /\ (x.e \in Endpoint => Known(x.e))
    BY <1>4, <1>9, <1>15 DEF NewOps
  <2> QED BY <1>1, <1>2, <1>9, <2>1, <2>2, <2>3, UnknownKept
<1>17. RouteTended'
  <2> SUFFICES ASSUME NEW f \in Endpoint, route' = f
               PROVE  /\ ep'[f].resetting => Tended(f)'
                      /\ \/ Held(f)' # {} \/ Tended(f)'
                         \/ \E x \in Pending' : x.e = f /\ x.op \in {"EndpointReset", "AddToNew", "Bind"}
    BY DEF RouteTended
  <2>1. Tended(f) => Tended(f)'
    BY <1>3, <1>10 DEF Tended
  <2>2. CASE f # e
    BY <1>2, <1>3, <1>6, <1>10, <1>11, <2>1, <2>2 DEF RouteTended
  <2>3. CASE f = e
    <3>1. ~ep'[e].resetting
      BY <1>6
    <3>2. CASE ep[e].data = {c}
      BY <1>4, <1>9, <1>10, <2>3, <3>1, <3>2
    <3>3. CASE ep[e].data # {c}
      <4>1. ep[e].data \ {c} # {}
        BY <3>3
      <4>2. Held(e)' # {}
        BY <1>6, <4>1 DEF Held
      <4> QED BY <2>3, <3>1, <4>2
    <3> QED BY <3>2, <3>3
  <2> QED BY <2>2, <2>3
<1>18. /\ route' \in Endpoint \cup {NoEndpoint} /\ gcList' \subseteq Endpoint
       /\ inGc' \in BOOLEAN /\ stranded' \subseteq Endpoint /\ IsFiniteSet(gcList')
  BY <1>1, TypedParts
<1> QED BY <1>5, <1>6, <1>7, <1>9, <1>12, <1>13, <1>16, <1>17, <1>18, StepInv

\* Endpoint.RemoveConnection.
LEMMA RemoveConnectionKeeps ==
  ASSUME Inv, NEW t \in Thread, RemoveConnection(t)
  PROVE  Inv'
<1> DEFINE c == C(t)
           e == E(t)
           unbind == Call("Unbind", c, NoEndpoint)
           reset == Call("EndpointReset", NoConn, e)
<1>1. /\ At(t, "RemoveConnection") /\ UNCHANGED <<route, gcList, inGc, stranded>>
      /\ \/ Then(t, << >>) /\ UNCHANGED <<conn, ep>>
         \/ Then(t, <<unbind>>) /\ UNCHANGED <<conn, ep>>
         \/ Then(t, <<reset>>) /\ UNCHANGED <<conn, ep>>
         \/ /\ conn[c].binding = e /\ ~ep[e].resetting /\ c # ep[e].ctrl /\ c \in ep[e].data
            /\ conn' = [conn EXCEPT ![c].binding = NoEndpoint]
            /\ ep' = [ep EXCEPT ![e].data = @ \ {c}]
            /\ Then(t, IF ep[e].data = {c} THEN <<reset>> ELSE << >>)
  BY DEF RemoveConnection
<1>2. stack \in [Thread -> Seq(GoodCall)]
  BY TypedParts DEF Inv
<1>3. /\ c \in Conn /\ e \in Endpoint /\ stack[t] # << >>
      /\ Head(stack[t]).op = "RemoveConnection" /\ Head(stack[t]).e = e /\ Head(stack[t]) \in Pending
  BY <1>1, <1>2, AtHead DEF ConnOps, EndpointOps, At, E
<1>4. CalmReturn(Head(stack[t])) /\ Known(e)
  BY <1>3, KnownEndpoint DEF CalmReturn, NewOps
<1>5. ASSUME UNCHANGED <<conn, ep>> PROVE Calm /\ OthersKeep(t)
  BY <1>1, <1>5, Unchanged DEF Calm
<1>6. CASE Then(t, << >>) /\ UNCHANGED <<conn, ep>>
  BY <1>3, <1>4, <1>5, <1>6, CalmNone
<1>7. CASE Then(t, <<unbind>>) /\ UNCHANGED <<conn, ep>>
  <2>1. unbind \in GoodCall /\ unbind.op = "Unbind" /\ unbind.e = NoEndpoint /\ unbind.c = c
    BY <1>3, CallGood DEF Ops, ConnOps, EndpointOps
  <2> HIDE DEF unbind, c, e
  <2>2. CalmCall(unbind) /\ unbind.op \notin LockOps
    BY <2>1, EndpointAssumption DEF CalmCall, NewOps, LockOps
  <2> QED BY <1>3, <1>4, <1>5, <1>7, <2>1, <2>2, CalmOne
<1>8. CASE Then(t, <<reset>>) /\ UNCHANGED <<conn, ep>>
  <2> HIDE DEF c, e
  <2>1. e \in Endpoint
    BY <1>3
  <2>2. reset \in GoodCall /\ reset.op = "EndpointReset" /\ reset.e = e
    BY <2>1, CallGood DEF Ops, ConnOps, EndpointOps
  <2> HIDE DEF reset
  <2>3. CalmCall(reset) /\ reset.op \notin LockOps
    BY <1>4, <2>2 DEF CalmCall, NewOps, LockOps
  <2> QED BY <1>3, <1>4, <1>5, <1>8, <2>2, <2>3, CalmOne
<1>9. CASE /\ conn[c].binding = e /\ ~ep[e].resetting /\ c # ep[e].ctrl /\ c \in ep[e].data
           /\ conn' = [conn EXCEPT ![c].binding = NoEndpoint]
           /\ ep' = [ep EXCEPT ![e].data = @ \ {c}]
           /\ Then(t, IF ep[e].data = {c} THEN <<reset>> ELSE << >>)
  <2> HIDE DEF c, e
  <2> QED BY <1>1, <1>3, <1>9, DataRemoved
<1> QED BY <1>1, <1>6, <1>7, <1>8, <1>9

\* A goroutine returns from a call.
LEMMA ThenPop ==
  ASSUME stack \in [Thread -> Seq(GoodCall)], NEW t \in Thread, stack[t] # << >>, Then(t, << >>)
  PROVE  PendingStep({Head(stack[t])}, {})
<1> DEFINE calls == << >>
<1>1. calls \in Seq(GoodCall) /\ {calls[i] : i \in 1..Len(calls)} = {} /\ Then(t, calls)
  OBVIOUS
<1> HIDE DEF calls
<1> QED BY <1>1, ThenPending

\* A goroutine returns from a call that bound and released nothing.
LEMMA QuietPop ==
  ASSUME Inv, NEW t \in Thread, stack[t] # << >>, Head(stack[t]).op # "Release", Then(t, << >>),
         conn' = conn, ep' \in [Endpoint -> EndpointRecord],
         \A e \in Endpoint : /\ ep'[e].ctrl = ep[e].ctrl /\ ep'[e].data = ep[e].data
                             /\ ep'[e].created = ep[e].created /\ ep'[e].owner = ep[e].owner
                             /\ ep'[e].resetting => ep[e].resetting,
         route' \in {route, NoEndpoint}, RouteTended',
         gcList' \subseteq Endpoint, IsFiniteSet(gcList'), \A e \in gcList' : Known(e),
         inGc' \in BOOLEAN, stranded' \subseteq Endpoint
  PROVE  Inv'
<1>1. /\ Typed /\ conn \in [Conn -> ConnRecord] /\ route \in Endpoint \cup {NoEndpoint}
      /\ \A e \in Endpoint : IsFiniteSet(ep[e].data)
  BY TypedParts DEF Inv
<1>2. Tidy /\ BoundOrReleased /\ NewIsUnknown
  BY DEF Inv
<1>3. conn' \in [Conn -> ConnRecord] /\ BindingSame
  BY Unchanged
<1> DEFINE h == Head(stack[t])
           X == {}
<1>4. Settled /\ PendingStep({h}, X)
  <2>1. OthersKeep(t)
    BY DEF OthersKeep
  <2> QED BY <2>1, PlainNone
<1>5. (\A g \in {h} : g.op # "Release") /\ \A x \in X : FALSE
  OBVIOUS
<1> HIDE DEF h, X
<1>6. /\ Tidy' /\ BoundOrReleased'
      /\ \A e \in Endpoint : Held(e)' = Held(e)
  BY <1>1, <1>2, <1>3, <1>4, <1>5, QuietStep
<1>7. NewIsUnknown'
  <2>1. \A e \in Endpoint :
           /\ ep'[e].created = ep[e].created /\ Held(e)' \subseteq Held(e)
           /\ ep'[e].resetting \/ route' = e \/ e \in gcList' => Known(e)
    BY <1>6, EndpointAssumption DEF Known
  <2>2. \A c \in Conn : conn'[c].binding \in {conn[c].binding, NoEndpoint}
    OBVIOUS
  <2> QED BY <1>1, <1>2, <1>4, <1>5, <2>1, <2>2, UnknownKept
<1>8. route' \in Endpoint \cup {NoEndpoint} /\ \A e \in Endpoint : IsFiniteSet(ep'[e].data)
  BY <1>1
<1> QED BY <1>3, <1>4, <1>6, <1>7, <1>8, StepInv

\* The end of Endpoint.Reset.
LEMMA EndpointResetEndKeeps ==
  ASSUME Inv, NEW t \in Thread, EndpointResetEnd(t)
  PROVE  Inv'
<1>1. /\ At(t, "EndpointResetEnd") /\ Then(t, << >>)
      /\ ep' = [ep EXCEPT ![E(t)].resetting = FALSE]
      /\ UNCHANGED <<conn, route, gcList, inGc, stranded>>
  BY DEF EndpointResetEnd
<1>2. /\ Typed /\ stack \in [Thread -> Seq(GoodCall)] /\ ep \in [Endpoint -> EndpointRecord]
      /\ RouteTended /\ gcList \subseteq Endpoint /\ IsFiniteSet(gcList)
      /\ inGc \in BOOLEAN /\ stranded \subseteq Endpoint
  BY TypedParts DEF Inv
<1> DEFINE h == Head(stack[t])
<1>3. E(t) \in Endpoint /\ stack[t] # << >> /\ h.op = "EndpointResetEnd"
  BY <1>1, <1>2, AtHead DEF EndpointOps, At
<1>4. /\ ep' \in [Endpoint -> EndpointRecord]
      /\ \A e \in Endpoint : /\ ep'[e].ctrl = ep[e].ctrl /\ ep'[e].data = ep[e].data
                             /\ ep'[e].created = ep[e].created /\ ep'[e].owner = ep[e].owner
                             /\ ep'[e].resetting => ep[e].resetting
  BY <1>1, <1>2, <1>3 DEF EndpointRecord
<1>5. PendingStep({h}, {})
  BY <1>1, <1>2, <1>3, ThenPop
<1>6. RouteTended'
  <2>1. \A e \in Endpoint : Held(e)' = Held(e)
    BY <1>4 DEF Held
  <2>2. Pending \subseteq Pending' \cup {h}
    BY <1>5 DEF PendingStep
  <2>3. \A e \in Endpoint : Tended(e) => Tended(e)'
    BY <1>1, <1>3, <2>2 DEF Tended
  <2> QED BY <1>1, <1>2, <1>3, <1>4, <2>1, <2>2, <2>3 DEF RouteTended
<1>7. \A e \in gcList : Known(e)
  BY DEF Known
<1> QED BY <1>1, <1>2, <1>3, <1>4, <1>6, <1>7, QuietPop

\* Node.AddEndpointGcList.
LEMMA AddEndpointGcListKeeps ==
  ASSUME Inv, NEW t \in Thread, AddEndpointGcList(t)
  PROVE  Inv'
<1>1. /\ At(t, "AddEndpointGcList") /\ Then(t, << >>)
      /\ gcList' = IF inGc THEN gcList ELSE gcList \cup {E(t)}
      /\ stranded' = IF inGc THEN stranded \cup {E(t)} ELSE stranded
      /\ UNCHANGED <<conn, ep, route, inGc>>
  BY DEF AddEndpointGcList
<1>2. /\ Typed /\ stack \in [Thread -> Seq(GoodCall)] /\ ep \in [Endpoint -> EndpointRecord]
      /\ RouteTended /\ gcList \subseteq Endpoint /\ IsFiniteSet(gcList)
      /\ inGc \in BOOLEAN /\ stranded \subseteq Endpoint
  BY TypedParts DEF Inv
<1> DEFINE h == Head(stack[t])
<1>3. /\ E(t) \in Endpoint /\ stack[t] # << >> /\ h.op = "AddEndpointGcList" /\ h.e = E(t)
      /\ h \in Pending
  BY <1>1, <1>2, AtHead DEF EndpointOps, At, E
<1>4. PendingStep({h}, {})
  BY <1>1, <1>2, <1>3, ThenPop
<1>5. Pending \subseteq Pending' \cup {h}
  BY <1>4 DEF PendingStep
<1>6. RouteTended'
  <2>1. \A e \in Endpoint : Held(e)' = Held(e)
    BY <1>1 DEF Held
  <2>2. \A e \in Endpoint : Tended(e) => Tended(e)'
    <3> SUFFICES ASSUME NEW e \in Endpoint, Tended(e) PROVE Tended(e)'
      OBVIOUS
    <3>1. CASE e \in gcList \/ e \in stranded
      BY <1>1, <3>1 DEF Tended
    <3>2. CASE \E x \in Pending : x.e = e /\ x.op \in {"AddEndpointGcList", "GcCheck"}
      <4>1. PICK x \in Pending : x.e = e /\ x.op \in {"AddEndpointGcList", "GcCheck"}
        BY <3>2
      <4>2. CASE x = h
        BY <1>1, <1>3, <4>1, <4>2 DEF Tended
      <4>3. CASE x # h
        BY <1>5, <4>1, <4>3 DEF Tended
      <4> QED BY <4>2, <4>3
    <3> QED BY <3>1, <3>2 DEF Tended
  <2> QED BY <1>1, <1>2, <1>3, <1>5, <2>1, <2>2 DEF RouteTended
<1>7. Known(E(t)) /\ \A e \in gcList : Known(e)
  BY <1>3 DEF Known, NewOps
<1>8. /\ gcList' \subseteq Endpoint /\ IsFiniteSet(gcList') /\ (\A e \in gcList' : Known(e))
      /\ stranded' \subseteq Endpoint
  <2>1. IsFiniteSet(gcList \cup {E(t)})
    BY <1>2, FS_AddElement
  <2> QED BY <1>1, <1>2, <1>3, <1>7, <2>1
<1>9. \A e \in Endpoint : /\ ep'[e].ctrl = ep[e].ctrl /\ ep'[e].data = ep[e].data
                          /\ ep'[e].created = ep[e].created /\ ep'[e].owner = ep[e].owner
                          /\ ep'[e].resetting => ep[e].resetting
  BY <1>1
<1> QED BY <1>1, <1>2, <1>3, <1>6, <1>8, <1>9, QuietPop

\* The collection looks at an endpoint.
LEMMA GcCheckKeeps ==
  ASSUME Inv, NEW t \in Thread, GcCheck(t)
  PROVE  Inv'
<1>1. /\ At(t, "GcCheck") /\ Then(t, << >>)
      /\ route' = IF ~IsAvailable(E(t)) /\ route = E(t) THEN NoEndpoint ELSE route
      /\ UNCHANGED <<conn, ep, gcList, inGc, stranded>>
  BY DEF GcCheck
<1>2. /\ Typed /\ stack \in [Thread -> Seq(GoodCall)] /\ ep \in [Endpoint -> EndpointRecord]
      /\ RouteTended /\ Tidy /\ gcList \subseteq Endpoint /\ IsFiniteSet(gcList)
      /\ inGc \in BOOLEAN /\ stranded \subseteq Endpoint
  BY TypedParts DEF Inv
<1> DEFINE h == Head(stack[t])
<1>3. E(t) \in Endpoint /\ stack[t] # << >> /\ h.op = "GcCheck" /\ h.e = E(t)
  BY <1>1, <1>2, AtHead DEF EndpointOps, At, E
<1>4. PendingStep({h}, {})
  BY <1>1, <1>2, <1>3, ThenPop
<1>5. Pending \subseteq Pending' \cup {h}
  BY <1>4 DEF PendingStep
<1>6. RouteTended'
  <2>1. \A e \in Endpoint : Held(e)' = Held(e)
    BY <1>1 DEF Held
  <2> SUFFICES ASSUME NEW e \in Endpoint, route' = e
               PROVE  /\ ep'[e].resetting => Tended(e)'
                      /\ \/ Held(e)' # {} \/ Tended(e)'
                         \/ \E x \in Pending' : x.e = e /\ x.op \in {"EndpointReset", "AddToNew", "Bind"}
    BY DEF RouteTended
  <2>2. route = e /\ (e = E(t) => IsAvailable(e))
    BY <1>1, EndpointAssumption
  <2>3. CASE e = E(t)
    <3>1. Held(e) # {}
      BY <2>2, <2>3 DEF IsAvailable, Held
    <3> QED BY <1>1, <1>2, <2>1, <3>1 DEF Tidy
  <2>4. CASE e # E(t)
    <3>1. Tended(e) => Tended(e)'
      BY <1>1, <1>3, <1>5, <2>4 DEF Tended
    <3> QED BY <1>1, <1>2, <1>3, <1>5, <2>1, <2>2, <3>1 DEF RouteTended
  <2> QED BY <2>3, <2>4
<1>7. \A e \in gcList : Known(e)
  BY DEF Known
<1>8. \A e \in Endpoint : /\ ep'[e].ctrl = ep[e].ctrl /\ ep'[e].data = ep[e].data
                          /\ ep'[e].created = ep[e].created /\ ep'[e].owner = ep[e].owner
                          /\ ep'[e].resetting => ep[e].resetting
  BY <1>1
<1>9. route' \in {route, NoEndpoint}
  BY <1>1
<1> QED BY <1>1, <1>2, <1>3, <1>6, <1>7, <1>8, <1>9, QuietPop

\* The collection ends.
LEMMA GcEndKeeps ==
  ASSUME Inv, NEW t \in Thread, GcEnd(t)
  PROVE  Inv'
<1>1. /\ At(t, "GcEnd") /\ Then(t, << >>)
      /\ gcList' = {} /\ stranded' = stranded \cup gcList /\ inGc' = FALSE
      /\ UNCHANGED <<conn, ep, route>>
  BY DEF GcEnd
<1>2. /\ Typed /\ stack \in [Thread -> Seq(GoodCall)] /\ ep \in [Endpoint -> EndpointRecord]
      /\ RouteTended /\ gcList \subseteq Endpoint /\ stranded \subseteq Endpoint
  BY TypedParts DEF Inv
<1> DEFINE h == Head(stack[t])
<1>3. stack[t] # << >> /\ h.op = "GcEnd"
  BY <1>1, <1>2, AtHead DEF At
<1>4. PendingStep({h}, {})
  BY <1>1, <1>2, <1>3, ThenPop
<1>5. Pending \subseteq Pending' \cup {h}
  BY <1>4 DEF PendingStep
<1>6. RouteTended'
  <2>1. \A e \in Endpoint : Held(e)' = Held(e)
    BY <1>1 DEF Held
  <2>2. \A e \in Endpoint : Tended(e) => Tended(e)'
    BY <1>1, <1>3, <1>5 DEF Tended
  <2> QED BY <1>1, <1>2, <1>3, <1>5, <2>1, <2>2 DEF RouteTended
<1>7. /\ gcList' \subseteq Endpoint /\ IsFiniteSet(gcList') /\ (\A e \in gcList' : Known(e))
      /\ stranded' \subseteq Endpoint /\ inGc' \in BOOLEAN
  BY <1>1, <1>2, FS_EmptySet
<1>8. \A e \in Endpoint : /\ ep'[e].ctrl = ep[e].ctrl /\ ep'[e].data = ep[e].data
                          /\ ep'[e].created = ep[e].created /\ ep'[e].owner = ep[e].owner
                          /\ ep'[e].resetting => ep[e].resetting
  BY <1>1
<1> QED BY <1>1, <1>2, <1>3, <1>6, <1>7, <1>8, QuietPop

\* A connection is unbound, outside the mutex of its endpoint.
LEMMA Unbound ==
  ASSUME Inv, NEW t \in Thread, stack[t] # << >>,
         Head(stack[t]).op \in {"Release", "Unbind"}, Head(stack[t]).c \in Conn,
         conn' = [conn EXCEPT ![Head(stack[t]).c].binding = NoEndpoint],
         UNCHANGED <<ep, route, gcList, inGc, stranded>>,
         Settled, NEW X, PendingStep({Head(stack[t])}, X),
         \A x \in X : x.op = "ConnReset" /\ x.e = NoEndpoint
  PROVE  Inv'
<1> DEFINE h == Head(stack[t])
           c == h.c
<1>1. /\ Typed /\ stack \in [Thread -> Seq(GoodCall)] /\ conn \in [Conn -> ConnRecord]
      /\ ep \in [Endpoint -> EndpointRecord]
      /\ \A f \in Endpoint : IsFiniteSet(ep[f].data)
  BY TypedParts DEF Inv
<1>2. Tidy /\ BoundOrReleased /\ NewIsUnknown /\ RouteTended
  BY DEF Inv
<1>3. h \in Pending /\ h.op \in {"Release", "Unbind"} /\ c \in Conn
  <2>1. 1 \in 1..Len(stack[t]) /\ h = stack[t][1]
    BY <1>1
  <2> QED BY <1>1, <2>1, PendingCalls
<1>4. /\ conn' \in [Conn -> ConnRecord] /\ conn'[c].binding = NoEndpoint
      /\ \A d \in Conn : d # c => conn'[d] = conn[d]
  BY <1>1, <1>3, ConnField
<1>5. /\ Pending' \subseteq Pending \cup X /\ X \subseteq Pending' /\ Pending \subseteq Pending' \cup {h}
  BY DEF PendingStep
<1>6. \A f \in Endpoint : Held(f)' = Held(f)
  BY DEF Held
<1> HIDE DEF h, c
<1>7. Tidy'
  BY <1>2, <1>6 DEF Tidy
<1>8. BoundOrReleased'
  <2>1. \A d, f : d # c /\ Released(d, f) => Released(d, f)'
    BY ReleasedKept DEF h, c
  <2>2. ASSUME NEW d \in Conn, conn'[d].binding # NoEndpoint
        PROVE  d \in Held(conn[d].binding)' \/ Released(d, conn[d].binding)'
    <3>1. d # c /\ conn'[d].binding = conn[d].binding
      BY <1>4, <2>2
    <3>2. PICK f \in Endpoint : f = conn[d].binding /\ f = conn'[d].binding
      BY <1>1, <2>2, <3>1 DEF ConnRecord
    <3>3. d \in Held(f) \/ Released(d, f)
      BY <1>2, <2>2, <3>1, <3>2 DEF BoundOrReleased
    <3>4. d \in Held(f)' \/ Released(d, f)'
      BY <1>6, <2>1, <3>1, <3>3
    <3> QED BY <3>2, <3>4
  <2> QED BY <1>4, <2>2 DEF BoundOrReleased
<1>9. NewIsUnknown'
  <2>1. \A f \in Endpoint :
           /\ ep'[f].created = ep[f].created /\ Held(f)' \subseteq Held(f)
           /\ ep'[f].resetting \/ route' = f \/ f \in gcList' => Known(f)
    BY <1>6 DEF Known
  <2>2. \A d \in Conn : conn'[d].binding \in {conn[d].binding, NoEndpoint}
    BY <1>4
  <2>3. \A x \in X : x.op \notin NewOps /\ (x.e \in Endpoint => Known(x.e))
    BY EndpointAssumption DEF NewOps
  <2> QED BY <1>1, <1>2, <2>1, <2>2, <2>3, UnknownKept
<1>10. RouteTended'
  <2>1. \A e \in Endpoint : Tended(e) => Tended(e)'
    BY <1>3, <1>5 DEF Tended
  <2> QED BY <1>2, <1>3, <1>5, <1>6, <2>1 DEF RouteTended
<1>12. /\ route' \in Endpoint \cup {NoEndpoint} /\ gcList' \subseteq Endpoint
       /\ inGc' \in BOOLEAN /\ stranded' \subseteq Endpoint /\ IsFiniteSet(gcList')
       /\ ep' \in [Endpoint -> EndpointRecord] /\ \A f \in Endpoint : IsFiniteSet(ep'[f].data)
  BY <1>1, TypedParts
<1> QED BY <1>4, <1>7, <1>8, <1>9, <1>10, <1>12, StepInv

\* setConnectionBinding(conn, nil).
LEMMA UnbindKeeps ==
  ASSUME Inv, NEW t \in Thread, Unbind(t)
  PROVE  Inv'
<1>1. /\ At(t, "Unbind") /\ Then(t, << >>) /\ conn' = [conn EXCEPT ![C(t)].binding = NoEndpoint]
      /\ UNCHANGED <<ep, route, gcList, inGc, stranded>>
  BY DEF Unbind
<1>2. /\ Typed /\ stack \in [Thread -> Seq(GoodCall)] /\ conn \in [Conn -> ConnRecord]
  BY TypedParts DEF Inv
<1> DEFINE h == Head(stack[t])
<1>3. stack[t] # << >> /\ h.op = "Unbind" /\ h.c = C(t) /\ C(t) \in Conn
  BY <1>1, <1>2, AtHead DEF ConnOps, At, C
<1>4. OthersKeep(t)
  BY <1>1, Unchanged
<1> DEFINE X == {}
<1>5. Settled /\ PendingStep({h}, X)
  BY <1>1, <1>2, <1>3, <1>4, PlainNone
<1>6. \A x \in X : x.op = "ConnReset" /\ x.e = NoEndpoint
  OBVIOUS
<1> HIDE DEF X
<1> QED BY <1>1, <1>3, <1>5, <1>6, Unbound

\* A connection that was taken away is released.
LEMMA ReleaseKeeps ==
  ASSUME Inv, NEW t \in Thread, Release(t)
  PROVE  Inv'
<1> DEFINE h == Head(stack[t])
           a == Call("ConnReset", C(t), NoEndpoint)
<1>1. /\ At(t, "Release") /\ Then(t, <<a>>) /\ conn' = [conn EXCEPT ![C(t)].binding = NoEndpoint]
      /\ UNCHANGED <<ep, route, gcList, inGc, stranded>>
  BY DEF Release
<1>2. /\ Typed /\ stack \in [Thread -> Seq(GoodCall)] /\ conn \in [Conn -> ConnRecord]
  BY TypedParts DEF Inv
<1>3. stack[t] # << >> /\ h.op = "Release" /\ h.c = C(t) /\ C(t) \in Conn
  BY <1>1, <1>2, AtHead DEF ConnOps, At, C
<1>4. OthersKeep(t)
  BY <1>1, Unchanged
<1>5. a \in GoodCall /\ a.op = "ConnReset" /\ a.e = NoEndpoint
  BY <1>3, CallGood DEF Ops, ConnOps, EndpointOps
<1> HIDE DEF a
<1>8. Plain(a)
  BY <1>5 DEF Plain, NewOps, LockOps
<1>6. Settled /\ PendingStep({h}, {a})
  BY <1>1, <1>3, <1>4, <1>5, <1>8, PlainOne
<1>7. \A x \in {a} : x.op = "ConnReset" /\ x.e = NoEndpoint
  BY <1>5
<1> QED BY <1>1, <1>3, <1>6, <1>7, Unbound

\* executeGC takes the list.
LEMMA ExecuteGCKeeps ==
  ASSUME Inv, ExecuteGC
  PROVE  Inv'
<1>1. /\ Typed /\ stack \in [Thread -> Seq(GoodCall)] /\ conn \in [Conn -> ConnRecord]
      /\ ep \in [Endpoint -> EndpointRecord]
      /\ gcList \subseteq Endpoint /\ IsFiniteSet(gcList) /\ stranded \subseteq Endpoint
      /\ \A f \in Endpoint : IsFiniteSet(ep[f].data)
  BY TypedParts DEF Inv
<1>2. Tidy /\ BoundOrReleased /\ NewIsUnknown /\ RouteTended
  BY DEF Inv
<1> DEFINE end == Call("GcEnd", NoConn, NoEndpoint)
<1>3. /\ inGc' = TRUE /\ gcList' = {} /\ UNCHANGED <<conn, ep, route, stranded>>
      /\ \E checked \in SetToSeqs(gcList) :
           Start(Main, [i \in DOMAIN checked |-> Call("GcCheck", NoConn, checked[i])] \o <<end>>)
  BY DEF ExecuteGC
<1>4. PICK s \in SetToSeqs(gcList) :
        Start(Main, [i \in DOMAIN s |-> Call("GcCheck", NoConn, s[i])] \o <<end>>)
  BY <1>3
<1>5. /\ s \in Seq(gcList) /\ Len(s) \in Nat /\ DOMAIN s = 1..Len(s)
      /\ \A x \in gcList : \E i \in 1..Len(s) : s[i] = x
  BY <1>1, SeqsCover
<1> DEFINE f == [i \in DOMAIN s |-> Call("GcCheck", NoConn, s[i])]
<1>6. \A i \in 1..Len(s) : /\ s[i] \in gcList /\ s[i] \in Endpoint
                           /\ f[i] = Call("GcCheck", NoConn, s[i]) /\ f[i] \in GoodCall
                           /\ f[i].op = "GcCheck" /\ f[i].e = s[i]
  <2> SUFFICES ASSUME NEW i \in 1..Len(s)
               PROVE  /\ s[i] \in gcList /\ s[i] \in Endpoint
                      /\ f[i] = Call("GcCheck", NoConn, s[i]) /\ f[i] \in GoodCall
                      /\ f[i].op = "GcCheck" /\ f[i].e = s[i]
    OBVIOUS
  <2>1. s[i] \in gcList /\ s[i] \in Endpoint /\ f[i] = Call("GcCheck", NoConn, s[i])
    BY <1>1, <1>5
  <2>2. /\ Call("GcCheck", NoConn, s[i]) \in GoodCall
        /\ Call("GcCheck", NoConn, s[i]).op = "GcCheck" /\ Call("GcCheck", NoConn, s[i]).e = s[i]
    BY <2>1, CallGood DEF Ops, ConnOps, EndpointOps
  <2> QED BY <2>1, <2>2
<1>7. f \in [1..Len(s) -> GoodCall]
  BY <1>5, <1>6
<1> HIDE DEF f
<1>8. f \in Seq(GoodCall) /\ Len(f) = Len(s)
  BY <1>5, <1>7
<1>9. end \in GoodCall /\ end.op = "GcEnd" /\ end.e = NoEndpoint
  BY CallGood DEF Ops, ConnOps, EndpointOps
<1> HIDE DEF end
<1> DEFINE last == <<end>>
           calls == f \o last
           X == Members(calls)
<1>10. last \in Seq(GoodCall) /\ Members(last) = {end}
  BY <1>9, ShortLists
<1>11. Start(Main, calls)
  BY <1>4 DEF f
<1> HIDE DEF last
<1>12. calls \in Seq(GoodCall) /\ X = {f[i] : i \in 1..Len(f)} \cup {end}
  <2>1. f \o last \in Seq(GoodCall) /\ Members(f \o last) = Members(f) \cup Members(last)
    BY <1>8, <1>10, ConcatRange
  <2>2. Members(f) = {f[i] : i \in 1..Len(f)}
    BY DEF Members
  <2> QED BY <1>10, <2>1, <2>2
<1>13. Main \in Thread
  BY DEF Main, Thread
<1> HIDE DEF calls
<1>15. \A x \in X : x = end \/ (x.op = "GcCheck" /\ x.e \in gcList)
  BY <1>6, <1>8, <1>12
<1>16. \A x \in X : x.op \in {"GcCheck", "GcEnd"}
  BY <1>9, <1>15
<1>17. conn' \in [Conn -> ConnRecord] /\ BindingSame
  BY <1>3, Unchanged
<1>18. Settled /\ PendingStep({}, X)
  <2>1. \A x \in Members(calls) : Plain(x)
    BY <1>16 DEF Plain, NewOps, LockOps
  <2>2. OthersKeep(Main)
    BY <1>3, <1>13, Unchanged
  <2> QED BY <1>11, <1>12, <1>13, <2>1, <2>2, PlainStart
<1> HIDE DEF X
<1>19. /\ Tidy' /\ BoundOrReleased'
       /\ \A e \in Endpoint : Held(e)' = Held(e)
  <2>1. \A e \in Endpoint : /\ ep'[e].ctrl = ep[e].ctrl /\ ep'[e].data = ep[e].data
                            /\ ep'[e].resetting => ep[e].resetting
    BY <1>3
  <2> QED BY <1>1, <1>2, <1>17, <1>18, <2>1, QuietStep
<1>20. NewIsUnknown'
  <2>1. \A e \in Endpoint :
           /\ ep'[e].created = ep[e].created /\ Held(e)' \subseteq Held(e)
           /\ ep'[e].resetting \/ route' = e \/ e \in gcList' => Known(e)
    BY <1>3, <1>19 DEF Known
  <2>2. \A c \in Conn : conn'[c].binding \in {conn[c].binding, NoEndpoint}
    BY <1>3
  <2>3. \A x \in X : x.op \notin NewOps /\ (x.e \in Endpoint => Known(x.e))
    BY <1>9, <1>15, <1>16, EndpointAssumption DEF Known, NewOps
  <2> QED BY <1>1, <1>2, <1>18, <2>1, <2>2, <2>3, UnknownKept
<1>21. RouteTended'
  <2>1. Pending \subseteq Pending' /\ X \subseteq Pending'
    BY <1>18 DEF PendingStep
  <2>2. \A e \in gcList : \E x \in X : x.e = e /\ x.op = "GcCheck"
    <3> SUFFICES ASSUME NEW e \in gcList PROVE \E x \in X : x.e = e /\ x.op = "GcCheck"
      OBVIOUS
    <3>1. PICK i \in 1..Len(s) : s[i] = e
      BY <1>5
    <3>2. f[i] \in X /\ f[i].e = e /\ f[i].op = "GcCheck"
      BY <1>6, <1>8, <1>12, <3>1
    <3> QED BY <3>2
  <2>3. \A e \in Endpoint : Tended(e) => Tended(e)'
    BY <1>3, <2>1, <2>2 DEF Tended
  <2> QED BY <1>2, <1>3, <1>19, <2>1, <2>3 DEF RouteTended
<1>22. /\ route' \in Endpoint \cup {NoEndpoint} /\ gcList' \subseteq Endpoint
       /\ inGc' \in BOOLEAN /\ stranded' \subseteq Endpoint /\ IsFiniteSet(gcList')
       /\ ep' \in [Endpoint -> EndpointRecord] /\ \A g \in Endpoint : IsFiniteSet(ep'[g].data)
  BY <1>1, <1>3, TypedParts, FS_EmptySet
<1> QED BY <1>17, <1>18, <1>19, <1>20, <1>21, <1>22, StepInv

\* The connections of an endpoint, as Endpoint.Reset lists them.
LEMMA HeldList ==
  ASSUME Typed, NEW e \in Endpoint, NEW data \in SetToSeqs(ep[e].data)
  PROVE  LET ctrl == IF ep[e].ctrl = NoConn THEN << >> ELSE <<ep[e].ctrl>>
         IN  /\ ctrl \o data \in Seq(Conn)
             /\ Members(ctrl \o data) = Held(e)
<1>1. /\ ep[e].ctrl \in Conn \cup {NoConn} /\ ep[e].data \subseteq Conn
      /\ IsFiniteSet(ep[e].data)
  BY TypedParts DEF EndpointRecord
<1>2. /\ data \in Seq(ep[e].data) /\ \A x \in ep[e].data : \E i \in 1..Len(data) : data[i] = x
  BY <1>1, SeqsCover
<1>3. data \in Seq(Conn) /\ Members(data) = ep[e].data
  BY <1>1, <1>2 DEF Members
<1> DEFINE ctrl == IF ep[e].ctrl = NoConn THEN << >> ELSE <<ep[e].ctrl>>
<1>4. ctrl \in Seq(Conn) /\ Members(ctrl) = {ep[e].ctrl} \ {NoConn}
  <2>1. CASE ep[e].ctrl = NoConn
    BY <2>1, ShortLists
  <2>2. CASE ep[e].ctrl # NoConn
    <3>1. ep[e].ctrl \in Conn
      BY <1>1, <2>2
    <3>2. <<ep[e].ctrl>> \in Seq(Conn) /\ Members(<<ep[e].ctrl>>) = {ep[e].ctrl}
      BY <3>1, ShortLists
    <3> QED BY <2>2, <3>2
  <2> QED BY <2>1, <2>2
<1> HIDE DEF ctrl
<1>5. /\ ctrl \o data \in Seq(Conn)
      /\ Members(ctrl \o data) = Held(e)
  <2>1. ctrl \o data \in Seq(Conn) /\ Members(ctrl \o data) = Members(ctrl) \cup Members(data)
    BY <1>3, <1>4, ConcatRange
  <2>2. Members(ctrl \o data) = Held(e)
    BY <1>3, <1>4, <2>1 DEF Held
  <2> QED BY <2>1, <2>2
<1> QED BY <1>5 DEF ctrl

\* The last two calls of Endpoint.Reset.
LEMMA EndCalls ==
  ASSUME NEW e \in Endpoint
  PROVE  LET a == Call("AddEndpointGcList", NoConn, e)
             b == Call("EndpointResetEnd", NoConn, e)
         IN  /\ a \in GoodCall /\ a.op = "AddEndpointGcList" /\ a.e = e
             /\ b \in GoodCall /\ b.op = "EndpointResetEnd" /\ b.e = e
<1> DEFINE a == Call("AddEndpointGcList", NoConn, e)
           b == Call("EndpointResetEnd", NoConn, e)
<1>1. a \in GoodCall /\ a.op = "AddEndpointGcList" /\ a.e = e
  BY CallGood DEF Ops, ConnOps, EndpointOps
<1>2. b \in GoodCall /\ b.op = "EndpointResetEnd" /\ b.e = e
  BY CallGood DEF Ops, ConnOps, EndpointOps
<1> QED BY <1>1, <1>2

\* The calls of Endpoint.Reset: all that was held is released, and the endpoint
\* is given to the garbage collection.
ResetList(s, e) ==
  [i \in DOMAIN s |-> Call("Release", s[i], e)]
  \o <<Call("AddEndpointGcList", NoConn, e), Call("EndpointResetEnd", NoConn, e)>>

\* What is called, and in which order.
LEMMA ResetCalls ==
  ASSUME NEW e \in Endpoint, NEW H \in SUBSET Conn, NEW s \in Seq(Conn), Members(s) = H
  PROVE  /\ ResetList(s, e) \in Seq(GoodCall) /\ Well(ResetList(s, e))
         /\ \A x \in Members(ResetList(s, e)) :
              x.op \in {"Release", "AddEndpointGcList", "EndpointResetEnd"} /\ x.e = e
         /\ \A c \in H : Call("Release", c, e) \in Members(ResetList(s, e))
         /\ \E x \in Members(ResetList(s, e)) : x.op = "AddEndpointGcList" /\ x.e = e
<1> DEFINE f == [i \in DOMAIN s |-> Call("Release", s[i], e)]
           a == Call("AddEndpointGcList", NoConn, e)
           b == Call("EndpointResetEnd", NoConn, e)
           last == <<a, b>>
           calls == ResetList(s, e)
           X == Members(calls)
           n == Len(s)
<1>0. calls = f \o last
  BY DEF ResetList
<1> HIDE DEF calls
<1>1. n \in Nat /\ DOMAIN s = 1..n
  OBVIOUS
<1>2. ASSUME NEW i \in 1..n
      PROVE  /\ f[i] = Call("Release", s[i], e) /\ f[i] \in GoodCall
             /\ f[i].op = "Release" /\ f[i].e = e
  <2>1. s[i] \in Conn /\ f[i] = Call("Release", s[i], e)
    BY <1>1
  <2>2. /\ Call("Release", s[i], e) \in GoodCall /\ Call("Release", s[i], e).op = "Release"
        /\ Call("Release", s[i], e).e = e
    BY <2>1, CallGood DEF Ops, ConnOps, EndpointOps
  <2> QED BY <2>1, <2>2
<1>3. f \in [1..n -> GoodCall]
  BY <1>1, <1>2
<1> HIDE DEF f
<1>4. f \in Seq(GoodCall) /\ Len(f) = n
  BY <1>1, <1>3
<1>5. a \in GoodCall /\ a.op = "AddEndpointGcList" /\ a.e = e
  BY EndCalls
<1>6. b \in GoodCall /\ b.op = "EndpointResetEnd" /\ b.e = e
  BY EndCalls
<1>7. a = Call("AddEndpointGcList", NoConn, e)
  OBVIOUS
<1> HIDE DEF a, b, n
<1>8. /\ last \in Seq(GoodCall) /\ Members(last) = {a, b}
      /\ Len(last) = 2 /\ last[1] = a /\ last[2] = b
  BY <1>5, <1>6, ShortLists
<1> HIDE DEF last
<1>9. calls \in Seq(GoodCall) /\ X = Members(f) \cup {a, b}
  <2>1. f \o last \in Seq(GoodCall) /\ Members(f \o last) = Members(f) \cup Members(last)
    BY <1>4, <1>8, ConcatRange
  <2> QED BY <1>0, <1>8, <2>1
<1>10. /\ Len(calls) = n + 2 /\ calls[n + 1] = a /\ calls[n + 2] = b
       /\ \A i \in 1..n : calls[i] = f[i]
  <2>1. /\ f \in Seq(GoodCall) /\ last \in Seq(GoodCall) /\ Len(f) = n /\ Len(last) = 2
        /\ n \in Nat /\ last[1] = a /\ last[2] = b
    BY <1>1, <1>4, <1>8
  <2>2. /\ Len(f \o last) = Len(f) + Len(last)
        /\ \A i \in 1..Len(f) : (f \o last)[i] = f[i]
        /\ \A i \in (Len(f) + 1)..(Len(f) + Len(last)) : (f \o last)[i] = last[i - Len(f)]
    BY ONLY <2>1, ConcatAt
  <2>4. /\ n + 1 \in (n + 1)..(n + 2) /\ n + 2 \in (n + 1)..(n + 2)
        /\ (n + 1) - n = 1 /\ (n + 2) - n = 2
    BY ONLY <2>1
  <2> QED BY <1>0, <2>1, <2>2, <2>4
<1> HIDE DEF X
<1>11. \A x \in X : x.op \in {"Release", "AddEndpointGcList", "EndpointResetEnd"} /\ x.e = e
  BY <1>2, <1>4, <1>5, <1>6, <1>9 DEF Members
<1>12. \A c \in H : Call("Release", c, e) \in X
  <2> SUFFICES ASSUME NEW c \in H PROVE Call("Release", c, e) \in X
    OBVIOUS
  <2>1. PICK i \in 1..Len(s) : s[i] = c
    BY DEF Members
  <2>2. i \in 1..n /\ i \in 1..Len(f)
    BY <1>4 DEF n
  <2>3. f[i] = Call("Release", c, e)
    BY <1>2, <2>1, <2>2
  <2> QED BY <1>9, <2>2, <2>3 DEF Members
<1>13. \E x \in X : x.op = "AddEndpointGcList" /\ x.e = e
  BY <1>5, <1>9
<1>14. Well(calls)
  <2> SUFFICES ASSUME NEW i \in 1..Len(calls)
               PROVE  /\ calls[i].op \notin LockOps /\ calls[i].op # "AddEndpoint"
                      /\ calls[i].op = "Release" =>
                           \E j \in (i + 1)..Len(calls) :
                             calls[j] = Call("AddEndpointGcList", NoConn, calls[i].e)
    BY DEF Well
  <2>1. i \in 1..n \/ i = n + 1 \/ i = n + 2
    BY <1>1, <1>10
  <2>2. CASE i \in 1..n
    <3>1. calls[i].op = "Release" /\ calls[i].e = e
      BY <1>2, <1>10, <2>2
    <3>2. n + 1 \in (i + 1)..Len(calls)
      BY <1>1, <1>10, <2>2
    <3>3. calls[n + 1] = Call("AddEndpointGcList", NoConn, calls[i].e)
      BY <1>7, <1>10, <3>1
    <3> QED BY <3>1, <3>2, <3>3 DEF LockOps
  <2>3. CASE i = n + 1
    BY <1>5, <1>10, <2>3 DEF LockOps
  <2>4. CASE i = n + 2
    BY <1>6, <1>10, <2>4 DEF LockOps
  <2> QED BY <2>1, <2>2, <2>3, <2>4
<1> QED BY <1>9, <1>11, <1>12, <1>13, <1>14 DEF X, calls

\* The data connections of an endpoint are taken away.
LEMMA DataCleared ==
  ASSUME NEW f \in [Endpoint -> EndpointRecord], NEW e \in Endpoint
  PROVE  LET g == [f EXCEPT ![e].data = {}]
         IN  /\ g \in [Endpoint -> EndpointRecord] /\ g[e].resetting = f[e].resetting
             /\ g[e].ctrl = f[e].ctrl /\ g[e].data = {} /\ g[e].created = f[e].created
             /\ g[e].owner = f[e].owner
             /\ \A d \in Endpoint : d # e => g[d] = f[d]
BY DEF EndpointRecord

\* What is left of an endpoint whose connections were taken away.
LEMMA ResetRecord ==
  ASSUME ep \in [Endpoint -> EndpointRecord], NEW e \in Endpoint,
         ep' = [ep EXCEPT ![e].resetting = TRUE, ![e].ctrl = NoConn, ![e].data = {}]
  PROVE  /\ ep' \in [Endpoint -> EndpointRecord] /\ ep'[e].owner = ep[e].owner
         /\ ep'[e].ctrl = NoConn /\ ep'[e].data = {} /\ ep'[e].resetting
         /\ ep'[e].created = ep[e].created /\ \A f \in Endpoint : f # e => ep'[f] = ep[f]
<1> DEFINE one == [ep EXCEPT ![e].resetting = TRUE]
           two == [one EXCEPT ![e].ctrl = NoConn]
           three == [two EXCEPT ![e].data = {}]
<1>1. ep' = three
  OBVIOUS
<1>2. /\ one \in [Endpoint -> EndpointRecord] /\ one[e].resetting /\ one[e].owner = ep[e].owner
      /\ one[e].created = ep[e].created /\ \A f \in Endpoint : f # e => one[f] = ep[f]
  BY DEF EndpointRecord
<1> HIDE DEF one
<1>3. /\ two \in [Endpoint -> EndpointRecord] /\ two[e].resetting /\ two[e].ctrl = NoConn
      /\ two[e].owner = ep[e].owner
      /\ two[e].created = ep[e].created /\ \A f \in Endpoint : f # e => two[f] = ep[f]
  BY <1>2, ZenonT(60) DEF EndpointRecord
<1> HIDE DEF two
<1>4. /\ three \in [Endpoint -> EndpointRecord] /\ three[e].resetting = two[e].resetting
      /\ three[e].ctrl = two[e].ctrl /\ three[e].data = {} /\ three[e].created = two[e].created
      /\ three[e].owner = two[e].owner
      /\ \A f \in Endpoint : f # e => three[f] = two[f]
  BY <1>3, DataCleared
<1> HIDE DEF three
<1> QED BY <1>1, <1>3, <1>4

\* Endpoint.Reset takes the connections away.
LEMMA ResetTaken ==
  ASSUME Inv, NEW t \in Thread, At(t, "EndpointReset"), NEW e \in Endpoint, E(t) = e,
         ~ep[e].resetting, ep[e].owner = Nobody,
         ep' = [ep EXCEPT ![e].resetting = TRUE, ![e].ctrl = NoConn, ![e].data = {}],
         UNCHANGED <<conn, route, gcList, inGc, stranded>>,
         NEW calls \in Seq(GoodCall), Then(t, calls), Well(calls),
         \A x \in Members(calls) :
           x.op \in {"Release", "AddEndpointGcList", "EndpointResetEnd"} /\ x.e = e,
         \A c \in Held(e) : Call("Release", c, e) \in Members(calls),
         \E x \in Members(calls) : x.op = "AddEndpointGcList" /\ x.e = e
  PROVE  Inv'
<1> DEFINE h == Head(stack[t])
           X == Members(calls)
<1>1. /\ Typed /\ stack \in [Thread -> Seq(GoodCall)] /\ conn \in [Conn -> ConnRecord]
      /\ ep \in [Endpoint -> EndpointRecord]
      /\ \A f \in Endpoint : IsFiniteSet(ep[f].data)
  BY TypedParts DEF Inv
<1>2. Tidy /\ BoundOrReleased /\ NewIsUnknown /\ RouteTended
  BY DEF Inv
<1>3. stack[t] # << >> /\ h.op = "EndpointReset" /\ h.e = e /\ h \in Pending
  BY <1>1, AtHead DEF At, E
<1>4. conn' \in [Conn -> ConnRecord] /\ BindingSame
  BY Unchanged
<1>5. /\ ep' \in [Endpoint -> EndpointRecord] /\ ep'[e].owner = ep[e].owner
      /\ ep'[e].ctrl = NoConn /\ ep'[e].data = {} /\ ep'[e].resetting
      /\ ep'[e].created = ep[e].created /\ \A f \in Endpoint : f # e => ep'[f] = ep[f]
  BY <1>1, ResetRecord
<1>6. Settled /\ PendingStep({h}, X)
  <2>1. \A x \in Members(calls) : x.op \notin NewOps
    BY DEF NewOps
  <2>2. \A i \in 1..Len(calls) : calls[i].op \in {"Release", "AddEndpointGcList", "EndpointResetEnd"}
    BY DEF Members
  <2>3. LockStep(t, calls)
    BY <1>5, <2>2 DEF LockStep, LockOps
  <2> QED BY <1>3, <2>1, <2>3, ThenSettled
<1>7. /\ Pending' \subseteq Pending \cup X /\ X \subseteq Pending' /\ Pending \subseteq Pending' \cup {h}
  BY <1>6 DEF PendingStep
<1> HIDE DEF h
<1>9. Held(e)' = {} /\ \A f \in Endpoint : f # e => Held(f)' = Held(f)
  BY <1>5 DEF Held
<1>10. Tidy'
  BY <1>2, <1>5, <1>9 DEF Tidy
<1>11. BoundOrReleased'
  <2>1. \A d, f : Released(d, f) => Released(d, f)'
    BY <1>3, <1>6, ReleasedKept
  <2>2. \A d \in Held(e) : Released(d, e)'
    BY <1>7 DEF Released
  <2>3. ASSUME NEW d \in Conn, conn[d].binding # NoEndpoint
        PROVE  d \in Held(conn[d].binding)' \/ Released(d, conn[d].binding)'
    <3>1. PICK f \in Endpoint : f = conn[d].binding
      BY <1>1, <2>3 DEF ConnRecord
    <3>2. d \in Held(f) \/ Released(d, f)
      BY <1>2, <2>3, <3>1 DEF BoundOrReleased
    <3>3. d \in Held(f)' \/ Released(d, f)'
      BY <1>9, <2>1, <2>2, <3>2
    <3>4. f = conn'[d].binding
      BY <3>1
    <3> QED BY <3>1, <3>3, <3>4
  <2> QED BY <2>3 DEF BoundOrReleased
<1>12. Known(e)
  BY <1>3 DEF Known, NewOps
<1>13. \A f \in Endpoint : Held(f)' \subseteq Held(f)
  BY <1>9
<1>14. NewIsUnknown'
  <2>1. \A f \in Endpoint :
           /\ ep'[f].created = ep[f].created /\ Held(f)' \subseteq Held(f)
           /\ ep'[f].resetting \/ route' = f \/ f \in gcList' => Known(f)
    <3> SUFFICES ASSUME NEW f \in Endpoint
                 PROVE  /\ ep'[f].created = ep[f].created
                        /\ ep'[f].resetting \/ route' = f \/ f \in gcList' => Known(f)
      BY <1>13
    <3>1. CASE f = e
      BY <1>5, <1>12, <3>1
    <3>2. CASE f # e
      BY <1>5, <3>2 DEF Known
    <3> QED BY <3>1, <3>2
  <2>2. \A d \in Conn : conn'[d].binding \in {conn[d].binding, NoEndpoint}
    OBVIOUS
  <2>3. \A x \in X : x.op \notin NewOps /\ (x.e \in Endpoint => Known(x.e))
    BY <1>12, EndpointAssumption DEF NewOps
  <2> QED BY <1>1, <1>2, <1>6, <2>1, <2>2, <2>3, UnknownKept
<1>15. RouteTended'
  <2> SUFFICES ASSUME NEW f \in Endpoint, route' = f
               PROVE  /\ ep'[f].resetting => Tended(f)'
                      /\ \/ Held(f)' # {} \/ Tended(f)'
                         \/ \E x \in Pending' : x.e = f /\ x.op \in {"EndpointReset", "AddToNew", "Bind"}
    BY DEF RouteTended
  <2>1. CASE f = e
    <3>1. Tended(e)'
      BY <1>7 DEF Tended
    <3> QED BY <2>1, <3>1
  <2>2. CASE f # e
    <3>1. Tended(f) => Tended(f)'
      BY <1>3, <1>7 DEF Tended
    <3> QED BY <1>2, <1>3, <1>5, <1>7, <1>9, <2>2, <3>1 DEF RouteTended
  <2> QED BY <2>1, <2>2
<1>17. \A f \in Endpoint : IsFiniteSet(ep'[f].data)
  BY <1>1, <1>5, FS_EmptySet
<1>18. /\ route' \in Endpoint \cup {NoEndpoint} /\ gcList' \subseteq Endpoint
       /\ inGc' \in BOOLEAN /\ stranded' \subseteq Endpoint /\ IsFiniteSet(gcList')
  BY <1>1, TypedParts
<1> QED BY <1>4, <1>5, <1>6, <1>10, <1>11, <1>14, <1>15, <1>17, <1>18, StepInv

\* Endpoint.Reset of an endpoint that is already being reset does nothing.
LEMMA ResetSkipped ==
  ASSUME Inv, NEW t \in Thread, At(t, "EndpointReset"), NEW e \in Endpoint, E(t) = e,
         ep[e].resetting, Then(t, << >>), UNCHANGED <<conn, ep, route, gcList, inGc, stranded>>
  PROVE  Inv'
<1> DEFINE h == Head(stack[t])
<1>1. /\ Typed /\ stack \in [Thread -> Seq(GoodCall)] /\ ep \in [Endpoint -> EndpointRecord]
      /\ RouteTended /\ gcList \subseteq Endpoint /\ IsFiniteSet(gcList)
      /\ inGc \in BOOLEAN /\ stranded \subseteq Endpoint
  BY TypedParts DEF Inv
<1>2. stack[t] # << >> /\ h.op = "EndpointReset" /\ h.e = e
  BY <1>1, AtHead DEF At, E
<1>3. PendingStep({h}, {})
  BY <1>1, <1>2, ThenPop
<1>4. Pending \subseteq Pending' \cup {h}
  BY <1>3 DEF PendingStep
<1>5. RouteTended'
  <2>1. \A f \in Endpoint : Held(f)' = Held(f)
    BY DEF Held
  <2>2. \A f \in Endpoint : Tended(f) => Tended(f)'
    BY <1>2, <1>4 DEF Tended
  <2>3. route = e => Tended(e)
    BY <1>1 DEF RouteTended
  <2> QED BY <1>1, <1>2, <1>4, <2>1, <2>2, <2>3 DEF RouteTended
<1>6. \A f \in gcList : Known(f)
  BY DEF Known
<1>7. \A f \in Endpoint : /\ ep'[f].ctrl = ep[f].ctrl /\ ep'[f].data = ep[f].data
                          /\ ep'[f].created = ep[f].created /\ ep'[f].owner = ep[f].owner
                          /\ ep'[f].resetting => ep[f].resetting
  OBVIOUS
<1> QED BY <1>1, <1>2, <1>5, <1>6, <1>7, QuietPop

\* Endpoint.Reset.
LEMMA EndpointResetKeeps ==
  ASSUME Inv, NEW t \in Thread, EndpointReset(t)
  PROVE  Inv'
<1>1. /\ Typed /\ stack \in [Thread -> Seq(GoodCall)] /\ ep \in [Endpoint -> EndpointRecord]
  BY TypedParts DEF Inv
<1>2. At(t, "EndpointReset") /\ UNCHANGED <<conn, route, gcList, inGc, stranded>>
  BY DEF EndpointReset
<1> DEFINE e == E(t)
           ctrl == IF ep[e].ctrl = NoConn THEN << >> ELSE <<ep[e].ctrl>>
           after == <<Call("AddEndpointGcList", NoConn, e), Call("EndpointResetEnd", NoConn, e)>>
<1>3. e \in Endpoint
  BY <1>1, <1>2, AtHead DEF EndpointOps
<1>4. CASE ep[e].resetting
  <2>1. Then(t, << >>) /\ UNCHANGED ep
    BY <1>4 DEF EndpointReset
  <2> QED BY <1>2, <1>3, <1>4, <2>1, ResetSkipped
<1>5. CASE ~ep[e].resetting
  <2>1. /\ ep' = [ep EXCEPT ![e].resetting = TRUE, ![e].ctrl = NoConn, ![e].data = {}]
        /\ ep[e].owner = Nobody
        /\ \E data \in SetToSeqs(ep[e].data) :
             Then(t, [i \in DOMAIN (ctrl \o data) |-> Call("Release", (ctrl \o data)[i], e)]
                     \o after)
    BY <1>5 DEF EndpointReset, Lockable
  <2>2. PICK data \in SetToSeqs(ep[e].data) :
          Then(t, [i \in DOMAIN (ctrl \o data) |-> Call("Release", (ctrl \o data)[i], e)]
                  \o after)
    BY <2>1
  <2> DEFINE s == ctrl \o data
             calls == ResetList(s, e)
  <2>3. Then(t, calls)
    BY <2>2 DEF ResetList
  <2>4. s \in Seq(Conn) /\ Members(s) = Held(e)
    BY <1>1, <1>3, HeldList
  <2>5. Held(e) \in SUBSET Conn
    BY <1>1, <1>3 DEF Held, EndpointRecord
  <2> HIDE DEF s, e
  <2>6. /\ calls \in Seq(GoodCall) /\ Well(calls)
        /\ \A x \in Members(calls) :
             x.op \in {"Release", "AddEndpointGcList", "EndpointResetEnd"} /\ x.e = e
        /\ \A c \in Held(e) : Call("Release", c, e) \in Members(calls)
        /\ \E x \in Members(calls) : x.op = "AddEndpointGcList" /\ x.e = e
    BY <1>3, <2>4, <2>5, ResetCalls
  <2>7. E(t) = e
    BY DEF e
  <2> HIDE DEF calls
  <2> QED BY <1>2, <1>3, <1>5, <2>1, <2>3, <2>6, <2>7, ResetTaken
<1> QED BY <1>4, <1>5

-----------------------------------------------------------------------------
(* A new endpoint.                                                         *)

\* The two calls about a new endpoint, of which no other call is.
LEMMA OnceFresh ==
  ASSUME stack \in [Thread -> Seq(GoodCall)], Once, NEW t \in Thread, stack[t] # << >>,
         NEW calls \in Seq(GoodCall), Then(t, calls), Len(calls) = 2,
         NEW e, calls[1].e = e, calls[2].e = e, calls[1].op # calls[2].op,
         \A x \in Pending : x.e # e
  PROVE  Once'
<1> DEFINE n == Len(calls)
<1>1. /\ n = 2 /\ Len(stack[t]) \in Nat \ {0} /\ Len(stack'[t]) = n + Len(stack[t]) - 1
      /\ \A u \in Thread : u # t => stack'[u] = stack[u]
      /\ \A i \in 1..n : stack'[t][i] = calls[i]
      /\ \A i \in (n + 1)..Len(stack'[t]) : stack'[t][i] = stack[t][i - n + 1]
  BY ThenStack
<1> HIDE DEF n
<1>2. \A u \in Thread : \A k \in 1..Len(stack[u]) : stack[u][k].e # e
  BY PendingCalls
<1>3. ASSUME NEW u \in Thread, NEW i \in 1..Len(stack'[u])
      PROVE  \/ u = t /\ i \in {1, 2} /\ stack'[u][i] = calls[i] /\ stack'[u][i].e = e
             \/ /\ stack'[u][i].e # e
                /\ \E k \in 1..Len(stack[u]) : /\ stack'[u][i] = stack[u][k]
                                               /\ k = IF u = t THEN i - 1 ELSE i
  <2>1. CASE u # t
    BY <1>1, <1>2, <2>1
  <2>2. CASE u = t /\ i \in 1..n
    <3>1. i \in {1, 2} /\ stack'[u][i] = calls[i]
      BY <1>1, <2>2
    <3> QED BY <2>2, <3>1
  <2>3. CASE u = t /\ i \notin 1..n
    <3>1. i \in (n + 1)..Len(stack'[t]) /\ i - n + 1 = i - 1 /\ i - 1 \in 1..Len(stack[t])
      BY <1>1, <2>3
    <3>2. stack'[u][i] = stack[u][i - 1]
      BY <1>1, <2>3, <3>1
    <3> QED BY <1>2, <2>3, <3>1, <3>2
  <2> QED BY <2>1, <2>2, <2>3
<1>4. ASSUME NEW u \in Thread, NEW v \in Thread,
             NEW i \in 1..Len(stack'[u]), NEW j \in 1..Len(stack'[v]),
             stack'[u][i].op \in NewOps, stack'[v][j].op = stack'[u][i].op,
             stack'[v][j].e = stack'[u][i].e
      PROVE  u = v /\ i = j
  <2>1. CASE stack'[u][i].e = e
    <3>1. u = t /\ i \in {1, 2} /\ stack'[u][i] = calls[i]
      BY <1>3, <2>1
    <3>2. v = t /\ j \in {1, 2} /\ stack'[v][j] = calls[j]
      BY <1>3, <1>4, <2>1
    <3> QED BY <1>4, <3>1, <3>2
  <2>2. CASE stack'[u][i].e # e
    <3>1. PICK k \in 1..Len(stack[u]) : stack'[u][i] = stack[u][k] /\ k = IF u = t THEN i - 1 ELSE i
      BY <1>3, <2>2
    <3>2. PICK m \in 1..Len(stack[v]) : stack'[v][j] = stack[v][m] /\ m = IF v = t THEN j - 1 ELSE j
      BY <1>3, <1>4, <2>2
    <3>3. stack[u][k].op \in NewOps /\ stack[v][m].op = stack[u][k].op /\ stack[v][m].e = stack[u][k].e
      BY <1>4, <3>1, <3>2
    <3>4. u = v /\ k = m
      BY ONLY <3>3, Once, u \in Thread, v \in Thread, k \in 1..Len(stack[u]), m \in 1..Len(stack[v])
         DEF Once
    <3>5. i \in Int /\ j \in Int
      OBVIOUS
    <3> QED BY ONLY <3>1, <3>2, <3>4, <3>5
  <2> QED BY <2>1, <2>2
<1> QED BY ONLY <1>4 DEF Once

\* An endpoint is made for a connection.
LEMMA EndpointMade ==
  ASSUME Inv, NEW t \in Thread, At(t, "MakeEndpoint"), NEW e \in Endpoint, ~ep[e].created,
         route = NoEndpoint, ep' = [ep EXCEPT ![e].created = TRUE],
         Then(t, <<Call("AddEndpoint", C(t), e), Call("AddToNew", C(t), e)>>),
         UNCHANGED <<conn, route, gcList, inGc, stranded>>
  PROVE  Inv'
<1> DEFINE h == Head(stack[t])
           c == C(t)
           a == Call("AddEndpoint", c, e)
           b == Call("AddToNew", c, e)
           calls == <<a, b>>
           X == Members(calls)
<1>1. /\ Typed /\ stack \in [Thread -> Seq(GoodCall)] /\ conn \in [Conn -> ConnRecord]
      /\ ep \in [Endpoint -> EndpointRecord]
      /\ \A f \in Endpoint : IsFiniteSet(ep[f].data)
  BY TypedParts DEF Inv
<1>2. Tidy /\ BoundOrReleased /\ NewIsUnknown /\ RouteTended /\ Once
  BY DEF Inv
<1>3. stack[t] # << >> /\ h.op = "MakeEndpoint" /\ c \in Conn
  BY <1>1, AtHead DEF At, ConnOps
<1> HIDE DEF c
<1>4. a \in GoodCall /\ a.op = "AddEndpoint" /\ a.c = c /\ a.e = e
  BY <1>3, CallGood DEF Ops, ConnOps, EndpointOps
<1>5. b \in GoodCall /\ b.op = "AddToNew" /\ b.c = c /\ b.e = e
  BY <1>3, CallGood DEF Ops, ConnOps, EndpointOps
<1>6. b = Call("AddToNew", a.c, a.e) /\ Then(t, calls)
  BY <1>4 DEF c
<1> HIDE DEF a, b
<1>7. /\ calls \in Seq(GoodCall) /\ Len(calls) = 2 /\ calls[1] = a /\ calls[2] = b
      /\ Members(calls) = {a, b}
  BY <1>4, <1>5, ShortLists
<1> HIDE DEF calls, h, X
<1>8. Well(calls)
  <2>1. \A i \in 1..Len(calls) : (i = 1 /\ calls[i] = a) \/ (i = 2 /\ calls[i] = b)
    BY <1>7
  <2>2. 1 + 1 \in 1..Len(calls) /\ calls[1 + 1] = b
    BY <1>7
  <2> QED BY <1>4, <1>5, <1>6, <2>1, <2>2 DEF Well, LockOps
<1>9. stack' \in [Thread -> Seq(GoodCall)] /\ Placed' /\ PendingStep({h}, X)
  BY <1>3, <1>6, <1>7, <1>8, PlacedThen DEF h, X
<1>10. ~Known(e) /\ \A x \in Pending : x.e # e
  BY <1>2 DEF NewIsUnknown
<1>11. Once'
  <2>1. calls[1].e = e /\ calls[2].e = e /\ calls[1].op # calls[2].op
    BY <1>4, <1>5, <1>7
  <2>2. /\ stack \in [Thread -> Seq(GoodCall)] /\ Once /\ t \in Thread /\ stack[t] # << >>
        /\ calls \in Seq(GoodCall) /\ Then(t, calls) /\ Len(calls) = 2
        /\ calls[1].e = e /\ calls[2].e = e /\ calls[1].op # calls[2].op
        /\ \A x \in Pending : x.e # e
    BY <1>1, <1>2, <1>3, <1>6, <1>7, <1>10, <2>1
  <2> QED BY ONLY <2>2, OnceFresh
<1>12. /\ ep' \in [Endpoint -> EndpointRecord] /\ ep'[e].created
       /\ \A f \in Endpoint : /\ ep'[f].ctrl = ep[f].ctrl /\ ep'[f].data = ep[f].data
                              /\ ep'[f].resetting = ep[f].resetting /\ ep'[f].owner = ep[f].owner
                              /\ f # e => ep'[f].created = ep[f].created
  BY <1>1 DEF EndpointRecord
<1>13. \A x \in X : x.e = e /\ x.op \in NewOps /\ x.op \notin LockOps
  BY <1>4, <1>5, <1>7 DEF NewOps, LockOps, X
<1>14. Locked'
  <2>1. \A i \in 1..Len(calls) : calls[i].op \notin LockOps
    BY <1>13 DEF X, Members
  <2>2. LockStep(t, calls)
    BY <1>12, <2>1 DEF LockStep
  <2> QED BY <1>3, <1>6, <1>7, <2>2, LockedThen
<1>15. Settled
  BY <1>9, <1>11, <1>14 DEF Settled
<1>16. /\ Tidy' /\ BoundOrReleased' /\ \A f \in Endpoint : Held(f)' = Held(f)
  <2>1. \A g \in {h} : g.op # "Release"
    BY <1>3
  <2>2. \A f \in Endpoint : /\ ep'[f].ctrl = ep[f].ctrl /\ ep'[f].data = ep[f].data
                            /\ ep'[f].resetting => ep[f].resetting
    BY <1>12
  <2>3. BindingSame
    BY DEF BindingSame
  <2> QED BY <1>1, <1>2, <1>9, <2>1, <2>2, <2>3, QuietStep
<1>17. Pending' \subseteq Pending \cup X
  BY <1>9 DEF PendingStep
<1>18. NewIsUnknown'
  <2>1. \A f \in Endpoint : Known(f)' => Known(f)
    <3> SUFFICES ASSUME NEW f \in Endpoint, Known(f)' PROVE Known(f)
      OBVIOUS
    <3>1. CASE \E x \in Pending' : x.e = f /\ x.op \notin NewOps
      BY <1>13, <1>17, <3>1 DEF Known
    <3>2. CASE ~\E x \in Pending' : x.e = f /\ x.op \notin NewOps
      BY <1>12, <1>16, <3>2 DEF Known
    <3> QED BY <3>1, <3>2
  <2>2. \A f \in Endpoint : ~ep'[f].created => ~Known(f)' /\ \A x \in Pending' : x.e # f
    BY <1>2, <1>12, <1>13, <1>17, <2>1 DEF NewIsUnknown
  <2>3. \A x \in Pending : x.op = "AddEndpoint" => x.e \in Endpoint
    BY <1>1, PendingCalls DEF GoodCall, EndpointOps
  <2>4. \A x \in Pending' : x.op = "AddEndpoint" => ~Known(x.e)'
    BY <1>2, <1>10, <1>13, <1>17, <2>1, <2>3 DEF NewIsUnknown
  <2> QED BY <2>2, <2>4 DEF NewIsUnknown
<1>19. RouteTended'
  BY EndpointAssumption DEF RouteTended
<1>20. /\ route' \in Endpoint \cup {NoEndpoint} /\ gcList' \subseteq Endpoint
       /\ inGc' \in BOOLEAN /\ stranded' \subseteq Endpoint /\ IsFiniteSet(gcList')
       /\ conn' \in [Conn -> ConnRecord]
       /\ \A f \in Endpoint : IsFiniteSet(ep'[f].data)
  BY <1>1, <1>12, TypedParts
<1> QED BY <1>12, <1>15, <1>16, <1>18, <1>19, <1>20, StepInv

\* acceptNodeRegistrationStepMakeEndpoint.
LEMMA MakeEndpointKeeps ==
  ASSUME Inv, NEW t \in Thread, MakeEndpoint(t)
  PROVE  Inv'
<1> DEFINE c == C(t)
<1>1. /\ At(t, "MakeEndpoint") /\ UNCHANGED <<conn, route, gcList, inGc, stranded>>
      /\ \/ \E f \in {conn[c].binding, route}, op \in {"Refuse", "DataChannel", "AddToKnown"} :
              /\ op # "Refuse" => f # NoEndpoint
              /\ Then(t, <<Call(op, c, f)>>) /\ UNCHANGED ep
         \/ /\ route = NoEndpoint
            /\ \E e \in Endpoint :
                 /\ ~ep[e].created /\ ep' = [ep EXCEPT ![e].created = TRUE]
                 /\ Then(t, <<Call("AddEndpoint", c, e), Call("AddToNew", c, e)>>)
  BY DEF MakeEndpoint
<1>2. /\ Typed /\ stack \in [Thread -> Seq(GoodCall)] /\ conn \in [Conn -> ConnRecord]
      /\ route \in Endpoint \cup {NoEndpoint}
  BY TypedParts DEF Inv
<1>3. /\ stack[t] # << >> /\ Head(stack[t]).op = "MakeEndpoint" /\ c \in Conn
  BY <1>1, <1>2, AtHead DEF At, ConnOps
<1>4. CalmReturn(Head(stack[t]))
  BY <1>3 DEF CalmReturn
<1>5. ASSUME NEW e \in Endpoint, route = NoEndpoint, ~ep[e].created,
             ep' = [ep EXCEPT ![e].created = TRUE],
             Then(t, <<Call("AddEndpoint", c, e), Call("AddToNew", c, e)>>)
      PROVE  Inv'
  BY <1>1, <1>5, EndpointMade
<1>6. ASSUME NEW f \in {conn[c].binding, route}, NEW op \in {"Refuse", "DataChannel", "AddToKnown"},
             op # "Refuse" => f # NoEndpoint, Then(t, <<Call(op, c, f)>>), UNCHANGED ep
      PROVE  Inv'
  <2> HIDE DEF c
  <2> DEFINE a == Call(op, c, f)
  <2>1. Calm /\ OthersKeep(t)
    BY <1>1, <1>6, Unchanged DEF Calm
  <2>2. f \in Endpoint \cup {NoEndpoint}
    BY <1>2, <1>3 DEF ConnRecord
  <2>3. f \in Endpoint => Known(f)
    BY <1>3, KnownEndpoint DEF Known
  <2>4. op \in Ops /\ (op \in EndpointOps => f \in Endpoint)
    BY <1>6, <2>2 DEF Ops, EndpointOps
  <2>5. a \in GoodCall /\ a.op = op /\ a.e = f
    BY <1>3, <2>2, <2>4, CallGood
  <2> HIDE DEF a
  <2>6. CalmCall(a) /\ a.op \notin LockOps
    BY <2>3, <2>5 DEF CalmCall, NewOps, LockOps
  <2>7. Then(t, <<a>>)
    BY <1>6 DEF a
  <2> QED BY <1>3, <1>4, <2>1, <2>5, <2>6, <2>7, CalmOne
<1> QED BY <1>1, <1>5, <1>6

\* A call about a new endpoint is not made a second time.
LEMMA NewOnce ==
  ASSUME Inv, NEW t \in Thread, stack[t] # << >>, Head(stack[t]).op \in NewOps, Then(t, << >>)
  PROVE  \A x \in Pending' : ~(x.op = Head(stack[t]).op /\ x.e = Head(stack[t]).e)
<1> DEFINE h == Head(stack[t])
           calls == << >>
<1>1. stack \in [Thread -> Seq(GoodCall)] /\ Once
  BY DEF Inv, Typed
<1>2. calls \in Seq(GoodCall) /\ Len(calls) = 0 /\ Then(t, calls)
  OBVIOUS
<1> HIDE DEF calls
<1>3. /\ stack' \in [Thread -> Seq(GoodCall)]
      /\ \A u \in Thread : u # t => stack'[u] = stack[u]
      /\ Len(stack'[t]) = Len(calls) + Len(stack[t]) - 1 /\ Len(stack[t]) \in Nat \ {0}
      /\ \A i \in (Len(calls) + 1)..Len(stack'[t]) : stack'[t][i] = stack[t][i - Len(calls) + 1]
      /\ h = stack[t][1]
  BY <1>1, <1>2, ThenStack
<1>4. h.op \in NewOps
  OBVIOUS
<1> HIDE DEF h
<1>5. \A i \in 1..Len(stack'[t]) : i + 1 \in 2..Len(stack[t]) /\ stack'[t][i] = stack[t][i + 1]
  <2> SUFFICES ASSUME NEW i \in 1..Len(stack'[t])
               PROVE  i + 1 \in 2..Len(stack[t]) /\ stack'[t][i] = stack[t][i + 1]
    OBVIOUS
  <2>1. i \in (Len(calls) + 1)..Len(stack'[t]) /\ i - Len(calls) + 1 = i + 1
        /\ i + 1 \in 2..Len(stack[t])
    BY <1>2, <1>3
  <2> QED BY <1>3, <2>1
<1> SUFFICES ASSUME NEW x \in Pending', x.op = h.op, x.e = h.e PROVE FALSE
  BY DEF h
<1>6. PICK u \in Thread : \E i \in 1..Len(stack'[u]) : x = stack'[u][i]
  <2>1. \A u \in Thread : DOMAIN stack'[u] = 1..Len(stack'[u])
    BY <1>3
  <2> QED BY <2>1 DEF Pending
<1>7. PICK i \in 1..Len(stack'[u]) : x = stack'[u][i]
  BY <1>6
<1>8. PICK k \in 1..Len(stack[u]) : x = stack[u][k] /\ ~(u = t /\ k = 1)
  <2>1. CASE u = t
    <3>1. i + 1 \in 2..Len(stack[t]) /\ x = stack[t][i + 1]
      BY <1>5, <1>7, <2>1
    <3>2. i + 1 \in 1..Len(stack[t]) /\ i + 1 # 1
      BY <1>3, <3>1
    <3> QED BY <2>1, <3>1, <3>2
  <2>2. CASE u # t
    BY <1>3, <1>7, <2>2
  <2> QED BY <2>1, <2>2
<1>9. 1 \in 1..Len(stack[t])
  BY <1>3
<1> QED BY <1>1, <1>3, <1>4, <1>8, <1>9 DEF Once

\* The call that comes after AddEndpoint.
LEMMA NewNext ==
  ASSUME Inv, NEW u \in Thread, NEW i \in 1..Len(stack[u]), stack[u][i].op = "AddEndpoint"
  PROVE  /\ i + 1 \in 1..Len(stack[u])
         /\ stack[u][i + 1].op = "AddToNew" /\ stack[u][i + 1].e = stack[u][i].e
<1>1. i + 1 \in 1..Len(stack[u]) /\ stack[u][i + 1] = Call("AddToNew", stack[u][i].c, stack[u][i].e)
  BY DEF Inv, Placed, Well
<1> QED BY <1>1 DEF Call

\* AddEndpoint: the endpoint is in the routes, and AddToNew comes next.
LEMMA AddEndpointKeeps ==
  ASSUME Inv, NEW t \in Thread, AddEndpoint(t)
  PROVE  Inv'
<1> DEFINE h == Head(stack[t])
           e == E(t)
<1>0. /\ At(t, "AddEndpoint") /\ route' = e /\ Then(t, << >>)
      /\ UNCHANGED <<conn, ep, gcList, inGc, stranded>>
  BY DEF AddEndpoint
<1>1. /\ Typed /\ stack \in [Thread -> Seq(GoodCall)] /\ conn \in [Conn -> ConnRecord]
      /\ ep \in [Endpoint -> EndpointRecord]
      /\ \A f \in Endpoint : IsFiniteSet(ep[f].data)
  BY TypedParts DEF Inv
<1>2. Tidy /\ BoundOrReleased /\ NewIsUnknown /\ RouteTended
  BY DEF Inv
<1>3. /\ stack[t] # << >> /\ h.op = "AddEndpoint" /\ h.e = e /\ h \in Pending /\ e \in Endpoint
  BY <1>0, <1>1, AtHead DEF At, E, EndpointOps
<1> HIDE DEF e
<1>4. 1 \in 1..Len(stack[t]) /\ h = stack[t][1]
  BY <1>1, <1>3
<1>5. \A x \in Pending' : x.op = "AddEndpoint" => x.e # e
  <2>1. h.op \in NewOps
    BY <1>3 DEF NewOps
  <2>2. \A x \in Pending' : ~(x.op = h.op /\ x.e = h.e)
    BY <1>0, <1>3, <2>1, NewOnce
  <2> QED BY <1>3, <2>2
<1>6. OthersKeep(t)
  BY <1>0, Unchanged
<1> DEFINE X == {}
<1>7. Settled /\ PendingStep({h}, X)
  BY <1>0, <1>3, <1>6, PlainNone
<1>8. \A x \in X : FALSE
  OBVIOUS
<1> HIDE DEF h, X
<1>9. PICK b \in Pending : b.op = "AddToNew" /\ b.e = e
  <2>1. PICK i \in 1..Len(stack[t]) : i = 1
    BY <1>4
  <2>2. stack[t][i].op = "AddEndpoint" /\ stack[t][i].e = e
    BY <1>3, <1>4, <2>1
  <2>3. i + 1 \in 1..Len(stack[t]) /\ stack[t][i + 1].op = "AddToNew" /\ stack[t][i + 1].e = e
    BY <2>2, NewNext
  <2> QED BY <1>1, <2>3, PendingCalls
<1>10. Pending' \subseteq Pending /\ Pending \subseteq Pending' \cup {h}
  BY <1>7, <1>8 DEF PendingStep
<1>11. b \in Pending'
  BY <1>3, <1>9, <1>10
<1>12. ~Known(e) /\ ep[e].created
  BY <1>2, <1>3 DEF NewIsUnknown
<1>13. Tidy' /\ BoundOrReleased' /\ \A f \in Endpoint : Held(f)' = Held(f)
  <2>1. \A f \in Endpoint : /\ ep'[f].ctrl = ep[f].ctrl /\ ep'[f].data = ep[f].data
                            /\ ep'[f].resetting => ep[f].resetting
    BY <1>0
  <2>2. \A g \in {h} : g.op # "Release"
    BY <1>3
  <2>3. BindingSame
    BY <1>0 DEF BindingSame
  <2> QED BY <1>1, <1>2, <1>7, <2>1, <2>2, <2>3, QuietStep
<1>14. NewIsUnknown'
  <2> DEFINE N == {e}
  <2>1. \A f \in Endpoint :
          /\ ep'[f].created = ep[f].created
          /\ f \in N => ep[f].created
          /\ f \notin N =>
               /\ Held(f)' \subseteq Held(f)
               /\ ep'[f].resetting \/ route' = f \/ f \in gcList' => Known(f)
    BY <1>0, <1>12, <1>13 DEF Known
  <2>2. \A d \in Conn : conn'[d].binding \in {conn[d].binding, NoEndpoint} \cup N
    BY <1>0
  <2>3. \A x \in Pending' : x.op = "AddEndpoint" => x.e \notin N
    BY <1>5
  <2> HIDE DEF N
  <2> QED BY <1>1, <1>2, <1>7, <1>8, <2>1, <2>2, <2>3, UnknownBut
<1>15. RouteTended'
  <2>1. ~ep'[e].resetting
    BY <1>0, <1>12 DEF Known
  <2> QED BY <1>0, <1>9, <1>11, <2>1 DEF RouteTended
<1>16. /\ route' \in Endpoint \cup {NoEndpoint} /\ gcList' \subseteq Endpoint
       /\ inGc' \in BOOLEAN /\ stranded' \subseteq Endpoint /\ IsFiniteSet(gcList')
       /\ conn' \in [Conn -> ConnRecord]
       /\ ep' \in [Endpoint -> EndpointRecord] /\ \A f \in Endpoint : IsFiniteSet(ep'[f].data)
  BY <1>0, <1>1, <1>3, TypedParts
<1> QED BY <1>7, <1>13, <1>14, <1>15, <1>16, StepInv

-----------------------------------------------------------------------------
(* Endpoint.AddConnection.                                                 *)

\* The three callers of AddConnection.
AddOps == {"AddToKnown", "AddToNew", "AddData"}

\* What follows when the connection is taken.
AddListed(calls, rest, c, e) ==
  /\ calls \in Seq(GoodCall) /\ Well(calls)
  /\ \A x \in Members(calls) : x.e = e /\ x.op \in {"Bind", "Promote", "DataChannel"}
  /\ rest = << >> => \A x \in Members(calls) : x.op = "DataChannel"
  /\ rest = <<Call("Bind", c, e)>> => Call("Bind", c, e) \in Members(calls)
LEMMA AddList ==
  ASSUME NEW c \in Conn, NEW e \in Endpoint,
         NEW rest \in {<< >>, <<Call("Promote", c, e)>>, <<Call("Bind", c, e)>>},
         NEW next \in {<< >>, <<Call("DataChannel", c, e)>>}
  PROVE  AddListed(rest \o next, rest, c, e)
<1> DEFINE p == Call("Promote", c, e)
           b == Call("Bind", c, e)
           d == Call("DataChannel", c, e)
           calls == rest \o next
<1>1. p \in GoodCall /\ p.op = "Promote" /\ p.e = e
  BY CallGood DEF Ops, ConnOps, EndpointOps
<1>2. b \in GoodCall /\ b.op = "Bind" /\ b.e = e
  BY CallGood DEF Ops, ConnOps, EndpointOps
<1>3. d \in GoodCall /\ d.op = "DataChannel" /\ d.e = e
  BY CallGood DEF Ops, ConnOps, EndpointOps
<1>4. rest \in {<< >>, <<p>>, <<b>>} /\ next \in {<< >>, <<d>>}
  OBVIOUS
<1> HIDE DEF p, b, d
<1>5. /\ rest \in Seq(GoodCall) /\ Len(rest) \in {0, 1}
      /\ Members(rest) \subseteq {p, b} /\ (rest = << >> => Members(rest) = {})
      /\ rest = <<b>> => b \in Members(rest)
  <2>1. CASE rest = << >>
    BY <2>1, ShortLists
  <2>2. CASE rest = <<p>>
    BY <1>1, <2>2, ShortLists
  <2>3. CASE rest = <<b>>
    BY <1>2, <2>3, ShortLists
  <2> QED BY <1>4, <2>1, <2>2, <2>3
<1>6. next \in Seq(GoodCall) /\ Members(next) \subseteq {d}
  <2>1. CASE next = << >>
    BY <2>1, ShortLists
  <2>2. CASE next = <<d>>
    BY <1>3, <2>2, ShortLists
  <2> QED BY <1>4, <2>1, <2>2
<1>7. /\ calls \in Seq(GoodCall) /\ Members(calls) = Members(rest) \cup Members(next)
      /\ Len(calls) = Len(rest) + Len(next)
      /\ \A i \in (Len(rest) + 1)..(Len(rest) + Len(next)) : calls[i] = next[i - Len(rest)]
  BY <1>5, <1>6, ConcatRange, ConcatAt
<1> HIDE DEF calls
<1>8. \A x \in Members(calls) : x.e = e /\ x.op \in {"Bind", "Promote", "DataChannel"}
  BY <1>1, <1>2, <1>3, <1>5, <1>6, <1>7
<1>9. ASSUME NEW i \in 1..Len(calls), i # 1 PROVE calls[i] = d
  <2>1. PICK m \in {0, 1}, n \in Nat : m = Len(rest) /\ n = Len(next)
    BY <1>5, <1>6
  <2>2. i \in 1..(m + n) /\ i # 1
    BY <1>7, <1>9, <2>1
  <2>3. i \in (m + 1)..(m + n) /\ i - m \in 1..n
    BY ONLY <2>2, m \in {0, 1}, n \in Nat
  <2>4. calls[i] \in Members(next)
    BY <1>7, <2>1, <2>3 DEF Members
  <2> QED BY <1>6, <2>4
<1>10. Well(calls)
  <2>1. \A i \in 1..Len(calls) : calls[i].op \in {"Bind", "Promote", "DataChannel"}
    BY <1>8 DEF Members
  <2>2. \A i \in 1..Len(calls) : calls[i].op \in LockOps => i = 1
    BY <1>3, <1>9 DEF LockOps
  <2> QED BY <2>1, <2>2 DEF Well
<1>11. /\ rest = << >> => \A x \in Members(calls) : x.op = "DataChannel"
       /\ rest = <<b>> => b \in Members(calls)
  BY <1>3, <1>5, <1>6, <1>7
<1>12. AddListed(calls, rest, c, e)
  BY <1>7, <1>8, <1>10, <1>11 DEF AddListed, b
<1> QED BY <1>12 DEF calls

\* An endpoint that a connection is about to be released from will be queued.
LEMMA ReleasedTended ==
  ASSUME Inv, NEW c, NEW e, Released(c, e)
  PROVE  \E x \in Pending : x.op = "AddEndpointGcList" /\ x.e = e
<1>1. stack \in [Thread -> Seq(GoodCall)] /\ Placed
  BY DEF Inv, Typed
<1> DEFINE r == Call("Release", c, e)
<1>2. PICK u \in Thread : \E i \in 1..Len(stack[u]) : r = stack[u][i]
  BY <1>1, PendingCalls DEF Released
<1>3. PICK i \in 1..Len(stack[u]) : r = stack[u][i]
  BY <1>2
<1>4. r.op = "Release" /\ r.e = e
  BY DEF Call
<1> HIDE DEF r
<1>5. PICK j \in (i + 1)..Len(stack[u]) : stack[u][j] = Call("AddEndpointGcList", NoConn, e)
  BY <1>1, <1>3, <1>4 DEF Placed, Well
<1>6. j \in 1..Len(stack[u])
  BY <1>1
<1>7. stack[u][j] \in Pending
  BY <1>1, <1>6, PendingCalls
<1> QED BY <1>5, <1>7 DEF Call

\* No endpoint that a connection is being added to has yet to be put in the routes.
LEMMA NotAgain ==
  ASSUME Inv, NEW t \in Thread, NEW op \in AddOps, At(t, op)
  PROVE  /\ \A x \in Pending : x.op = "AddEndpoint" => x.e # E(t)
         /\ ep[E(t)].created
<1> DEFINE h == Head(stack[t])
           e == E(t)
<1>1. stack \in [Thread -> Seq(GoodCall)] /\ NewIsUnknown /\ Once
  BY DEF Inv, Typed
<1>2. /\ stack[t] # << >> /\ h.op = op /\ h.e = e /\ h \in Pending /\ e \in Endpoint
  BY <1>1, AtHead DEF At, E, EndpointOps, AddOps
<1>3. 1 \in 1..Len(stack[t]) /\ h = stack[t][1]
  BY <1>1, <1>2
<1>4. ep[e].created
  BY <1>1, <1>2 DEF NewIsUnknown
<1> HIDE DEF h, e
<1>5. CASE op # "AddToNew"
  <2>1. h.op \notin NewOps
    BY <1>2, <1>5 DEF NewOps, AddOps
  <2>2. Known(e)
    BY <1>2, <2>1, KnownEndpoint, ZenonT(60)
  <2> QED BY <1>1, <1>4, <2>2 DEF NewIsUnknown, e
<1>6. CASE op = "AddToNew"
  <2> SUFFICES ASSUME NEW x \in Pending, x.op = "AddEndpoint", x.e = e PROVE FALSE
    BY <1>4 DEF e
  <2>1. PICK u \in Thread : \E i \in 1..Len(stack[u]) : x = stack[u][i]
    BY <1>1, PendingCalls
  <2>2. PICK i \in 1..Len(stack[u]) : x = stack[u][i]
    BY <2>1
  <2>3. /\ i + 1 \in 1..Len(stack[u])
        /\ stack[u][i + 1].op = "AddToNew" /\ stack[u][i + 1].e = e
    BY <2>2, NewNext
  <2>4. "AddToNew" \in NewOps
    BY DEF NewOps
  <2>5. i + 1 = 1
    BY <1>1, <1>2, <1>3, <1>6, <2>3, <2>4 DEF Once
  <2>6. i \in 1..Len(stack[u]) /\ Len(stack[u]) \in Nat
    BY <1>1
  <2> QED BY ONLY <2>5, <2>6
<1> QED BY <1>5, <1>6 DEF AddOps

\* The connection is taken, and the mutex with it if more is to be done.
LEMMA AddTaken ==
  ASSUME Inv, NEW t \in Thread, NEW op \in AddOps, At(t, op), NEW c \in Conn, NEW e \in Endpoint,
         C(t) = c, E(t) = e, ep[e].owner = Nobody, ~ep[e].resetting,
         NEW rest \in {<< >>, <<Call("Promote", c, e)>>, <<Call("Bind", c, e)>>},
         rest = <<Call("Bind", c, e)>> \/ conn[c].binding = e,
         NEW next \in {<< >>, <<Call("DataChannel", c, e)>>},
         ep' = [ep EXCEPT ![e].owner = IF rest = << >> THEN Nobody ELSE t], Then(t, rest \o next),
         UNCHANGED <<conn, route, gcList, inGc, stranded>>
  PROVE  Inv'
<1> DEFINE h == Head(stack[t])
           calls == rest \o next
           X == Members(calls)
           b == Call("Bind", c, e)
<1>1. /\ Typed /\ stack \in [Thread -> Seq(GoodCall)] /\ conn \in [Conn -> ConnRecord]
      /\ ep \in [Endpoint -> EndpointRecord]
      /\ \A f \in Endpoint : IsFiniteSet(ep[f].data)
  BY TypedParts DEF Inv
<1>2. Tidy /\ BoundOrReleased /\ NewIsUnknown /\ RouteTended
  BY DEF Inv
<1>3. stack[t] # << >> /\ h.op = op /\ h.e = e
  BY DEF At, E
<1>4. /\ calls \in Seq(GoodCall) /\ Well(calls)
      /\ \A x \in Members(calls) : x.e = e /\ x.op \in {"Bind", "Promote", "DataChannel"}
      /\ rest = << >> => \A x \in Members(calls) : x.op = "DataChannel"
      /\ rest = <<b>> => b \in Members(calls)
  <2>1. AddListed(rest \o next, rest, c, e)
    BY AddList
  <2> QED BY <2>1 DEF AddListed
<1>5. Then(t, calls) /\ b.op = "Bind" /\ b.e = e
  BY DEF Call
<1> HIDE DEF calls, b, h
<1>6. PICK v \in Thread \cup {Nobody} : v = IF rest = << >> THEN Nobody ELSE t
  OBVIOUS
<1>7. ep' = [ep EXCEPT ![e].owner = v] /\ ep[e].owner \in {t, Nobody}
  BY <1>6
<1>8. ep' \in [Endpoint -> EndpointRecord] /\ HeldSame /\ OthersKeep(t) /\ ep'[e].owner = v
  BY <1>1, <1>7, EndpointOwner
<1>9. LockStep(t, calls)
  <2> SUFFICES ASSUME NEW i \in 1..Len(calls), calls[i].op \in LockOps
               PROVE  /\ ep'[calls[i].e].owner = t
                      /\ calls[i].op = "Bind" => ~ep'[calls[i].e].resetting
    BY <1>8 DEF LockStep, OthersKeep
  <2>1. calls[i] \in Members(calls)
    BY DEF Members
  <2>2. calls[i].e = e /\ rest # << >>
    BY <1>4, <2>1 DEF LockOps
  <2>3. ep'[e].owner = t /\ ~ep'[e].resetting
    BY <1>6, <1>8, <2>2 DEF HeldSame
  <2> QED BY <2>2, <2>3
<1>10. \A x \in Members(calls) : x.op \notin NewOps
  BY <1>4 DEF NewOps
<1>11. Settled /\ PendingStep({h}, X)
  BY <1>3, <1>4, <1>5, <1>9, <1>10, ThenSettled DEF h
<1>12. /\ \A x \in X : x.op \notin NewOps /\ x.e = e
       /\ rest = <<b>> => b \in X
  BY <1>4, <1>10
<1> HIDE DEF X
<1>13. /\ Pending' \subseteq Pending \cup X /\ X \subseteq Pending' /\ Pending \subseteq Pending' \cup {h}
  BY <1>11 DEF PendingStep
<1>14. Tidy' /\ BoundOrReleased' /\ \A f \in Endpoint : Held(f)' = Held(f)
  <2>1. \A f \in Endpoint : /\ ep'[f].ctrl = ep[f].ctrl /\ ep'[f].data = ep[f].data
                            /\ ep'[f].resetting => ep[f].resetting
    BY <1>8 DEF HeldSame
  <2>2. \A g \in {h} : g.op # "Release"
    BY <1>3 DEF AddOps
  <2>3. BindingSame
    BY DEF BindingSame
  <2> QED BY <1>1, <1>2, <1>11, <2>1, <2>2, <2>3, QuietStep
<1>15. NewIsUnknown'
  <2> DEFINE N == {e}
  <2>1. (\A x \in Pending : x.op = "AddEndpoint" => x.e # e) /\ ep[e].created
    BY NotAgain
  <2>2. \A f \in Endpoint :
          /\ ep'[f].created = ep[f].created
          /\ f \in N => ep[f].created
          /\ f \notin N =>
               /\ Held(f)' \subseteq Held(f)
               /\ ep'[f].resetting \/ route' = f \/ f \in gcList' => Known(f)
    BY <1>8, <1>14, <2>1 DEF Known, HeldSame
  <2>3. \A d \in Conn : conn'[d].binding \in {conn[d].binding, NoEndpoint} \cup N
    OBVIOUS
  <2>4. "AddEndpoint" \in NewOps
    BY DEF NewOps
  <2>5. \A x \in Pending' : x.op = "AddEndpoint" => x.e \notin N
    BY <1>12, <1>13, <2>1, <2>4
  <2>6. \A x \in X : x.op \notin NewOps /\ (x.e \in Endpoint /\ x.e \notin N => Known(x.e))
    BY <1>12
  <2> HIDE DEF N
  <2> QED BY <1>1, <1>2, <1>11, <2>2, <2>3, <2>5, <2>6, UnknownBut
<1>16. RouteTended'
  <2> SUFFICES ASSUME NEW f \in Endpoint, route' = f
               PROVE  /\ ep'[f].resetting => Tended(f)'
                      /\ \/ Held(f)' # {} \/ Tended(f)'
                         \/ \E x \in Pending' : x.e = f /\ x.op \in {"EndpointReset", "AddToNew", "Bind"}
    BY DEF RouteTended
  <2>1. Tended(f) => Tended(f)'
    BY <1>3, <1>13 DEF Tended, AddOps
  <2>2. ep'[f].resetting = ep[f].resetting
    BY <1>8 DEF HeldSame
  <2>3. CASE f # e
    BY <1>2, <1>3, <1>13, <1>14, <2>1, <2>2, <2>3 DEF RouteTended
  <2>4. CASE f = e /\ rest = <<b>>
    BY <1>5, <1>12, <1>13, <2>2, <2>4
  <2>5. CASE f = e /\ conn[c].binding = e
    <3>1. c \in Held(e) \/ Released(c, e)
      BY <1>2, <2>5, EndpointAssumption DEF BoundOrReleased
    <3>2. CASE c \in Held(e)
      BY <1>14, <2>2, <2>5, <3>2
    <3>3. CASE Released(c, e)
      <4>1. Tended(e)
        BY <3>3, ReleasedTended DEF Tended
      <4> QED BY <2>1, <2>2, <2>5, <4>1
    <3> QED BY <3>1, <3>2, <3>3
  <2> QED BY <2>3, <2>4, <2>5 DEF b
<1>17. /\ route' \in Endpoint \cup {NoEndpoint} /\ gcList' \subseteq Endpoint
       /\ inGc' \in BOOLEAN /\ stranded' \subseteq Endpoint /\ IsFiniteSet(gcList')
       /\ conn' \in [Conn -> ConnRecord]
       /\ \A f \in Endpoint : IsFiniteSet(ep'[f].data)
  BY <1>1, <1>8, TypedParts DEF HeldSame
<1> QED BY <1>8, <1>11, <1>14, <1>15, <1>16, <1>17, StepInv

\* The connection is not taken.
LEMMA AddRefused ==
  ASSUME Inv, NEW t \in Thread, NEW op \in AddOps, At(t, op), NEW e \in Endpoint, E(t) = e,
         NEW a \in GoodCall, a.e = e, a.op \in {"Refuse", "DataChannel", "AddEndpointGcList"},
         Then(t, <<a>>), stranded' = IF op = "AddToNew" THEN stranded \cup {e} ELSE stranded,
         UNCHANGED <<conn, ep, route, gcList, inGc>>
  PROVE  Inv'
<1> DEFINE h == Head(stack[t])
           X == {a}
<1>1. /\ Typed /\ stack \in [Thread -> Seq(GoodCall)] /\ conn \in [Conn -> ConnRecord]
      /\ ep \in [Endpoint -> EndpointRecord] /\ stranded \subseteq Endpoint
      /\ \A f \in Endpoint : IsFiniteSet(ep[f].data)
  BY TypedParts DEF Inv
<1>2. Tidy /\ BoundOrReleased /\ NewIsUnknown /\ RouteTended
  BY DEF Inv
<1>3. stack[t] # << >> /\ h.op = op /\ h.e = e
  BY DEF At, E
<1>4. Plain(a)
  BY DEF Plain, NewOps, LockOps
<1>5. OthersKeep(t)
  BY Unchanged
<1>6. Settled /\ PendingStep({h}, X)
  BY <1>3, <1>4, <1>5, PlainOne
<1>7. \A x \in X : x.op \notin NewOps /\ x.e = e
  BY <1>4 DEF Plain
<1> HIDE DEF X, h
<1>8. /\ Pending' \subseteq Pending \cup X /\ X \subseteq Pending' /\ Pending \subseteq Pending' \cup {h}
  BY <1>6 DEF PendingStep
<1>9. Tidy' /\ BoundOrReleased' /\ \A f \in Endpoint : Held(f)' = Held(f)
  <2>1. \A f \in Endpoint : /\ ep'[f].ctrl = ep[f].ctrl /\ ep'[f].data = ep[f].data
                            /\ ep'[f].resetting => ep[f].resetting
    OBVIOUS
  <2>2. \A g \in {h} : g.op # "Release"
    BY <1>3 DEF AddOps
  <2>3. BindingSame
    BY DEF BindingSame
  <2> QED BY <1>1, <1>2, <1>6, <2>1, <2>2, <2>3, QuietStep
<1>10. NewIsUnknown'
  <2> DEFINE N == {e}
  <2>1. (\A x \in Pending : x.op = "AddEndpoint" => x.e # e) /\ ep[e].created
    BY NotAgain
  <2>2. \A f \in Endpoint :
          /\ ep'[f].created = ep[f].created
          /\ f \in N => ep[f].created
          /\ f \notin N =>
               /\ Held(f)' \subseteq Held(f)
               /\ ep'[f].resetting \/ route' = f \/ f \in gcList' => Known(f)
    BY <1>9, <2>1 DEF Known
  <2>3. \A d \in Conn : conn'[d].binding \in {conn[d].binding, NoEndpoint} \cup N
    OBVIOUS
  <2>4. "AddEndpoint" \in NewOps
    BY DEF NewOps
  <2>5. \A x \in Pending' : x.op = "AddEndpoint" => x.e \notin N
    BY <1>7, <1>8, <2>1, <2>4
  <2>6. \A x \in X : x.op \notin NewOps /\ (x.e \in Endpoint /\ x.e \notin N => Known(x.e))
    BY <1>7
  <2> HIDE DEF N
  <2> QED BY <1>1, <1>2, <1>6, <2>2, <2>3, <2>5, <2>6, UnknownBut
<1>11. RouteTended'
  <2> SUFFICES ASSUME NEW f \in Endpoint, route' = f
               PROVE  /\ ep'[f].resetting => Tended(f)'
                      /\ \/ Held(f)' # {} \/ Tended(f)'
                         \/ \E x \in Pending' : x.e = f /\ x.op \in {"EndpointReset", "AddToNew", "Bind"}
    BY DEF RouteTended
  <2>1. Tended(f) => Tended(f)'
    BY <1>3, <1>8 DEF Tended, AddOps
  <2>2. CASE f = e /\ op = "AddToNew"
    BY <2>2 DEF Tended
  <2>3. CASE f # e \/ op # "AddToNew"
    <3>1. /\ ep[f].resetting => Tended(f)
          /\ \/ Held(f) # {} \/ Tended(f)
             \/ \E x \in Pending : x.e = f /\ x.op \in {"EndpointReset", "AddToNew", "Bind"}
      BY <1>2 DEF RouteTended
    <3>2. ~(h.e = f /\ h.op \in {"EndpointReset", "AddToNew", "Bind"})
      BY <1>3, <2>3 DEF AddOps
    <3> QED BY <1>8, <1>9, <2>1, <3>1, <3>2
  <2> QED BY <2>2, <2>3
<1>12. /\ route' \in Endpoint \cup {NoEndpoint} /\ gcList' \subseteq Endpoint
       /\ inGc' \in BOOLEAN /\ stranded' \subseteq Endpoint /\ IsFiniteSet(gcList')
       /\ conn' \in [Conn -> ConnRecord] /\ ep' \in [Endpoint -> EndpointRecord]
       /\ \A f \in Endpoint : IsFiniteSet(ep'[f].data)
  BY <1>1, TypedParts
<1> QED BY <1>6, <1>9, <1>10, <1>11, <1>12, StepInv

\* Endpoint.AddConnection, from its three callers.
LEMMA AddConnectionKeeps ==
  ASSUME Inv, NEW t \in Thread, AddToKnown(t) \/ AddToNew(t) \/ AddData(t)
  PROVE  Inv'
<1> DEFINE c == C(t)
           e == E(t)
<1>1. PICK op \in AddOps, next \in {<< >>, <<Call("DataChannel", c, e)>>},
           a \in {Call("Refuse", c, e), Call("DataChannel", c, e), Call("AddEndpointGcList", NoConn, e)} :
        AddConnection(t, op, next, <<a>>)
  BY DEF AddToKnown, AddToNew, AddData, AddOps
<1>2. At(t, op) /\ Lockable(e)
  BY <1>1 DEF AddConnection
<1>3. stack \in [Thread -> Seq(GoodCall)]
  BY TypedParts DEF Inv
<1>4. c \in Conn /\ e \in Endpoint
  BY <1>2, <1>3, AtHead DEF ConnOps, EndpointOps, AddOps
<1> DEFINE rest == IF conn[c].binding = e THEN PromoteCall(c, e) ELSE <<Call("Bind", c, e)>>
<1>5. \/ /\ Then(t, <<a>>) /\ UNCHANGED <<conn, ep, route, gcList, inGc>>
         /\ stranded' = IF op = "AddToNew" THEN stranded \cup {e} ELSE stranded
      \/ /\ ~ep[e].resetting /\ Then(t, rest \o next)
         /\ ep' = [ep EXCEPT ![e].owner = IF rest = << >> THEN Nobody ELSE t]
         /\ UNCHANGED <<conn, route, gcList, inGc, stranded>>
  BY <1>1 DEF AddConnection, Accepts
<1>6. /\ rest \in {<< >>, <<Call("Promote", c, e)>>, <<Call("Bind", c, e)>>}
      /\ rest = <<Call("Bind", c, e)>> \/ conn[c].binding = e
  BY DEF PromoteCall
<1>7. ep[e].owner = Nobody
  BY <1>2 DEF Lockable
<1> HIDE DEF rest
<1>8. a \in GoodCall /\ a.e = e /\ a.op \in {"Refuse", "DataChannel", "AddEndpointGcList"}
  <2> HIDE DEF c, e
  <2>1. CASE a = Call("Refuse", c, e)
    BY <1>4, <2>1, CallGood DEF Ops, ConnOps, EndpointOps
  <2>2. CASE a = Call("DataChannel", c, e)
    BY <1>4, <2>2, CallGood DEF Ops, ConnOps, EndpointOps
  <2>3. CASE a = Call("AddEndpointGcList", NoConn, e)
    BY <1>4, <2>3, CallGood DEF Ops, ConnOps, EndpointOps
  <2> QED BY <1>1, <2>1, <2>2, <2>3
<1>9. CASE /\ Then(t, <<a>>) /\ UNCHANGED <<conn, ep, route, gcList, inGc>>
           /\ stranded' = IF op = "AddToNew" THEN stranded \cup {e} ELSE stranded
  BY <1>2, <1>4, <1>8, <1>9, AddRefused
<1>10. CASE /\ ~ep[e].resetting /\ Then(t, rest \o next)
            /\ ep' = [ep EXCEPT ![e].owner = IF rest = << >> THEN Nobody ELSE t]
            /\ UNCHANGED <<conn, route, gcList, inGc, stranded>>
  BY <1>1, <1>2, <1>4, <1>6, <1>7, <1>10, AddTaken
<1> QED BY <1>5, <1>9, <1>10

\* The record of an endpoint that gets a connection.
LEMMA BoundRecord ==
  ASSUME ep \in [Endpoint -> EndpointRecord], NEW e \in Endpoint, NEW v \in Thread \cup {Nobody},
         NEW k \in Conn \cup {NoConn}, NEW D \in SUBSET Conn,
         ep' = [ep EXCEPT ![e].owner = v, ![e].ctrl = k, ![e].data = D]
  PROVE  /\ ep' \in [Endpoint -> EndpointRecord]
         /\ ep'[e].owner = v /\ ep'[e].ctrl = k /\ ep'[e].data = D
         /\ ep'[e].resetting = ep[e].resetting /\ ep'[e].created = ep[e].created
         /\ \A f \in Endpoint : f # e => ep'[f] = ep[f]
<1> DEFINE r == [ep[e] EXCEPT !.owner = v, !.ctrl = k, !.data = D]
<1>1. ep[e] \in EndpointRecord
  OBVIOUS
<1>2. /\ r \in EndpointRecord /\ r.owner = v /\ r.ctrl = k /\ r.data = D
      /\ r.resetting = ep[e].resetting /\ r.created = ep[e].created
  BY <1>1 DEF EndpointRecord
<1>3. ep' = [ep EXCEPT ![e] = r]
  BY ZenonT(60)
<1> HIDE DEF r
<1>4. ep \in [Endpoint -> EndpointRecord] /\ e \in Endpoint
  OBVIOUS
<1> QED BY ONLY <1>2, <1>3, <1>4

\* The rest of Endpoint.AddConnection: the connection is held and bound.
LEMMA BindKeeps ==
  ASSUME Inv, NEW t \in Thread, Bind(t)
  PROVE  Inv'
<1>a. PICK c, e : c = C(t) /\ e = E(t)
  OBVIOUS
<1> DEFINE h == Head(stack[t])
           p == Call("Promote", c, e)
           calls == PromoteCall(c, e)
           X == Members(calls)
<1>0. /\ At(t, "Bind") /\ conn' = [conn EXCEPT ![c].binding = e]
      /\ ep' = [ep EXCEPT ![e].owner = IF calls = << >> THEN Nobody ELSE @,
                          ![e].ctrl = IF @ = NoConn THEN c ELSE @,
                          ![e].data = IF ep[e].ctrl = NoConn THEN @ ELSE @ \cup {c}]
      /\ Then(t, calls) /\ UNCHANGED <<route, gcList, inGc, stranded>>
  BY <1>a DEF Bind
<1>1. /\ Typed /\ stack \in [Thread -> Seq(GoodCall)] /\ conn \in [Conn -> ConnRecord]
      /\ ep \in [Endpoint -> EndpointRecord]
      /\ \A f \in Endpoint : IsFiniteSet(ep[f].data)
  BY TypedParts DEF Inv
<1>2. Tidy /\ BoundOrReleased /\ NewIsUnknown /\ RouteTended
  BY DEF Inv
<1>3. /\ stack[t] # << >> /\ h.op = "Bind" /\ h.e = e /\ h \in Pending /\ e \in Endpoint /\ c \in Conn
  BY <1>0, <1>1, <1>a, AtHead DEF At, E, EndpointOps, ConnOps
<1>4. ep[e].owner = t /\ ~ep[e].resetting
  <2> DEFINE op == "Bind"
  <2>1. op \in LockOps /\ At(t, op) /\ op = "Bind"
    BY <1>0 DEF LockOps
  <2> HIDE DEF op
  <2> QED BY <1>a, <2>1, OwnerAt
<1> HIDE DEF h
<1>5. p \in GoodCall /\ p.op = "Promote" /\ p.e = e
  BY <1>3, CallGood DEF Ops, ConnOps, EndpointOps
<1>6. calls = << >> \/ calls = <<p>>
  BY DEF PromoteCall
<1> HIDE DEF p, calls
<1>7. /\ calls \in Seq(GoodCall) /\ Members(calls) \subseteq {p} /\ (calls = << >> => Members(calls) = {})
      /\ Len(calls) \in {0, 1}
  <2>1. CASE calls = << >>
    BY <2>1, ShortLists
  <2>2. CASE calls = <<p>>
    BY <1>5, <2>2, ShortLists
  <2> QED BY <1>6, <2>1, <2>2
<1>8. Well(calls)
  <2>1. \A i \in 1..Len(calls) : i = 1 /\ calls[i].op = "Promote"
    BY <1>5, <1>7 DEF Members
  <2> QED BY <2>1 DEF Well
<1>9. /\ conn' \in [Conn -> ConnRecord] /\ conn'[c].binding = e
      /\ \A d \in Conn : d # c => conn'[d] = conn[d]
  <2>1. e \in Endpoint \cup {NoEndpoint}
    BY <1>3
  <2> QED BY <1>0, <1>1, <1>3, <2>1, ConnField
<1>10. PICK v \in Thread \cup {Nobody}, k \in Conn \cup {NoConn}, D \in SUBSET Conn :
         /\ v = IF calls = << >> THEN Nobody ELSE t
         /\ k = IF ep[e].ctrl = NoConn THEN c ELSE ep[e].ctrl
         /\ D = IF ep[e].ctrl = NoConn THEN ep[e].data ELSE ep[e].data \cup {c}
  <2>1. ep[e].ctrl \in Conn \cup {NoConn} /\ ep[e].data \in SUBSET Conn
    BY <1>1, <1>3 DEF EndpointRecord
  <2> QED BY <1>3, <2>1
<1>11. ep' = [ep EXCEPT ![e].owner = v, ![e].ctrl = k, ![e].data = D]
  BY <1>0, <1>4, <1>10
<1>12. /\ ep' \in [Endpoint -> EndpointRecord]
       /\ ep'[e].owner = v /\ ep'[e].ctrl = k /\ ep'[e].data = D
       /\ ep'[e].resetting = ep[e].resetting /\ ep'[e].created = ep[e].created
       /\ \A f \in Endpoint : f # e => ep'[f] = ep[f]
  <2>1. /\ ep \in [Endpoint -> EndpointRecord] /\ e \in Endpoint /\ v \in Thread \cup {Nobody}
        /\ k \in Conn \cup {NoConn} /\ D \in SUBSET Conn
        /\ ep' = [ep EXCEPT ![e].owner = v, ![e].ctrl = k, ![e].data = D]
    BY <1>1, <1>3, <1>11
  <2> QED BY ONLY <2>1, BoundRecord
<1>13. \A f \in Endpoint : IsFiniteSet(ep'[f].data)
  <2>1. IsFiniteSet(D)
    BY <1>1, <1>3, <1>10, FS_AddElement
  <2> QED BY <1>1, <1>12, <2>1
<1>14. LockStep(t, calls)
  <2>1. ASSUME NEW f \in Endpoint, ep[f].owner \notin {t, Nobody}
        PROVE  ep'[f].owner = ep[f].owner /\ (ep'[f].resetting => ep[f].resetting)
    BY <1>4, <1>12, <2>1
  <2>2. ASSUME NEW i \in 1..Len(calls)
        PROVE  calls[i].op = "Promote" /\ ep'[calls[i].e].owner = t
    <3>1. calls[i] \in Members(calls)
      BY DEF Members
    <3>2. calls[i] = p /\ calls # << >>
      BY <1>7, <3>1
    <3> QED BY <1>5, <1>10, <1>12, <3>2
  <2> QED BY <2>1, <2>2 DEF LockStep
<1>15. \A x \in Members(calls) : x.op \notin NewOps /\ x.e = e
  BY <1>5, <1>7 DEF NewOps
<1>16. Settled /\ PendingStep({h}, X)
  BY <1>0, <1>3, <1>7, <1>8, <1>14, <1>15, ThenSettled DEF h
<1>17. \A x \in X : x.op \notin NewOps /\ x.e = e
  BY <1>15
<1> HIDE DEF X
<1>18. /\ Pending' \subseteq Pending \cup X /\ X \subseteq Pending' /\ Pending \subseteq Pending' \cup {h}
  BY <1>16 DEF PendingStep
<1>19. /\ \A f \in Endpoint : f # e => Held(f)' = Held(f)
       /\ Held(e)' = Held(e) \cup {c}
  <2>1. \A f \in Endpoint : f # e => Held(f)' = Held(f)
    BY <1>12 DEF Held
  <2>2. Held(e)' = D \cup ({k} \ {NoConn})
    BY <1>12 DEF Held
  <2>3. c # NoConn
    BY <1>3, EndpointAssumption
  <2>4. D \cup ({k} \ {NoConn}) = Held(e) \cup {c}
    BY <1>10, <2>3 DEF Held
  <2> QED BY <2>1, <2>2, <2>4
<1>20. Tidy'
  <2>1. ASSUME NEW f \in Endpoint, ep'[f].resetting PROVE Held(f)' = {}
    BY <1>2, <1>4, <1>12, <1>19, <2>1 DEF Tidy
  <2> QED BY <2>1 DEF Tidy
<1>21. BoundOrReleased'
  <2>1. ASSUME NEW d \in Conn, NEW f, Released(d, f) PROVE Released(d, f)'
    BY <1>3, <1>16, <2>1, ReleasedKept
  <2>2. ASSUME NEW d \in Conn, conn'[d].binding # NoEndpoint
        PROVE  d \in Held(conn[d].binding)' \/ Released(d, conn[d].binding)'
    <3>1. CASE d = c
      BY <1>9, <1>19, <3>1
    <3>2. CASE d # c
      <4>1. conn'[d] = conn[d] /\ conn[d].binding \in Endpoint
        BY <1>1, <1>9, <2>2, <3>2 DEF ConnRecord
      <4>2. PICK f \in Endpoint : f = conn[d].binding
        BY <4>1
      <4>3. d \in Held(f) \/ Released(d, f)
        BY <1>2, <2>2, <4>1, <4>2 DEF BoundOrReleased
      <4>4. d \in Held(f)' \/ Released(d, f)'
        BY <1>19, <2>1, <4>3
      <4>5. conn'[d].binding = f
        BY <4>1, <4>2
      <4> QED BY <4>4, <4>5
    <3> QED BY <3>1, <3>2
  <2> QED BY <2>2 DEF BoundOrReleased
<1>22. Known(e) /\ ep[e].created
  <2>1. h.op \notin NewOps
    BY <1>3 DEF NewOps
  <2> QED BY <1>2, <1>3, <2>1, KnownEndpoint DEF NewIsUnknown
<1>23. NewIsUnknown'
  <2> DEFINE N == {e}
  <2>1. \A f \in Endpoint :
          /\ ep'[f].created = ep[f].created
          /\ f \in N => ep[f].created
          /\ f \notin N =>
               /\ Held(f)' \subseteq Held(f)
               /\ ep'[f].resetting \/ route' = f \/ f \in gcList' => Known(f)
    BY <1>0, <1>12, <1>19, <1>22 DEF Known
  <2>2. \A d \in Conn : conn'[d].binding \in {conn[d].binding, NoEndpoint} \cup N
    BY <1>9
  <2>3. "AddEndpoint" \in NewOps
    BY DEF NewOps
  <2>4. \A x \in Pending' : x.op = "AddEndpoint" => x.e \notin N
    BY <1>2, <1>17, <1>18, <1>22, <2>3 DEF NewIsUnknown
  <2>5. \A x \in X : x.op \notin NewOps /\ (x.e \in Endpoint /\ x.e \notin N => Known(x.e))
    BY <1>17
  <2> HIDE DEF N
  <2> QED BY <1>1, <1>2, <1>16, <2>1, <2>2, <2>4, <2>5, UnknownBut
<1>24. RouteTended'
  <2> SUFFICES ASSUME NEW f \in Endpoint, route' = f
               PROVE  /\ ep'[f].resetting => Tended(f)'
                      /\ \/ Held(f)' # {} \/ Tended(f)'
                         \/ \E x \in Pending' : x.e = f /\ x.op \in {"EndpointReset", "AddToNew", "Bind"}
    BY DEF RouteTended
  <2>1. CASE f = e
    BY <1>4, <1>12, <1>19, <2>1
  <2>2. CASE f # e
    <3>1. Tended(f) => Tended(f)'
      BY <1>0, <1>3, <1>18 DEF Tended
    <3>2. /\ ep[f].resetting => Tended(f)
          /\ \/ Held(f) # {} \/ Tended(f)
             \/ \E x \in Pending : x.e = f /\ x.op \in {"EndpointReset", "AddToNew", "Bind"}
      BY <1>0, <1>2 DEF RouteTended
    <3> QED BY <1>3, <1>12, <1>18, <1>19, <2>2, <3>1, <3>2
  <2> QED BY <2>1, <2>2
<1>25. /\ route' \in Endpoint \cup {NoEndpoint} /\ gcList' \subseteq Endpoint
       /\ inGc' \in BOOLEAN /\ stranded' \subseteq Endpoint /\ IsFiniteSet(gcList')
  BY <1>0, <1>1, TypedParts
<1> QED BY <1>9, <1>12, <1>13, <1>16, <1>20, <1>21, <1>23, <1>24, <1>25, StepInv

-----------------------------------------------------------------------------
(* The theorems.                                                           *)

\* At first no call is to be made and no connection is bound.
LEMMA InvInit == Init => Inv
<1> SUFFICES ASSUME Init PROVE Inv
  OBVIOUS
<1>1. /\ \A t \in Thread : stack[t] = << >>
      /\ \A t \in Thread : Len(stack[t]) = 0 /\ DOMAIN stack[t] = {}
      /\ stack \in [Thread -> Seq(GoodCall)]
  BY DEF Init
<1>2. Pending = {}
  BY <1>1 DEF Pending
<1>3. /\ \A c \in Conn : conn[c].binding = NoEndpoint
      /\ \A e \in Endpoint : /\ ep[e].ctrl = NoConn /\ ep[e].data = {} /\ ~ep[e].resetting
                             /\ ~ep[e].created
      /\ route = NoEndpoint /\ gcList = {} /\ stranded = {}
  BY DEF Init
<1>4. \A e \in Endpoint : Held(e) = {}
  BY <1>3 DEF Held
<1>5. Typed
  <2>1. TypeOK
    <3>1. \A t \in Thread : \A i \in DOMAIN stack[t] :
            stack[t][i] \in [op: Ops, c: Conn \cup {NoConn}, e: Endpoint \cup {NoEndpoint}]
      BY <1>1
    <3>2. conn \in [Conn -> [status: Status, binding: Endpoint \cup {NoEndpoint},
                             resetting: BOOLEAN, server: BOOLEAN, registered: BOOLEAN]]
      BY DEF Init, Status
    <3>3. ep \in [Endpoint -> [ctrl: Conn \cup {NoConn}, data: SUBSET Conn, resetting: BOOLEAN,
                               owner: Thread \cup {Nobody}, created: BOOLEAN]]
      BY DEF Init
    <3>4. inGc \in BOOLEAN
      BY DEF Init
    <3> QED BY <1>3, <3>1, <3>2, <3>3, <3>4 DEF TypeOK
  <2>2. IsFiniteSet({})
    BY FS_EmptySet
  <2> QED BY <1>1, <1>3, <2>1, <2>2 DEF Typed
<1>6. Tidy
  BY <1>3, <1>4, EndpointAssumption DEF Tidy
<1>7. BoundOrReleased
  BY <1>3 DEF BoundOrReleased
<1>8. NewIsUnknown
  BY <1>2, <1>3, <1>4, EndpointAssumption DEF NewIsUnknown, Known
<1>9. RouteTended
  BY <1>3, EndpointAssumption DEF RouteTended
<1>10. Placed /\ Once /\ Locked
  <2>1. \A t \in Thread : 1..Len(stack[t]) = {}
    BY <1>1
  <2> QED BY <2>1 DEF Placed, Well, Once, Locked
<1> QED BY <1>5, <1>6, <1>7, <1>8, <1>9, <1>10 DEF Inv

\* Every call of a goroutine and everything that happens to the node keeps it.
LEMMA InvNext == Inv /\ [Next]_vars => Inv'
<1> SUFFICES ASSUME Inv, [Next]_vars PROVE Inv'
  OBVIOUS
<1>1. ASSUME NEW c \in Conn, Accepted(c) \/ RegisterReceived(c) \/ Disconnected(c) PROVE Inv'
  BY <1>1, AcceptedKeeps, RegisterReceivedKeeps, DisconnectedKeeps
<1>2. CASE Disconnect
  BY <1>2, DisconnectKeeps
<1>3. CASE ExecuteGC
  BY <1>3, ExecuteGCKeeps
<1>4. ASSUME NEW t \in Thread, Run(t) PROVE Inv'
  <2>1. CASE ConnReset(t) \/ ConnResetEnd(t) \/ RemoveConnection(t)
    BY <2>1, ConnResetKeeps, ConnResetEndKeeps, RemoveConnectionKeeps
  <2>2. CASE EndpointReset(t) \/ Release(t) \/ Unbind(t) \/ AddEndpointGcList(t)
             \/ EndpointResetEnd(t)
    BY <2>2, EndpointResetKeeps, ReleaseKeeps, UnbindKeeps, AddEndpointGcListKeeps,
       EndpointResetEndKeeps
  <2>3. CASE MakeEndpoint(t) \/ Refuse(t) \/ AddEndpoint(t)
    BY <2>3, MakeEndpointKeeps, RefuseKeeps, AddEndpointKeeps
  <2>4. CASE AddToKnown(t) \/ AddToNew(t) \/ AddData(t) \/ Bind(t)
    BY <2>4, AddConnectionKeeps, BindKeeps
  <2>5. CASE Promote(t) \/ DataChannel(t) \/ GcCheck(t) \/ GcEnd(t)
    BY <2>5, PromoteKeeps, DataChannelKeeps, GcCheckKeeps, GcEndKeeps
  <2> QED BY <1>4, <2>1, <2>2, <2>3, <2>4, <2>5 DEF Run
<1>5. CASE UNCHANGED vars
  <2> USE <1>5 DEF vars
  <2>1. Pending' = Pending /\ \A e \in Endpoint : Held(e)' = Held(e)
    BY DEF Pending, Held
  <2>2. Typed' /\ Once' /\ Locked'
    BY DEF Inv, Typed, TypeOK, Once, Locked
  <2>3. Placed'
    BY DEF Inv, Placed, Well
  <2>4. Tidy'
    BY DEF Inv, Tidy, Held
  <2>5. BoundOrReleased'
    BY DEF Inv, BoundOrReleased, Released, Held, Pending
  <2>6. NewIsUnknown'
    <3>1. NewIsUnknown
      BY DEF Inv
    <3> DEFINE P == Pending
    <3>2. /\ Pending' = P /\ Pending = P
      BY <2>1
    <3>3. \A e : Held(e)' = Held(e)
      BY DEF Held
    <3> HIDE DEF P
    <3> QED BY <3>1, <3>2, <3>3 DEF NewIsUnknown, Known
  <2>7. RouteTended'
    BY DEF Inv, RouteTended, Tended, Held, Pending
  <2> QED BY <2>2, <2>3, <2>4, <2>5, <2>6, <2>7 DEF Inv
<1> QED BY <1>1, <1>2, <1>3, <1>4, <1>5 DEF Next

\* The invariant holds in every state that is reached.
LEMMA Invariant == Spec => []Inv
BY InvInit, InvNext, PTL DEF Spec

\* The connections, endpoints and stacks of calls keep their types.
THEOREM BindingTyped == Spec => []TypeOK
<1>1. Inv => TypeOK
  BY DEF Inv, Typed
<1> QED BY <1>1, Invariant, PTL

\* A connection that no goroutine is at work on is held by the endpoint it is
\* bound to (RemoveConnection, Endpoint.Reset).
THEOREM BoundConnectionsAreHeld == Spec => []BoundIsHeld
<1>1. ASSUME Inv PROVE BoundIsHeld
  <2>1. BoundOrReleased
    BY <1>1 DEF Inv
  <2>2. ASSUME NEW c \in Conn, NEW e, Released(c, e) PROVE Busy(c)
    <3>1. PICK t \in Thread : \E i \in DOMAIN stack[t] : stack[t][i] = Call("Release", c, e)
      BY <2>2 DEF Released, Pending
    <3> QED BY <3>1 DEF Busy, Call
  <2> QED BY <2>1, <2>2 DEF BoundOrReleased, BoundIsHeld
<1> QED BY <1>1, Invariant, PTL

\* An endpoint in the routes that has no connection will be looked at by the
\* garbage collection, but for the two ways in which the code loses it
\* (AddEndpointGcList, executeGC, acceptNodeRegistrationStepMakeEndpoint).
THEOREM RoutesAreTended == Spec => []RouteIsTended
<1>1. ASSUME Inv PROVE RouteIsTended
  <2>1. RouteTended /\ route \in Endpoint \cup {NoEndpoint}
    BY <1>1, TypedParts DEF Inv
  <2>2. ASSUME NEW x \in Pending PROVE Busy(x.e)
    BY <2>2 DEF Pending, Busy
  <2>3. SUFFICES ASSUME route # NoEndpoint, Held(route) = {}, route \notin gcList,
                        route \notin stranded
                 PROVE  Busy(route)
    BY DEF RouteIsTended
  <2>4. \E x \in Pending : x.e = route
    BY <2>1, <2>3 DEF RouteTended, Tended
  <2> QED BY <2>2, <2>4
<1> QED BY <1>1, Invariant, PTL

====
