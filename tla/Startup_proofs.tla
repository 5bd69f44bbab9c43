--------------------------- MODULE Startup_proofs ---------------------------
(***************************************************************************)
(* Proofs about the catalog and about main up to run_dispatch, for every   *)
(* configuration and everything the backends may offer.                    *)
(***************************************************************************)
EXTENDS Startup, SequenceTheorems, WellFoundedInduction, TLAPS

(* Induction over the rounds of a loop. *)

\* A set of numbers has a least one.
LEMMA Least ==
  ASSUME NEW T, T \subseteq Nat, T # {}
  PROVE  \E n \in T : \A m \in T : n <= m
<1>1. PICK n \in T : \A m \in T : ~(<<m, n>> \in OpToRel(<, Nat))
  BY NatLessThanWellFounded, WFMin, Zenon
<1>2. ASSUME NEW m \in T PROVE n <= m
  <2>1. ~(m < n)
    BY <1>1, <1>2 DEF OpToRel
  <2>2. QED
    BY <2>1
<1>3. QED
  BY <1>2

\* A set that holds 0 and is closed under adding 1 holds every number.
LEMMA Induction ==
  ASSUME NEW S, 0 \in S, \A n \in Nat : n \in S => n + 1 \in S
  PROVE  \A n \in Nat : n \in S
<1>. DEFINE T == Nat \ S
<1>1. SUFFICES ASSUME T # {} PROVE FALSE
  OBVIOUS
<1>2. PICK n \in T : \A m \in T : n <= m
  BY <1>1, Least
<1>3. n \in Nat /\ n # 0
  OBVIOUS
<1>4. n - 1 \in Nat /\ (n - 1) + 1 = n /\ ~(n <= n - 1)
  BY <1>3
<1>5. n - 1 \in S
  BY <1>2, <1>4
<1>6. QED
  BY <1>4, <1>5
-----------------------------------------------------------------------------
(* register_backend. *)

\* f is the sequence of maps that the rounds of the loop go through.
Rounds(f, tools, backend, list, n) ==
  f = [k \in 0..n |-> IF k = 0 THEN tools ELSE RegisterTool(f[k - 1], backend, list[k])]

\* The loop has its n rounds, whatever n is.
LEMMA RoundsExist ==
  ASSUME NEW tools, NEW backend, NEW list
  PROVE  \A n \in Nat : \E f : Rounds(f, tools, backend, list, n)
<1>. DEFINE S == {n \in Nat : \E f : Rounds(f, tools, backend, list, n)}
<1>1. 0 \in S
  <2>. DEFINE f == [k \in 0..0 |-> tools]
  <2>1. f = [k \in 0..0 |-> IF k = 0 THEN tools ELSE RegisterTool(f[k - 1], backend, list[k])]
    <3>1. \A k \in 0..0 : k = 0
      OBVIOUS
    <3>2. QED
      BY <3>1
  <2>2. QED
    BY <2>1, Zenon DEF Rounds
<1>2. ASSUME NEW n \in Nat, n \in S PROVE n + 1 \in S
  <2>1. PICK f : Rounds(f, tools, backend, list, n)
    BY <1>2
  <2>. DEFINE g == [k \in 0..(n + 1) |->
                      IF k = n + 1 THEN RegisterTool(f[n], backend, list[k]) ELSE f[k]]
  <2>2. ASSUME NEW k \in 0..(n + 1)
        PROVE  g[k] = IF k = 0 THEN tools ELSE RegisterTool(g[k - 1], backend, list[k])
    <3>1. CASE k = 0
      <4>1. 0 \in 0..n /\ 0 # n + 1
        OBVIOUS
      <4>2. f[0] = tools
        BY <2>1, <4>1 DEF Rounds
      <4>3. QED
        BY <3>1, <4>1, <4>2
    <3>2. CASE k \in 1..n
      <4>1. k \in 0..n /\ k # 0 /\ k # n + 1 /\ k - 1 \in 0..(n + 1) /\ k - 1 # n + 1
        BY <3>2
      <4>2. f[k] = RegisterTool(f[k - 1], backend, list[k])
        BY <2>1, <4>1 DEF Rounds
      <4>3. g[k] = f[k] /\ g[k - 1] = f[k - 1]
        BY <4>1
      <4>4. QED
        BY <4>1, <4>2, <4>3, Zenon
    <3>3. CASE k = n + 1
      <4>1. k # 0 /\ k - 1 = n /\ n \in 0..(n + 1) /\ n # n + 1
        BY <3>3
      <4>2. g[k] = RegisterTool(f[n], backend, list[k]) /\ g[n] = f[n]
        BY <3>3, <4>1
      <4>3. QED
        BY <4>1, <4>2
    <3>4. QED
      BY <3>1, <3>2, <3>3
  <2>3. Rounds(g, tools, backend, list, n + 1)
    <3>1. g = [k \in 0..(n + 1) |-> g[k]]
      BY Zenon
    <3>. HIDE DEF g
    <3>2. QED
      BY <2>2, <3>1 DEF Rounds
  <2>4. n + 1 \in Nat
    OBVIOUS
  <2>. HIDE DEF g
  <2>5. QED
    BY <2>3, <2>4, Zenon
<1>. HIDE DEF S
<1>3. \A n \in Nat : n \in S
  BY <1>1, <1>2, Induction
<1>4. QED
  BY <1>3 DEF S

\* What names are made of: any string.  The stubs' are spelled out, as the
\* provers do not know that a string is in STRING.
Stubs == {"stub-n8n", "stub-sqlite"}
Part == STRING \cup Stubs
          \cup {"list_workflows", "execute_workflow", "read_query", "write_query"}

Name == Seq(Part)
Tool == [from : Nat, name : Name]

\* f has the rounds of the loop, and ends with r.
Ends(f, r, tools, backend, list) ==
  /\ r = f[Len(list)] /\ f[0] = tools
  /\ \A n \in 0..(Len(list) - 1) : f[n + 1] = RegisterTool(f[n], backend, list[n + 1])

\* register_backend returns what the last round leaves.
LEMMA RegisterRounds ==
  ASSUME NEW tools, NEW backend, NEW list \in Seq(Tool)
  PROVE  \E f : Ends(f, RegisterBackend(tools, backend, list), tools, backend, list)
<1>1. Len(list) \in Nat
  BY LenProperties
<1>2. \E f : Rounds(f, tools, backend, list, Len(list))
  BY <1>1, RoundsExist
<1>. DEFINE f == CHOOSE f : Rounds(f, tools, backend, list, Len(list))
<1>3. Rounds(f, tools, backend, list, Len(list))
  BY <1>2, Zenon
<1>4. RegisterBackend(tools, backend, list) = f[Len(list)]
  BY Zenon DEF RegisterBackend, Rounds
<1>. HIDE DEF f
<1>5. f[0] = tools
  BY <1>1, <1>3 DEF Rounds
<1>6. ASSUME NEW n \in 0..(Len(list) - 1)
      PROVE  f[n + 1] = RegisterTool(f[n], backend, list[n + 1])
  <2>1. n + 1 \in 0..Len(list) /\ n + 1 # 0 /\ (n + 1) - 1 = n
    BY <1>1
  <2>2. \A k \in 0..Len(list) : k # 0 => f[k] = RegisterTool(f[k - 1], backend, list[k])
    BY <1>3 DEF Rounds
  <2>3. QED
    BY <2>1, <2>2
<1>7. QED
  BY <1>4, <1>5, <1>6, Zenon DEF Ends

\* What is listed as n is the tool, or has n for its prefixed name.
Keeps(map, tool, n) ==
  n \in DOMAIN map /\ (map[n].tool = tool \/ map[n].tool.name # n)

\* A prefixed name differs from the name it is made of.
LEMMA PrefixDiffers ==
  ASSUME NEW S, NEW b \in S, NEW n \in Seq(S)
  PROVE  <<b>> \o n # n
<1>1. Len(n) \in Nat
  BY LenProperties
<1>2. Len(<<b>> \o n) = 1 + Len(n)
  <2>. DEFINE s == <<b>>
  <2>1. s \in Seq(S) /\ Len(s) = 1
    OBVIOUS
  <2>. HIDE DEF s
  <2>2. Len(s \o n) = Len(s) + Len(n)
    BY <1>1, <2>1, ConcatProperties
  <2>3. QED
    BY <2>1, <2>2 DEF s
<1>3. 1 + Len(n) # Len(n)
  BY <1>1
<1>4. QED
  BY <1>2, <1>3, Zenon

\* One round: a name that is free goes to the tool; otherwise its prefixed
\* name does, whoever has that.
LEMMA RoundEffect ==
  ASSUME NEW map, NEW backend \in Part, NEW tool \in Tool
  PROVE  LET m   == RegisterTool(map, backend, tool)
             pre == <<backend>> \o tool.name
         IN  /\ DOMAIN map \subseteq DOMAIN m
             /\ \A x \in DOMAIN m :
                  \/ x \in DOMAIN map /\ m[x] = map[x]
                  \/ m[x] = [name |-> x, tool |-> tool, backend |-> backend]
             /\ \A t, x : Keeps(map, t, x) => Keeps(m, t, x)
             /\ Keeps(m, tool, tool.name) \/ Keeps(m, tool, pre)
             /\ tool.name \notin DOMAIN map => Keeps(m, tool, tool.name)
<1>. DEFINE pre == <<backend>> \o tool.name
            key == IF tool.name \in DOMAIN map THEN pre ELSE tool.name
            new == [name |-> key, tool |-> tool, backend |-> backend]
            m   == RegisterTool(map, backend, tool)
<1>1. pre # tool.name
  BY PrefixDiffers DEF Tool, Name
<1>2. /\ DOMAIN m = DOMAIN map \cup {key}
      /\ m[key] = new
      /\ \A x \in DOMAIN map : x # key => m[x] = map[x]
  BY Zenon DEF RegisterTool, Insert
<1>3. new.tool = tool
  OBVIOUS
<1>4. key \in DOMAIN map => tool.name # key
  BY <1>1, Zenon
<1>5. key = tool.name \/ key = pre
  BY Zenon
<1>6. tool.name \notin DOMAIN map => key = tool.name
  BY Zenon
<1>. HIDE DEF m, key, pre
<1>7. ASSUME NEW t, NEW x, Keeps(map, t, x) PROVE Keeps(m, t, x)
  <2>1. CASE x = key
    BY <1>2, <1>3, <1>4, <1>7, <2>1, Zenon DEF Keeps
  <2>2. CASE x # key
    BY <1>2, <1>7, <2>2, Zenon DEF Keeps
  <2>3. QED
    BY <2>1, <2>2
<1>8. Keeps(m, tool, key)
  BY <1>2, <1>3, Zenon DEF Keeps
<1>9. \A x \in DOMAIN m :
        \/ x \in DOMAIN map /\ m[x] = map[x]
        \/ m[x] = [name |-> x, tool |-> tool, backend |-> backend]
  BY <1>2, Zenon
<1>10. QED
  BY <1>2, <1>5, <1>6, <1>7, <1>8, <1>9, Zenon DEF m, pre

\* What register_backend has made of the map after n rounds.
Registered(m, tools, backend, list, n) ==
  /\ DOMAIN tools \subseteq DOMAIN m
  /\ \A x \in DOMAIN m :
       \/ x \in DOMAIN tools /\ m[x] = tools[x]
       \/ \E t \in Range(list) : m[x] = [name |-> x, tool |-> t, backend |-> backend]
  /\ \A t, x : Keeps(tools, t, x) => Keeps(m, t, x)
  /\ \A j \in 1..n :
       /\ Keeps(m, list[j], list[j].name) \/ Keeps(m, list[j], <<backend>> \o list[j].name)
       /\ (\A x \in DOMAIN tools : tools[x].tool.name # list[j].name) =>
            Keeps(m, list[j], list[j].name)

\* One more round.
LEMMA RegisteredNext ==
  ASSUME NEW m, NEW tools, NEW backend \in Part, NEW k, NEW list \in Seq(Tool),
         \A t \in Range(list) : t.from = k,
         NEW n \in 0..(Len(list) - 1), Registered(m, tools, backend, list, n)
  PROVE  Registered(RegisterTool(m, backend, list[n + 1]), tools, backend, list, n + 1)
<1>. DEFINE tool == list[n + 1]
            r == RegisterTool(m, backend, tool)
<1>1. Len(list) \in Nat /\ DOMAIN list = 1..Len(list) /\ n + 1 \in 1..Len(list)
  BY LenProperties
<1>2. tool \in Tool /\ tool \in Range(list)
  BY <1>1, ElementOfSeq DEF Range
<1>3. Range(list) \subseteq Tool
  BY RangeOfSeq
<1>4. \A j \in 1..(n + 1) : j \in 1..n \/ j = n + 1
  OBVIOUS
<1>. HIDE DEF tool
<1>5. /\ DOMAIN m \subseteq DOMAIN r
      /\ \A x \in DOMAIN r :
           \/ x \in DOMAIN m /\ r[x] = m[x]
           \/ r[x] = [name |-> x, tool |-> tool, backend |-> backend]
      /\ \A t, x : Keeps(m, t, x) => Keeps(r, t, x)
      /\ Keeps(r, tool, tool.name) \/ Keeps(r, tool, <<backend>> \o tool.name)
      /\ tool.name \notin DOMAIN m => Keeps(r, tool, tool.name)
  BY <1>2, RoundEffect, Zenon
<1>. HIDE DEF r
<1>6. ASSUME \A x \in DOMAIN tools : tools[x].tool.name # tool.name,
             tool.name \in DOMAIN m
      PROVE  Keeps(m, tool, tool.name)
  <2>. DEFINE x == tool.name
  <2>1. CASE x \in DOMAIN tools /\ m[x] = tools[x]
    BY <1>6, <2>1, Zenon DEF Keeps
  <2>2. CASE \E t \in Range(list) : m[x] = [name |-> x, tool |-> t, backend |-> backend]
    <3>1. PICK t \in Range(list) : m[x] = [name |-> x, tool |-> t, backend |-> backend]
      BY <2>2, Zenon
    <3>2. m[x].tool = t
      BY <3>1
    <3>3. CASE t.name = x
      <4>1. t \in Tool /\ t.from = k /\ tool.from = k
        BY <1>2, <1>3
      <4>2. t = [from |-> t.from, name |-> t.name] /\ tool = [from |-> tool.from, name |-> tool.name]
        BY <1>2, <4>1 DEF Tool
      <4>3. t = tool
        BY <3>3, <4>1, <4>2, Zenon
      <4>4. QED
        BY <1>6, <3>2, <4>3, Zenon DEF Keeps
    <3>4. CASE t.name # x
      BY <1>6, <3>2, <3>4, Zenon DEF Keeps
    <3>5. QED
      BY <3>3, <3>4
  <2>3. QED
    BY <1>6, <2>1, <2>2, Zenon DEF Registered
<1>7. DOMAIN tools \subseteq DOMAIN r
  BY <1>5, Zenon DEF Registered
<1>8. \A x \in DOMAIN r :
        \/ x \in DOMAIN tools /\ r[x] = tools[x]
        \/ \E t \in Range(list) : r[x] = [name |-> x, tool |-> t, backend |-> backend]
  BY <1>2, <1>5, Zenon DEF Registered
<1>9. \A t, x : Keeps(tools, t, x) => Keeps(r, t, x)
  BY <1>5, Zenon DEF Registered
<1>10. ASSUME NEW j \in 1..(n + 1)
       PROVE  /\ Keeps(r, list[j], list[j].name) \/ Keeps(r, list[j], <<backend>> \o list[j].name)
              /\ (\A x \in DOMAIN tools : tools[x].tool.name # list[j].name) =>
                   Keeps(r, list[j], list[j].name)
  <2>1. CASE j \in 1..n
    BY <1>5, <2>1, Zenon DEF Registered
  <2>2. CASE j = n + 1
    <3>1. list[j] = tool
      BY <2>2, Zenon DEF tool
    <3>2. QED
      BY <1>5, <1>6, <3>1, Zenon
  <2>3. QED
    BY <1>4, <1>10, <2>1, <2>2, Zenon
<1>11. QED
  BY <1>7, <1>8, <1>9, <1>10, Zenon DEF Registered, r, tool

\* register_backend as a whole.
LEMMA RegisterEffect ==
  ASSUME NEW tools, NEW backend \in Part, NEW k, NEW list \in Seq(Tool),
         \A t \in Range(list) : t.from = k
  PROVE  Registered(RegisterBackend(tools, backend, list), tools, backend, list, Len(list))
<1>0. PICK f : Ends(f, RegisterBackend(tools, backend, list), tools, backend, list)
  BY RegisterRounds, Zenon
<1>1. /\ RegisterBackend(tools, backend, list) = f[Len(list)] /\ f[0] = tools
      /\ \A n \in 0..(Len(list) - 1) : f[n + 1] = RegisterTool(f[n], backend, list[n + 1])
  BY <1>0, Zenon DEF Ends
<1>. DEFINE S == {n \in Nat : n <= Len(list) => Registered(f[n], tools, backend, list, n)}
<1>2. 0 \in S
  <2>1. \A j \in 1..0 : FALSE
    OBVIOUS
  <2>2. Registered(tools, tools, backend, list, 0)
    BY <2>1, Zenon DEF Registered
  <2>3. QED
    BY <1>1, <2>2
<1>3. Len(list) \in Nat
  BY LenProperties
<1>4. ASSUME NEW n \in Nat, n \in S PROVE n + 1 \in S
  <2>1. CASE n + 1 <= Len(list)
    <3>1. n \in 0..(Len(list) - 1) /\ n <= Len(list) /\ n + 1 \in Nat
      BY <1>3, <2>1
    <3>2. Registered(f[n], tools, backend, list, n)
      BY <1>4, <3>1
    <3>3. Registered(f[n + 1], tools, backend, list, n + 1)
      BY <1>1, <3>1, <3>2, RegisteredNext, Zenon
    <3>4. QED
      BY <3>1, <3>3, Zenon
  <2>2. CASE ~(n + 1 <= Len(list))
    BY <2>2
  <2>3. QED
    BY <2>1, <2>2
<1>. HIDE DEF S
<1>5. Len(list) \in S
  BY <1>2, <1>3, <1>4, Induction
<1>6. Registered(f[Len(list)], tools, backend, list, Len(list))
  BY <1>3, <1>5 DEF S
<1>7. QED
  BY <1>1, <1>6, Zenon
-----------------------------------------------------------------------------
(* The inductive invariant of main. *)

BaseInv ==
  /\ pc \in {"load", "http", "stdio", "stub", "auth", "audit", "share", "serving", "failed"}
  /\ config \in Configs \cup {<<>>} /\ i \in 0..(Len(config) + 1)
  /\ caller \in {"none", "admin", "token"} /\ audit \in {"off", "on"}

\* What is discovered when: HTTP first, then stdio, each in file order.
OrderInv ==
  /\ pc \notin {"load", "failed"} =>
       \A j, k \in Indices : config[j].name = config[k].name => j = k
  /\ pc \in {"http", "stdio"} => i # 0
  /\ pc = "load" => offered = EmptyMap
  /\ pc = "http" => \A j \in DOMAIN offered : config[j].type = "Http" /\ j < i
  /\ pc = "stdio" =>
       \A j \in DOMAIN offered : config[j].type = "Stdio" => j < i

\* The connections are those of the entries that were discovered.
MapInv ==
  /\ DOMAIN offered \subseteq Indices /\ offered \in [DOMAIN offered -> Offers]
  /\ backends_map \in [DOMAIN backends_map -> Indices]
  /\ DOMAIN backends_map = {config[j].name : j \in DOMAIN offered}
  /\ \A j \in DOMAIN offered : backends_map[config[j].name] = j

\* What is listed was offered, unless nothing was and the stubs are listed.
CatalogInv ==
  \A x \in DOMAIN catalog :
    /\ catalog[x].name = x
    /\ \/ /\ Offerer(x) \in DOMAIN offered
          /\ catalog[x].backend = config[Offerer(x)].name
          /\ catalog[x].tool.name \in Range(offered[Offerer(x)])
       \/ /\ Stub(x) /\ catalog[x].backend \in Stubs
          /\ DOMAIN offered = {} /\ pc \notin {"load", "http", "stdio", "stub"}

\* No entry discovered so far, before k, offered t.
First(k, t) == \A j \in DOMAIN offered : Before(j, k) => t \notin Range(offered[j])

\* FirstKeepsName, in terms of Keeps.
FirstInv ==
  \A k \in DOMAIN offered : \A t \in Range(offered[k]) :
    LET tool == [from |-> k, name |-> t]
    IN  /\ Keeps(catalog, tool, t) \/ Keeps(catalog, tool, <<config[k].name>> \o t)
        /\ First(k, t) => Keeps(catalog, tool, t)

\* What is built last fits what was built before.
ShareInv ==
  /\ pc # "serving" => DOMAIN validators = {}
  /\ \A n \in DOMAIN validators : n \in DOMAIN catalog /\ validators[n] = catalog[n]
  /\ pc = "serving" =>
       circuit_breakers = DOMAIN backends_map /\ DOMAIN health_map = DOMAIN backends_map

SInv == BaseInv /\ OrderInv /\ MapInv /\ CatalogInv /\ FirstInv /\ ShareInv

\* A configuration is a list of entries.
LEMMA ConfigTyped ==
  ASSUME BaseInv
  PROVE  /\ config \in Seq(BackendConfig) /\ Len(config) \in Nat /\ Indices = 1..Len(config)
         /\ \A k \in Indices : config[k].name \in STRING /\ config[k].type \in {"Http", "Stdio"}
         /\ i \in Nat /\ i <= Len(config) + 1
<1>1. config \in Seq(BackendConfig)
  <2>1. <<>> \in Seq(BackendConfig)
    BY EmptySeq
  <2>2. QED
    BY <2>1, ConfigsAssumption, Zenon DEF BaseInv
<1>2. Len(config) \in Nat /\ Indices = 1..Len(config)
  BY <1>1, LenProperties DEF Indices
<1>3. \A k \in Indices : config[k] \in BackendConfig
  BY <1>1, <1>2, ElementOfSeq
<1>4. \A c \in BackendConfig : c.name \in STRING /\ c.type \in {"Http", "Stdio"}
  BY DEF BackendConfig
<1>5. i \in Nat /\ i <= Len(config) + 1
  BY <1>2 DEF BaseInv
<1>6. QED
  BY <1>1, <1>2, <1>3, <1>4, <1>5, Zenon

\* The loop's next entry is of its type, and not before its place.
LEMMA NextOfFound ==
  ASSUME BaseInv, i # 0, NEW type
  PROVE  /\ NextOf(type, i) \in Nat /\ i <= NextOf(type, i)
         /\ NextOf(type, i) <= Len(config) => config[NextOf(type, i)].type = type
         /\ NextOf(type, i) <= Len(config) + 1
<1>1. i \in Nat /\ Len(config) \in Nat /\ i <= Len(config) + 1
  BY ConfigTyped
<1>. DEFINE T == {n \in i..(Len(config) + 1) : n <= Len(config) => config[n].type = type}
            OK(n) == /\ n <= Len(config) => config[n].type = type
                     /\ \A m \in i..(n - 1) : config[m].type # type
<1>2. T \subseteq Nat /\ Len(config) + 1 \in T
  BY <1>1
<1>3. PICK n \in T : \A m \in T : n <= m
  BY <1>2, Least
<1>4. n \in i..(Len(config) + 1) /\ (n <= Len(config) => config[n].type = type)
  OBVIOUS
<1>5. ASSUME NEW m \in i..(n - 1) PROVE config[m].type # type
  <2>1. m \in i..(Len(config) + 1) /\ ~(n <= m)
    BY <1>1, <1>4
  <2>2. QED
    BY <1>3, <2>1
<1>6. \E x \in i..(Len(config) + 1) : OK(x)
  BY <1>4, <1>5
<1>7. NextOf(type, i) \in i..(Len(config) + 1) /\ OK(NextOf(type, i))
  <2>1. NextOf(type, i) = CHOOSE x \in i..(Len(config) + 1) : OK(x)
    BY Zenon DEF NextOf
  <2>. HIDE DEF OK
  <2>2. QED
    BY <1>6, <2>1, Zenon
<1>8. QED
  BY <1>1, <1>7

\* The loop comes to an entry not seen before, later than all that were
\* discovered, and registers what it offers.
Found(k, names) ==
  /\ k \notin DOMAIN offered /\ \A j \in DOMAIN offered : Before(j, k)
  /\ Register(k, names)
  /\ pc \in {"http", "stdio"} /\ pc' = pc /\ i' = k + 1
  /\ config[k].type = IF pc = "http" THEN "Http" ELSE "Stdio"
  /\ UNCHANGED <<config, caller, audit, sharedVars>>

\* Or it moves on.
MoveOn ==
  /\ UNCHANGED <<config, catalog, backends_map, offered, caller, audit, sharedVars>>
  /\ \/ pc \in {"http", "stdio"} /\ pc' = pc /\ i < i' /\ i' <= Len(config) + 1 /\ i' \in Nat
     \/ pc = "http" /\ pc' = "stdio" /\ i' = 1
     \/ pc = "stdio" /\ pc' = "stub" /\ i' = 1

LEMMA DiscoverSteps ==
  ASSUME SInv, DiscoverHttp \/ DiscoverStdio \/ NoHttpClient
  PROVE  MoveOn \/ \E k \in Indices, names \in Offers : Found(k, names)
<1>0. BaseInv /\ OrderInv /\ MapInv
  BY Zenon DEF SInv
<1>1. Len(config) \in Nat /\ i \in Nat /\ Indices = 1..Len(config)
      /\ \A k \in Indices : config[k].type \in {"Http", "Stdio"}
  BY <1>0, ConfigTyped
<1>2. CASE NoHttpClient
  BY <1>2 DEF NoHttpClient, MoveOn
<1>3. ASSUME NEW place, NEW type, NEW then, Discover(place, type, then),
             \/ place = "http" /\ type = "Http" /\ then = "stdio"
             \/ place = "stdio" /\ type = "Stdio" /\ then = "stub"
      PROVE  MoveOn \/ \E k \in Indices, names \in Offers : Found(k, names)
  <2>. DEFINE k == NextOf(type, i)
  <2>1. pc = place /\ UNCHANGED <<config, caller, audit, sharedVars>>
    BY <1>3, Zenon DEF Discover
  <2>2. i # 0
    BY <1>0, <1>3, <2>1 DEF OrderInv
  <2>3. k \in Nat /\ i <= k /\ (k <= Len(config) => config[k].type = type) /\ k <= Len(config) + 1
    BY <1>0, <2>2, NextOfFound
  <2>4. CASE k > Len(config)
    <3>1. pc' = then /\ i' = 1 /\ UNCHANGED <<catalog, backends_map, offered>>
      BY <1>3, <2>4, Zenon DEF Discover
    <3>2. QED
      BY <1>3, <2>1, <3>1 DEF MoveOn
  <2>5. CASE ~(k > Len(config))
    <3>1. k \in Indices /\ config[k].type = type /\ i < k + 1 /\ k + 1 <= Len(config) + 1
          /\ k + 1 \in Nat
      BY <1>1, <2>2, <2>3, <2>5
    <3>2. /\ i' = k + 1 /\ pc' = pc
          /\ \/ \E names \in Offers : Register(k, names)
             \/ UNCHANGED <<catalog, backends_map, offered>>
      BY <1>3, <2>5, Zenon DEF Discover
    <3>. HIDE DEF k
    <3>3. CASE UNCHANGED <<catalog, backends_map, offered>>
      BY <1>3, <2>1, <3>1, <3>2, <3>3 DEF MoveOn
    <3>4. ASSUME NEW names \in Offers, Register(k, names) PROVE Found(k, names)
      <4>1. \A j \in DOMAIN offered : j \in Nat /\ j \in Indices
        BY <1>0, <1>1 DEF MapInv
      <4>2. ASSUME NEW j \in DOMAIN offered PROVE j # k /\ Before(j, k)
        <5>1. CASE place = "http"
          <6>1. config[j].type = "Http" /\ j < i /\ type = "Http"
            BY <1>0, <1>3, <2>1, <5>1 DEF OrderInv
          <6>2. j < k /\ j # k
            BY <1>1, <2>3, <4>1, <6>1
          <6>3. QED
            BY <3>1, <6>1, <6>2 DEF Before
        <5>2. CASE place = "stdio"
          <6>1. type = "Stdio" /\ (config[j].type = "Stdio" => j < i)
            BY <1>0, <1>3, <2>1, <5>2 DEF OrderInv
          <6>2. config[j].type = "Stdio" => j < k /\ j # k
            BY <1>1, <2>3, <4>1, <6>1
          <6>3. config[j].type \in {"Http", "Stdio"}
            BY <1>1, <4>1
          <6>4. QED
            BY <3>1, <6>1, <6>2, <6>3 DEF Before
        <5>3. QED
          BY <1>3, <5>1, <5>2
      <4>3. config[k].type = IF pc = "http" THEN "Http" ELSE "Stdio"
        BY <1>3, <2>1, <3>1
      <4>4. pc \in {"http", "stdio"}
        BY <1>3, <2>1
      <4>5. QED
        BY <2>1, <3>2, <3>4, <4>2, <4>3, <4>4, Zenon DEF Found
    <3>5. QED
      BY <3>1, <3>2, <3>3, <3>4, Zenon
  <2>6. QED
    BY <2>4, <2>5
<1>4. QED
  BY <1>2, <1>3, Zenon DEF DiscoverHttp, DiscoverStdio

\* What an entry offers, as the list register_backend is given.
Listing(k, names) == [n \in DOMAIN names |-> [from |-> k, name |-> names[n]]]

LEMMA ListingTyped ==
  ASSUME NEW k \in Nat, NEW names \in Seq(Name)
  PROVE  /\ Listing(k, names) \in Seq(Tool)
         /\ \A t \in Range(Listing(k, names)) :
              t.from = k /\ \E n \in Range(names) : t = [from |-> k, name |-> n]
         /\ \A n \in Range(names) :
              \E j \in 1..Len(Listing(k, names)) :
                Listing(k, names)[j] = [from |-> k, name |-> n]
<1>. DEFINE list == Listing(k, names)
<1>1. DOMAIN names = 1..Len(names) /\ Len(names) \in Nat
      /\ \A n \in 1..Len(names) : names[n] \in Name
  BY LenProperties, ElementOfSeq
<1>2. list = [n \in 1..Len(names) |-> [from |-> k, name |-> names[n]]]
  BY <1>1, Zenon DEF Listing
<1>3. \A n \in 1..Len(names) : [from |-> k, name |-> names[n]] \in Tool
  BY <1>1 DEF Tool
<1>4. list \in [1..Len(names) -> Tool]
  BY <1>2, <1>3, Zenon
<1>. HIDE DEF list
<1>5. list \in Seq(Tool) /\ Len(list) = Len(names) /\ DOMAIN list = 1..Len(names)
      /\ \A n \in 1..Len(names) : list[n] = [from |-> k, name |-> names[n]]
  <2>1. list \in Seq(Tool) /\ Len(list) = Len(names)
    BY <1>1, <1>4
  <2>2. QED
    BY <1>2, <2>1, Zenon
<1>6. ASSUME NEW t \in Range(list)
      PROVE  t.from = k /\ \E n \in Range(names) : t = [from |-> k, name |-> n]
  <2>1. PICK j \in 1..Len(names) : t = list[j]
    BY <1>5, <1>6, Zenon DEF Range
  <2>2. t = [from |-> k, name |-> names[j]] /\ names[j] \in Range(names)
    BY <1>1, <1>5, <2>1, Zenon DEF Range
  <2>3. t.from = k
    BY <2>2
  <2>4. QED
    BY <2>2, <2>3, Zenon
<1>7. ASSUME NEW n \in Range(names)
      PROVE  \E j \in 1..Len(list) : list[j] = [from |-> k, name |-> n]
  <2>1. PICK j \in 1..Len(names) : n = names[j]
    BY <1>1, <1>7, Zenon DEF Range
  <2>2. QED
    BY <1>5, <2>1, Zenon
<1>8. QED
  BY <1>5, <1>6, <1>7, Zenon DEF list

LEMMA SeqMonotone ==
  ASSUME NEW S, NEW T, S \subseteq T
  PROVE  Seq(S) \subseteq Seq(T)
<1>1. ASSUME NEW s \in Seq(S) PROVE s \in Seq(T)
  <2>1. Len(s) \in Nat /\ s \in [1..Len(s) -> S]
    BY LenProperties
  <2>2. s \in [1..Len(s) -> T]
    BY <2>1
  <2>3. QED
    BY <2>1, <2>2, SeqDef
<1>2. QED
  BY <1>1

\* The catalog once an entry's tools are registered.
LEMMA FoundCatalog ==
  ASSUME SInv, NEW k \in Indices, NEW names \in Offers, Found(k, names)
  PROVE  /\ \A x \in DOMAIN catalog' :
              \/ x \in DOMAIN catalog /\ catalog'[x] = catalog[x]
              \/ \E t \in Range(names) :
                   catalog'[x] = [name |-> x, tool |-> [from |-> k, name |-> t],
                                  backend |-> config[k].name]
         /\ \A t, x : Keeps(catalog, t, x) => Keeps(catalog', t, x)
         /\ \A t \in Range(names) :
              LET tool == [from |-> k, name |-> t]
              IN  /\ \/ Keeps(catalog', tool, t)
                     \/ Keeps(catalog', tool, <<config[k].name>> \o t)
                  /\ (\A x \in DOMAIN catalog : catalog[x].tool.name # t) =>
                       Keeps(catalog', tool, t)
<1>. DEFINE b == config[k].name
            list == Listing(k, names)
<1>1. k \in Nat /\ b \in Part /\ names \in Seq(Name)
  <2>1. STRING \subseteq Part
    BY Zenon DEF Part
  <2>2. Seq(STRING) \subseteq Name
    BY <2>1, SeqMonotone DEF Name
  <2>3. Seq(Seq(STRING)) \subseteq Seq(Name)
    BY <2>2, SeqMonotone
  <2>4. k \in Nat /\ b \in STRING
    BY ConfigTyped DEF SInv
  <2>5. QED
    BY <2>1, <2>3, <2>4, OffersAssumption, Zenon
<1>2. catalog' = RegisterBackend(catalog, b, list)
  BY Zenon DEF Found, Register, Listing
<1>3. /\ list \in Seq(Tool)
      /\ \A t \in Range(list) :
           t.from = k /\ \E n \in Range(names) : t = [from |-> k, name |-> n]
      /\ \A n \in Range(names) : \E j \in 1..Len(list) : list[j] = [from |-> k, name |-> n]
  BY <1>1, ListingTyped
<1>. HIDE DEF list, b
<1>4. Registered(catalog', catalog, b, list, Len(list))
  BY <1>1, <1>2, <1>3, RegisterEffect
<1>5. ASSUME NEW x \in DOMAIN catalog', ~(x \in DOMAIN catalog /\ catalog'[x] = catalog[x])
      PROVE  \E t \in Range(names) :
               catalog'[x] = [name |-> x, tool |-> [from |-> k, name |-> t], backend |-> b]
  <2>1. PICK t \in Range(list) : catalog'[x] = [name |-> x, tool |-> t, backend |-> b]
    BY <1>4, <1>5, Zenon DEF Registered
  <2>2. PICK n \in Range(names) : t = [from |-> k, name |-> n]
    BY <1>3, <2>1, Zenon
  <2>3. catalog'[x] = [name |-> x, tool |-> [from |-> k, name |-> n], backend |-> b]
    BY <2>1, <2>2
  <2>4. QED
    BY <2>3, Zenon
<1>6. ASSUME NEW t \in Range(names)
      PROVE  LET tool == [from |-> k, name |-> t]
             IN  /\ Keeps(catalog', tool, t) \/ Keeps(catalog', tool, <<b>> \o t)
                 /\ (\A x \in DOMAIN catalog : catalog[x].tool.name # t) =>
                      Keeps(catalog', tool, t)
  <2>1. PICK j \in 1..Len(list) : list[j] = [from |-> k, name |-> t]
    BY <1>3, <1>6, Zenon
  <2>2. list[j].name = t
    BY <2>1
  <2>3. QED
    BY <1>4, <2>1, <2>2, Zenon DEF Registered
<1>7. QED
  BY <1>4, <1>5, <1>6, Zenon DEF Registered, b

\* Registering an entry keeps the invariant.
LEMMA FoundKeeps ==
  ASSUME SInv, NEW k \in Indices, NEW names \in Offers, Found(k, names)
  PROVE  SInv'
<1>0. BaseInv /\ OrderInv /\ MapInv /\ CatalogInv /\ FirstInv /\ ShareInv
  BY Zenon DEF SInv
<1>1. /\ Len(config) \in Nat /\ i \in Nat /\ Indices = 1..Len(config)
      /\ k \in Nat /\ config[k].name \in STRING
  BY <1>0, ConfigTyped
<1>2. /\ k \notin DOMAIN offered /\ \A j \in DOMAIN offered : Before(j, k)
      /\ backends_map' = Insert(backends_map, config[k].name, k)
      /\ offered' = Insert(offered, k, names)
      /\ pc \in {"http", "stdio"} /\ pc' = pc /\ i' = k + 1
      /\ config[k].type = IF pc = "http" THEN "Http" ELSE "Stdio"
      /\ UNCHANGED <<config, caller, audit, validators, health_map, circuit_breakers>>
  BY Zenon DEF Found, Register, sharedVars
<1>3. /\ DOMAIN offered' = DOMAIN offered \cup {k} /\ offered'[k] = names
      /\ \A j \in DOMAIN offered : offered'[j] = offered[j]
  BY <1>2, Zenon DEF Insert
<1>4. Indices' = Indices /\ \A j, l : Before(j, l)' = Before(j, l)
  BY <1>2, Zenon DEF Indices, Before
<1>5. BaseInv'
  <2>1. i' \in 0..(Len(config') + 1)
    BY <1>1, <1>2
  <2>2. QED
    BY <1>0, <1>2, <2>1, Zenon DEF BaseInv
<1>6. OrderInv'
  <2>1. k < k + 1 /\ k + 1 # 0 /\ \A j \in DOMAIN offered : j \in Nat
    BY <1>0, <1>1 DEF MapInv
  <2>2. CASE pc = "http"
    <3>1. ASSUME NEW j \in DOMAIN offered PROVE config[j].type = "Http" /\ j < k + 1
      <4>1. config[j].type = "Http" /\ Before(j, k) /\ config[k].type = "Http"
        BY <1>0, <1>2, <2>2 DEF OrderInv
      <4>2. j < k
        BY <4>1 DEF Before
      <4>3. QED
        BY <1>1, <2>1, <4>1, <4>2
    <3>2. QED
      BY <1>0, <1>2, <1>3, <1>4, <2>1, <2>2, <3>1 DEF OrderInv
  <2>3. CASE pc = "stdio"
    <3>1. ASSUME NEW j \in DOMAIN offered, config[j].type = "Stdio" PROVE j < k + 1
      <4>1. Before(j, k) /\ config[k].type = "Stdio"
        BY <1>2, <2>3
      <4>2. j < k
        BY <3>1, <4>1 DEF Before
      <4>3. QED
        BY <1>1, <2>1, <4>2
    <3>2. QED
      BY <1>0, <1>2, <1>3, <1>4, <2>1, <2>3, <3>1 DEF OrderInv
  <2>4. QED
    BY <1>2, <2>2, <2>3
<1>7. MapInv'
  <2>. DEFINE b == config[k].name
  <2>1. DOMAIN offered' \subseteq Indices /\ \A j \in DOMAIN offered' : offered'[j] \in Offers
    BY <1>0, <1>3, Zenon DEF MapInv
  <2>2. offered' = [j \in DOMAIN offered' |-> offered'[j]]
    BY <1>2, Zenon DEF Insert
  <2>3. /\ DOMAIN backends_map' = DOMAIN backends_map \cup {b} /\ backends_map'[b] = k
        /\ \A n \in DOMAIN backends_map : n # b => backends_map'[n] = backends_map[n]
        /\ backends_map' = [n \in DOMAIN backends_map' |-> backends_map'[n]]
    BY <1>2, Zenon DEF Insert
  <2>4. \A n \in DOMAIN backends_map' : backends_map'[n] \in Indices
    BY <1>0, <2>3, Zenon DEF MapInv
  <2>5. DOMAIN backends_map' = {config[j].name : j \in DOMAIN offered'}
    BY <1>0, <1>3, <2>3 DEF MapInv
  <2>6. ASSUME NEW j \in DOMAIN offered' PROVE backends_map'[config[j].name] = j
    <3>1. CASE j = k
      BY <2>3, <3>1, Zenon
    <3>2. CASE j # k
      <4>1. j \in DOMAIN offered /\ j \in Indices
        BY <1>0, <1>3, <3>2, Zenon DEF MapInv
      <4>2. pc \notin {"load", "failed"}
        BY <1>2
      <4>3. config[j].name # b
        BY <1>0, <3>2, <4>1, <4>2, Zenon DEF OrderInv
      <4>4. config[j].name \in DOMAIN backends_map
        BY <1>0, <4>1, Zenon DEF MapInv
      <4>5. QED
        BY <1>0, <2>3, <4>1, <4>3, <4>4, Zenon DEF MapInv
    <3>3. QED
      BY <3>1, <3>2
  <2>. HIDE DEF b
  <2>7. offered' \in [DOMAIN offered' -> Offers] /\ backends_map' \in [DOMAIN backends_map' -> Indices]
    BY <2>1, <2>2, <2>3, <2>4, Zenon
  <2>8. QED
    BY <1>2, <1>4, <2>1, <2>5, <2>6, <2>7 DEF MapInv
<1>8. CatalogInv'
  <2>. SUFFICES ASSUME NEW x \in DOMAIN catalog'
                PROVE  /\ catalog'[x].name = x
                       /\ Offerer(x)' \in DOMAIN offered'
                       /\ catalog'[x].backend = config[Offerer(x)'].name
                       /\ catalog'[x].tool.name \in Range(offered'[Offerer(x)'])
    BY <1>2, Zenon DEF CatalogInv
  <2>1. CASE x \in DOMAIN catalog /\ catalog'[x] = catalog[x]
    <3>1. pc \in {"http", "stdio"}
      BY <1>2
    <3>2. /\ catalog[x].name = x /\ Offerer(x) \in DOMAIN offered
          /\ catalog[x].backend = config[Offerer(x)].name
          /\ catalog[x].tool.name \in Range(offered[Offerer(x)])
      BY <1>0, <2>1, <3>1 DEF CatalogInv
    <3>3. Offerer(x)' = Offerer(x)
      BY <2>1, Zenon DEF Offerer
    <3>4. QED
      BY <1>3, <2>1, <3>2, <3>3, Zenon
  <2>2. ASSUME NEW t \in Range(names),
               catalog'[x] = [name |-> x, tool |-> [from |-> k, name |-> t],
                              backend |-> config[k].name]
        PROVE  /\ catalog'[x].name = x /\ Offerer(x)' = k
               /\ catalog'[x].backend = config[k].name /\ catalog'[x].tool.name = t
    BY <2>2 DEF Offerer
  <2>3. CASE ~(x \in DOMAIN catalog /\ catalog'[x] = catalog[x])
    <3>1. PICK t \in Range(names) :
             catalog'[x] = [name |-> x, tool |-> [from |-> k, name |-> t],
                            backend |-> config[k].name]
      BY <2>3, FoundCatalog, Zenon
    <3>2. QED
      BY <1>3, <2>2, <3>1, Zenon
  <2>4. QED
    BY <2>1, <2>3
<1>9. FirstInv'
  <2>1. ASSUME NEW j \in DOMAIN offered, NEW t
        PROVE  First(j, t)' => First(j, t)
    BY <1>3, <1>4, Zenon DEF First
  <2>2. ASSUME NEW j \in DOMAIN offered', NEW t \in Range(offered'[j])
        PROVE  LET tool == [from |-> j, name |-> t]
               IN  /\ \/ Keeps(catalog', tool, t)
                      \/ Keeps(catalog', tool, <<config[j].name>> \o t)
                   /\ First(j, t)' => Keeps(catalog', tool, t)
    <3>1. CASE j = k
      <4>1. t \in Range(names)
        BY <1>3, <2>2, <3>1, Zenon
      <4>2. ASSUME First(k, t)', NEW x \in DOMAIN catalog PROVE catalog[x].tool.name # t
        <5>1. pc \in {"http", "stdio"}
          BY <1>2
        <5>2. Offerer(x) \in DOMAIN offered /\ catalog[x].tool.name \in Range(offered[Offerer(x)])
          BY <1>0, <4>2, <5>1 DEF CatalogInv
        <5>3. t \notin Range(offered[Offerer(x)])
          BY <1>2, <1>3, <1>4, <4>2, <5>2, Zenon DEF First
        <5>4. QED
          BY <5>2, <5>3, Zenon
      <4>3. QED
        BY <3>1, <4>1, <4>2, FoundCatalog, Zenon
    <3>2. CASE j # k
      <4>1. j \in DOMAIN offered /\ t \in Range(offered[j])
        BY <1>3, <2>2, <3>2, Zenon
      <4>2. QED
        BY <1>0, <2>1, <4>1, FoundCatalog, Zenon DEF FirstInv
    <3>3. QED
      BY <3>1, <3>2
  <2>3. QED
    BY <1>2, <2>2, Zenon DEF FirstInv
<1>10. ShareInv'
  <2>1. pc' # "serving" /\ pc # "serving" /\ validators' = validators
    BY <1>2
  <2>2. QED
    BY <1>0, <2>1, Zenon DEF ShareInv
<1>11. QED
  BY <1>5, <1>6, <1>7, <1>8, <1>9, <1>10, Zenon DEF SInv

\* A name of one part, and a stub backend's two tools.
LEMMA Singleton == ASSUME NEW S, NEW x \in S PROVE <<x>> \in Seq(S)
OBVIOUS

LEMMA StubTyped ==
  ASSUME NEW a \in Part, NEW b \in Part
  PROVE  /\ StubTools(<<a, b>>) \in Seq(Tool)
         /\ \A t \in Range(StubTools(<<a, b>>)) : t.from = 0
<1>. DEFINE f(x) == [from |-> 0, name |-> <<x>>]
            list == StubTools(<<a, b>>)
<1>1. <<a>> \in Name /\ <<b>> \in Name
  BY Singleton DEF Name
<1>2. f(a) \in Tool /\ f(b) \in Tool /\ f(a).from = 0 /\ f(b).from = 0
  BY <1>1 DEF Tool
<1>3. DOMAIN <<a, b>> = 1..2 /\ <<a, b>>[1] = a /\ <<a, b>>[2] = b
  OBVIOUS
<1>4. list = [j \in 1..2 |-> f(<<a, b>>[j])]
  BY <1>3, Zenon DEF StubTools
<1>. HIDE DEF f, list
<1>5. DOMAIN list = 1..2 /\ list[1] = f(a) /\ list[2] = f(b)
  <2>1. 1 \in 1..2 /\ 2 \in 1..2
    OBVIOUS
  <2>2. QED
    BY <1>3, <1>4, <2>1, Zenon
<1>6. \A j \in 1..2 : j = 1 \/ j = 2
  OBVIOUS
<1>7. list \in [1..2 -> Tool]
  <2>1. \A j \in 1..2 : list[j] \in Tool
    BY <1>2, <1>5, <1>6, Zenon
  <2>2. list = [j \in 1..2 |-> list[j]]
    BY <1>4, Zenon
  <2>3. QED
    BY <2>1, <2>2, Zenon
<1>8. list \in Seq(Tool)
  BY <1>7, SeqDef
<1>9. \A t \in Range(list) : t = f(a) \/ t = f(b)
  BY <1>5, <1>6, Zenon DEF Range
<1>10. \A t \in Range(list) : t.from = 0
  BY <1>2, <1>9, Zenon
<1>11. QED
  BY <1>8, <1>10, Zenon DEF list

\* The stub catalog lists stubs, under their names.
LEMMA StubEntries ==
  \A x \in DOMAIN StubCatalog :
    /\ StubCatalog[x].name = x /\ StubCatalog[x].tool.from = 0
    /\ StubCatalog[x].backend \in Stubs
<1>. DEFINE l1 == StubTools(<<"list_workflows", "execute_workflow">>)
            l2 == StubTools(<<"read_query", "write_query">>)
            c1 == RegisterBackend(EmptyMap, "stub-n8n", l1)
            c2 == RegisterBackend(c1, "stub-sqlite", l2)
<1>1. /\ l1 \in Seq(Tool) /\ \A t \in Range(l1) : t.from = 0
      /\ l2 \in Seq(Tool) /\ \A t \in Range(l2) : t.from = 0
  <2>1. /\ "list_workflows" \in Part /\ "execute_workflow" \in Part
        /\ "read_query" \in Part /\ "write_query" \in Part
    BY Zenon DEF Part
  <2>2. QED
    BY <2>1, StubTyped, Zenon
<1>2. StubCatalog = c2
  BY Zenon DEF StubCatalog
<1>3. /\ "stub-n8n" \in Stubs /\ "stub-sqlite" \in Stubs
      /\ "stub-n8n" \in Part /\ "stub-sqlite" \in Part
  BY Zenon DEF Part, Stubs
<1>. HIDE DEF l1, l2
<1>4. Registered(c1, EmptyMap, "stub-n8n", l1, Len(l1))
  BY <1>1, <1>3, RegisterEffect
<1>. HIDE DEF c1
<1>5. Registered(c2, c1, "stub-sqlite", l2, Len(l2))
  BY <1>1, <1>3, RegisterEffect
<1>. HIDE DEF c2
<1>6. DOMAIN EmptyMap = {}
  BY Zenon DEF EmptyMap
<1>7. ASSUME NEW x \in DOMAIN c1
      PROVE  c1[x].name = x /\ c1[x].tool.from = 0 /\ c1[x].backend \in Stubs
  <2>1. \/ x \in DOMAIN EmptyMap /\ c1[x] = EmptyMap[x]
        \/ \E t \in Range(l1) : c1[x] = [name |-> x, tool |-> t, backend |-> "stub-n8n"]
    BY <1>4, <1>7, Zenon DEF Registered
  <2>2. ASSUME NEW t \in Range(l1), c1[x] = [name |-> x, tool |-> t, backend |-> "stub-n8n"]
        PROVE  c1[x].name = x /\ c1[x].tool.from = 0 /\ c1[x].backend \in Stubs
    <3>1. t.from = 0
      BY <1>1, <2>2, Zenon
    <3>2. c1[x].name = x /\ c1[x].tool = t /\ c1[x].backend = "stub-n8n"
      BY <2>2
    <3>3. QED
      BY <1>3, <3>1, <3>2, Zenon
  <2>3. QED
    BY <1>6, <2>1, <2>2, Zenon
<1>8. ASSUME NEW x \in DOMAIN c2
      PROVE  c2[x].name = x /\ c2[x].tool.from = 0 /\ c2[x].backend \in Stubs
  <2>1. \/ x \in DOMAIN c1 /\ c2[x] = c1[x]
        \/ \E t \in Range(l2) : c2[x] = [name |-> x, tool |-> t, backend |-> "stub-sqlite"]
    BY <1>5, <1>8, Zenon DEF Registered
  <2>2. ASSUME NEW t \in Range(l2), c2[x] = [name |-> x, tool |-> t, backend |-> "stub-sqlite"]
        PROVE  c2[x].name = x /\ c2[x].tool.from = 0 /\ c2[x].backend \in Stubs
    <3>1. t.from = 0
      BY <1>1, <2>2, Zenon
    <3>2. c2[x].name = x /\ c2[x].tool = t /\ c2[x].backend = "stub-sqlite"
      BY <2>2
    <3>3. QED
      BY <1>3, <3>1, <3>2, Zenon
  <2>3. QED
    BY <1>7, <2>1, <2>2, Zenon
<1>9. QED
  BY <1>2, <1>8, Zenon

\* Every step of main keeps the invariant.
LEMMA StartupNext == SInv /\ [Next]_vars => SInv'
<1>. SUFFICES ASSUME SInv, [Next]_vars PROVE SInv'
  OBVIOUS
<1>. USE DEF sharedVars
<1>0. BaseInv /\ OrderInv /\ MapInv /\ CatalogInv /\ FirstInv /\ ShareInv
  BY Zenon DEF SInv
<1>1. Len(config) \in Nat /\ i \in Nat /\ Indices = 1..Len(config)
  BY <1>0, ConfigTyped
<1>2. ASSUME UNCHANGED <<config, catalog, backends_map, offered>>,
             pc' \in {"load", "http", "stdio", "stub"} => pc \in {"load", "http", "stdio", "stub"}
      PROVE  MapInv' /\ CatalogInv' /\ FirstInv'
  <2>1. MapInv'
    BY <1>0, <1>2, Zenon DEF MapInv, Indices
  <2>2. CatalogInv'
    <3>1. pc \notin {"load", "http", "stdio", "stub"} => pc' \notin {"load", "http", "stdio", "stub"}
      BY <1>2, Zenon
    <3>2. QED
      BY <1>0, <1>2, <3>1, Zenon DEF CatalogInv, Offerer, Stub
  <2>3. FirstInv'
    BY <1>0, <1>2, Zenon DEF FirstInv, First, Before
  <2>4. QED
    BY <2>1, <2>2, <2>3
<1>3. CASE LoadConfig
  <2>1. /\ pc = "load" /\ i' = 1 /\ pc' \in {"http", "failed"}
        /\ config' \in Configs \/ config' = config
        /\ pc' = "http" => ValidateBackends(config')
        /\ UNCHANGED <<catalog, backends_map, caller, audit, validators, health_map,
                       circuit_breakers, offered>>
    BY <1>3 DEF LoadConfig
  <2>2. DOMAIN offered = {} /\ DOMAIN offered' = {}
    BY <1>0, <2>1, Zenon DEF OrderInv, EmptyMap
  <2>3. DOMAIN catalog = {} /\ DOMAIN backends_map = {}
    BY <1>0, <2>1, <2>2 DEF CatalogInv, MapInv
  <2>4. config' \in Seq(BackendConfig)
    BY <1>0, <2>1, ConfigTyped, ConfigsAssumption, Zenon
  <2>5. BaseInv'
    <3>1. Len(config') \in Nat
      BY <2>4, LenProperties
    <3>2. i' \in 0..(Len(config') + 1)
      BY <2>1, <3>1
    <3>3. QED
      BY <1>0, <2>1, <3>2, Zenon DEF BaseInv
  <2>6. OrderInv'
    <3>1. pc' = "http" => \A j, k \in Indices' : config'[j].name = config'[k].name => j = k
      BY <2>1, Zenon DEF ValidateBackends, Indices
    <3>2. QED
      BY <2>1, <2>2, <3>1 DEF OrderInv
  <2>7. MapInv'
    BY <1>0, <2>1, <2>2, <2>3 DEF MapInv
  <2>8. CatalogInv' /\ FirstInv'
    BY <2>1, <2>2, <2>3, Zenon DEF CatalogInv, FirstInv
  <2>9. ShareInv'
    <3>1. pc # "serving" /\ pc' # "serving"
      BY <2>1
    <3>2. QED
      BY <1>0, <2>1, <3>1, Zenon DEF ShareInv
  <2>10. QED
    BY <2>5, <2>6, <2>7, <2>8, <2>9, Zenon DEF SInv
<1>4. CASE MoveOn
  <2>1. /\ UNCHANGED <<config, catalog, backends_map, offered, caller, audit, validators,
                       health_map, circuit_breakers>>
        /\ pc \in {"http", "stdio"} /\ pc' \in {"http", "stdio", "stub"}
    BY <1>4 DEF MoveOn
  <2>2. MapInv' /\ CatalogInv' /\ FirstInv'
    BY <1>2, <2>1
  <2>3. i' \in 0..(Len(config) + 1) /\ i' # 0 /\ (pc' = pc => i < i')
    BY <1>1, <1>4 DEF MoveOn
  <2>4. BaseInv'
    <3>1. pc' \in {"load", "http", "stdio", "stub", "auth", "audit", "share", "serving", "failed"}
      BY <2>1
    <3>2. QED
      BY <1>0, <2>1, <2>3, <3>1, Zenon DEF BaseInv
  <2>5. OrderInv'
    <3>1. \A j \in DOMAIN offered : j \in Nat /\ (j < i /\ i < i' => j < i')
      BY <1>0, <1>1, <2>3 DEF MapInv
    <3>2. \A j, k \in Indices' : config'[j].name = config'[k].name => j = k
      BY <1>0, <2>1 DEF OrderInv, Indices
    <3>3. CASE pc' = pc
      BY <1>0, <2>1, <2>3, <3>1, <3>2, <3>3 DEF OrderInv
    <3>4. CASE pc = "http" /\ pc' = "stdio"
      <4>1. \A j \in DOMAIN offered : config[j].type # "Stdio"
        BY <1>0, <3>4 DEF OrderInv
      <4>2. QED
        BY <2>1, <2>3, <3>2, <3>4, <4>1 DEF OrderInv
    <3>5. CASE pc' = "stub"
      BY <3>2, <3>5 DEF OrderInv
    <3>6. QED
      BY <1>4, <3>3, <3>4, <3>5, Zenon DEF MoveOn
  <2>6. ShareInv'
    <3>1. pc # "serving" /\ pc' # "serving"
      BY <2>1
    <3>2. QED
      BY <1>0, <2>1, <3>1, Zenon DEF ShareInv
  <2>7. QED
    BY <2>2, <2>4, <2>5, <2>6, Zenon DEF SInv
<1>5. CASE StubFallback
  <2>1. /\ pc = "stub" /\ pc' = "auth"
        /\ catalog' = IF backends_map = EmptyMap THEN StubCatalog ELSE catalog
        /\ UNCHANGED <<config, i, backends_map, offered, caller, audit, validators,
                       health_map, circuit_breakers>>
    BY <1>5, Zenon DEF StubFallback
  <2>2. BaseInv' /\ OrderInv' /\ ShareInv'
    BY <1>0, <2>1 DEF BaseInv, OrderInv, ShareInv, Indices
  <2>3. MapInv'
    BY <1>0, <2>1, Zenon DEF MapInv, Indices
  <2>4. CASE backends_map = EmptyMap
    <3>1. DOMAIN offered = {} /\ catalog' = StubCatalog
      <4>1. DOMAIN backends_map = {}
        BY <2>4, Zenon DEF EmptyMap
      <4>2. \A j \in DOMAIN offered : config[j].name \in DOMAIN backends_map
        BY <1>0 DEF MapInv
      <4>3. QED
        BY <2>1, <2>4, <4>1, <4>2, Zenon
    <3>2. CatalogInv'
      <4>1. pc' \notin {"load", "http", "stdio", "stub"}
        BY <2>1
      <4>2. QED
        BY <2>1, <3>1, <4>1, StubEntries, Zenon DEF CatalogInv, Offerer, Stub
    <3>3. FirstInv'
      BY <2>1, <3>1, Zenon DEF FirstInv
    <3>4. QED
      BY <2>2, <2>3, <3>2, <3>3, Zenon DEF SInv
  <2>5. CASE backends_map # EmptyMap
    <3>1. CatalogInv' /\ FirstInv'
      BY <1>2, <2>1, <2>5
    <3>2. QED
      BY <2>2, <2>3, <3>1, Zenon DEF SInv
  <2>6. QED
    BY <2>4, <2>5
<1>6. CASE Authenticate \/ OpenAudit
  <2>1. /\ pc \in {"auth", "audit"} /\ pc' \in {"audit", "share", "failed"}
        /\ caller' \in {"admin", "token", caller} /\ audit' \in {"off", "on", audit}
        /\ UNCHANGED <<config, i, catalog, backends_map, offered, validators,
                       health_map, circuit_breakers>>
    BY <1>6 DEF Authenticate, OpenAudit
  <2>2. BaseInv' /\ OrderInv' /\ ShareInv'
    BY <1>0, <2>1 DEF BaseInv, OrderInv, ShareInv, Indices
  <2>3. MapInv' /\ CatalogInv' /\ FirstInv'
    BY <1>2, <2>1
  <2>4. QED
    BY <2>2, <2>3, Zenon DEF SInv
<1>7. CASE Share
  <2>1. /\ pc = "share" /\ pc' = "serving"
        /\ validators' \in FromCatalog(catalog, BadSchemas)
        /\ health_map' = [b \in DOMAIN backends_map |-> "healthy"]
        /\ circuit_breakers' = WithBreaker
        /\ UNCHANGED <<config, i, catalog, backends_map, caller, audit, offered>>
    BY <1>7, Zenon DEF Share
  <2>2. BaseInv' /\ OrderInv'
    BY <1>0, <2>1 DEF BaseInv, OrderInv, Indices
  <2>3. MapInv' /\ CatalogInv' /\ FirstInv'
    BY <1>2, <2>1
  <2>4. circuit_breakers' = DOMAIN backends_map
    BY <1>0, <2>1 DEF WithBreaker, MapInv
  <2>5. ASSUME NEW n \in DOMAIN validators'
        PROVE  n \in DOMAIN catalog /\ validators'[n] = catalog[n]
    <3>1. validators'[n] \in AllTools(catalog) /\ validators'[n].name = n
      BY <2>1, <2>5 DEF FromCatalog
    <3>2. PICK x \in DOMAIN catalog : validators'[n] = catalog[x]
      BY <3>1, Zenon DEF AllTools
    <3>3. catalog[x].name = x
      BY <1>0, Zenon DEF CatalogInv
    <3>4. QED
      BY <3>1, <3>2, <3>3, Zenon
  <2>6. ShareInv'
    BY <2>1, <2>4, <2>5 DEF ShareInv
  <2>7. QED
    BY <2>2, <2>3, <2>6, Zenon DEF SInv
<1>8. CASE DiscoverHttp \/ DiscoverStdio \/ NoHttpClient
  BY <1>4, <1>8, DiscoverSteps, FoundKeeps, Zenon
<1>9. CASE UNCHANGED vars
  <2>1. UNCHANGED <<pc, config, i, catalog, backends_map, caller, audit, validators, health_map,
                    circuit_breakers, offered>>
    BY <1>9, Zenon DEF vars
  <2>2. BaseInv' /\ OrderInv' /\ ShareInv'
    BY <1>0, <2>1, Zenon DEF BaseInv, OrderInv, ShareInv, Indices
  <2>3. MapInv' /\ CatalogInv' /\ FirstInv'
    BY <1>2, <2>1, Zenon
  <2>4. QED
    BY <2>2, <2>3, Zenon DEF SInv
<1>10. QED
  BY <1>3, <1>5, <1>6, <1>7, <1>8, <1>9, Zenon DEF Next

LEMMA StartupInit == Init => SInv
<1>. SUFFICES ASSUME Init PROVE SInv
  OBVIOUS
<1>1. /\ DOMAIN catalog = {} /\ DOMAIN backends_map = {} /\ DOMAIN offered = {}
      /\ DOMAIN validators = {} /\ offered = EmptyMap
  BY Zenon DEF Init, EmptyMap
<1>2. pc = "load" /\ config = <<>> /\ i = 0 /\ caller = "none" /\ audit = "off"
  BY Zenon DEF Init
<1>3. BaseInv
  BY <1>2 DEF BaseInv
<1>4. OrderInv
  BY <1>1, <1>2 DEF OrderInv
<1>5. MapInv
  <2>1. offered \in [DOMAIN offered -> Offers] /\ backends_map \in [DOMAIN backends_map -> Indices]
    BY DEF Init, EmptyMap
  <2>2. QED
    BY <1>1, <2>1 DEF MapInv
<1>6. CatalogInv /\ FirstInv
  BY <1>1, Zenon DEF CatalogInv, FirstInv
<1>7. ShareInv
  BY <1>1, <1>2 DEF ShareInv
<1>8. QED
  BY <1>3, <1>4, <1>5, <1>6, <1>7, Zenon DEF SInv

LEMMA StartupInductive == Spec => []SInv
<1>1. QED
  BY StartupInit, StartupNext, PTL DEF Spec

\* What the invariant says of a listed tool's owner.
LEMMA Owners ==
  ASSUME SInv, NEW x \in DOMAIN catalog
  PROVE  /\ catalog[x].name = x
         /\ \/ /\ Offerer(x) \in DOMAIN offered /\ Offerer(x) \in 1..Len(config)
               /\ catalog[x].backend = config[Offerer(x)].name
               /\ catalog[x].backend \in DOMAIN backends_map
               /\ backends_map[catalog[x].backend] = Offerer(x)
            \/ Stub(x) /\ catalog[x].backend \in Stubs /\ DOMAIN offered = {}
<1>1. BaseInv /\ MapInv /\ CatalogInv
  BY Zenon DEF SInv
<1>2. Indices = 1..Len(config)
  BY <1>1, ConfigTyped
<1>3. \A j \in DOMAIN offered :
        /\ j \in 1..Len(config) /\ config[j].name \in DOMAIN backends_map
        /\ backends_map[config[j].name] = j
  BY <1>1, <1>2 DEF MapInv
<1>4. QED
  BY <1>1, <1>3, Zenon DEF CatalogInv

(* Whatever the configuration and whatever the backends offer, main's
   variables keep their types, and every listed tool belongs to an entry of
   the configuration or is a stub. *)
THEOREM StartupTypeCorrect == Spec => []TypeOK
<1>1. SInv => TypeOK
  <2>. SUFFICES ASSUME SInv PROVE TypeOK
    OBVIOUS
  <2>1. BaseInv /\ MapInv /\ ShareInv
    BY Zenon DEF SInv
  <2>2. /\ Len(config) \in Nat /\ Indices = 1..Len(config)
        /\ \A k \in Indices : config[k].name \in STRING
    BY <2>1, ConfigTyped
  <2>3. ASSUME NEW n \in DOMAIN catalog
        PROVE  /\ catalog[n].tool.from \in 0..Len(config)
               /\ catalog[n].backend \in {config[k].name : k \in Indices}
                                           \cup {"stub-n8n", "stub-sqlite"}
    <3>1. CASE Offerer(n) \in 1..Len(config) /\ catalog[n].backend = config[Offerer(n)].name
      BY <2>2, <3>1 DEF Offerer
    <3>2. CASE Stub(n) /\ catalog[n].backend \in Stubs
      BY <2>2, <3>2 DEF Stub, Offerer, Stubs
    <3>3. QED
      BY <3>1, <3>2, Owners, Zenon
  <2>4. IsMap(backends_map, STRING, Indices)
    <3>1. DOMAIN backends_map \subseteq STRING
      BY <2>1, <2>2 DEF MapInv
    <3>2. QED
      BY <2>1, <3>1 DEF MapInv, IsMap
  <2>5. Range(validators) \subseteq AllTools(catalog)
    BY <2>1, Zenon DEF ShareInv, Range, AllTools
  <2>6. offered \in [DOMAIN offered -> Offers]
    BY <2>1, Zenon DEF MapInv
  <2>7. QED
    BY <2>1, <2>3, <2>4, <2>5, <2>6, Zenon DEF BaseInv, TypeOK
<1>2. QED
  BY <1>1, StartupInductive, PTL

(* Whatever the backends offer, a listed tool's name, definition, validator
   and connection are those of the entry that offered it. *)
THEOREM RoutesCorrect == Spec => []RoutesTrue
<1>1. SInv => RoutesTrue
  <2>. SUFFICES ASSUME SInv PROVE RoutesTrue
    OBVIOUS
  <2>1. \A n \in DOMAIN validators : n \in DOMAIN catalog /\ validators[n] = catalog[n]
    BY Zenon DEF SInv, ShareInv
  <2>2. QED
    BY <2>1, Owners, Zenon DEF RoutesTrue
<1>2. QED
  BY <1>1, StartupInductive, PTL

(* Whatever the backends offer and however their names collide, the first to
   offer a name keeps it, and no tool disappears unless a prefixed name is
   spelled like its own. *)
THEOREM FirstCorrect == Spec => []FirstKeepsName
<1>1. SInv => FirstKeepsName
  <2>. SUFFICES ASSUME SInv, NEW k \in DOMAIN offered, NEW t \in Range(offered[k])
                PROVE  LET tool  == [from |-> k, name |-> t]
                           At(n) == n \in DOMAIN catalog /\ catalog[n].tool = tool
                           Taken(n) == /\ n \in DOMAIN catalog /\ catalog[n].tool # tool
                                       /\ catalog[n].tool.name # n
                           pre   == <<config[k].name>> \o t
                       IN  IF First(k, t) THEN At(t) \/ Taken(t)
                                          ELSE At(t) \/ At(pre) \/ Taken(t) \/ Taken(pre)
    BY Zenon DEF FirstKeepsName, First
  <2>. DEFINE tool == [from |-> k, name |-> t]
              pre  == <<config[k].name>> \o t
  <2>1. /\ Keeps(catalog, tool, t) \/ Keeps(catalog, tool, pre)
        /\ First(k, t) => Keeps(catalog, tool, t)
    BY Zenon DEF SInv, FirstInv
  <2>2. \A n : Keeps(catalog, tool, n) =>
                 \/ n \in DOMAIN catalog /\ catalog[n].tool = tool
                 \/ /\ n \in DOMAIN catalog /\ catalog[n].tool # tool
                    /\ catalog[n].tool.name # n
    BY Zenon DEF Keeps
  <2>. HIDE DEF tool, pre
  <2>3. QED
    BY <2>1, <2>2, Zenon DEF tool, pre
<1>2. QED
  BY <1>1, StartupInductive, PTL

(* Whichever backends come up, the maps run_dispatch starts from agree: a
   breaker and a health entry for every connection and no other, validators
   for listed tools only, and a connection for every tool unless only stubs
   are listed. *)
THEOREM MapsCorrect == Spec => []MapsAgree
<1>1. SInv => MapsAgree
  <2>. SUFFICES ASSUME SInv, pc = "serving"
                PROVE  /\ circuit_breakers = DOMAIN backends_map
                       /\ DOMAIN health_map = DOMAIN backends_map
                       /\ DOMAIN validators \subseteq DOMAIN catalog
                       /\ \A n \in DOMAIN catalog :
                            IF backends_map = EmptyMap
                              THEN Stub(n) ELSE catalog[n].backend \in DOMAIN backends_map
    BY Zenon DEF MapsAgree
  <2>1. /\ circuit_breakers = DOMAIN backends_map
        /\ DOMAIN health_map = DOMAIN backends_map
        /\ DOMAIN validators \subseteq DOMAIN catalog
    BY Zenon DEF SInv, ShareInv
  <2>2. MapInv
    BY Zenon DEF SInv
  <2>3. DOMAIN offered = {} => backends_map = EmptyMap
    <3>1. DOMAIN offered = {} => DOMAIN backends_map = {}
      BY <2>2 DEF MapInv
    <3>2. backends_map = [b \in DOMAIN backends_map |-> backends_map[b]]
      BY <2>2, Zenon DEF MapInv
    <3>3. QED
      BY <3>1, <3>2 DEF EmptyMap
  <2>4. DOMAIN EmptyMap = {}
    BY Zenon DEF EmptyMap
  <2>5. ASSUME NEW n \in DOMAIN catalog
        PROVE  IF backends_map = EmptyMap
                 THEN Stub(n) ELSE catalog[n].backend \in DOMAIN backends_map
    BY <2>3, <2>4, <2>5, Owners, Zenon
  <2>6. QED
    BY <2>1, <2>5, Zenon
<1>2. QED
  BY <1>1, StartupInductive, PTL
=============================================================================
