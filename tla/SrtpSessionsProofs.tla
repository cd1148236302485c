-------------------------- MODULE SrtpSessionsProofs --------------------------
(***************************************************************************)
(* The crypto kernel, and the sessions and streams on top of it.           *)
(***************************************************************************)
EXTENDS SrtpSessions, FiniteSetTheorems, SequenceTheorems, WellFoundedInduction,
        TLAPS

-----------------------------------------------------------------------------
(* Natural numbers.                                                        *)

LEMMA LeastNatural ==
  ASSUME NEW S \in SUBSET Nat, S # {}
  PROVE  \E x \in S : \A y \in S : x <= y
  <1> DEFINE R == OpToRel(<, Nat)
  <1>1. IsWellFoundedOn(R, Nat)
    BY NatLessThanWellFounded
  <1>2. \A x, y \in Nat : x < y => <<x, y>> \in R
    BY DEF OpToRel
  <1> HIDE DEF R
  <1>3. S \subseteq Nat
    OBVIOUS
  <1>4. PICK x \in S : \A y \in S : ~(<<y, x>> \in R)
    BY <1>1, <1>3, WFMin, Zenon
  <1>5. \A y \in S : ~(y < x)
    BY <1>2, <1>3, <1>4, Zenon
  <1>6. QED
    BY <1>3, <1>5

\* Induction over a set, which needs no operator.
LEMMA Induction ==
  ASSUME NEW S, 0 \in S, NEW n \in Nat,
         \A i \in 0 .. n - 1 : i \in S => i + 1 \in S
  PROVE  0 .. n \subseteq S
  <1> DEFINE T == {i \in 0 .. n : i \notin S}
  <1> SUFFICES ASSUME T # {} PROVE FALSE
    OBVIOUS
  <1>1. PICK x \in T : \A y \in T : x <= y
    <2>1. T \in SUBSET Nat
      OBVIOUS
    <2> HIDE DEF T
    <2>2. QED
      BY <2>1, LeastNatural
  <1>2. x \in 1 .. n
    OBVIOUS
  <1>3. x - 1 \notin T
    BY <1>1, <1>2
  <1>4. QED
    BY <1>2, <1>3

-----------------------------------------------------------------------------
(* The lists of the kernel.                                                *)

\* What the lists may hold: types and debug modules.
Modules == Range(CipherTypes) \cup Range(AuthTypes) \cup {Substitute, "srtp"}
           \cup {Steps[i].what : i \in DOMAIN Steps}

KernelType == [state : {"secure", "insecure"}, cipher_type_list : Seq(Modules),
               auth_type_list : Seq(Modules), debug_module_list : Seq(Modules)]

\* A list has an entry with this id.
Has(list, id) == \E i \in 1 .. Len(list) : Id(list[i]) = id

LEMMA EntryIs ==
  ASSUME NEW type, NEW list \in Seq(Modules)
  PROVE  /\ EntryFor(type, list) \in 0 .. Len(list)
         /\ EntryFor(type, list) # 0 => Id(list[EntryFor(type, list)]) = Id(type)
         /\ EntryFor(type, list) # 0 <=> Has(list, Id(type))
  <1> DEFINE I == {i \in 1 .. Len(list) : Id(list[i]) = Id(type)}
  <1>1. EntryFor(type, list) = IF I # {} THEN Min(I) ELSE 0
    BY DEF EntryFor, SelectInSeq
  <1>2. I # {} <=> Has(list, Id(type))
    BY DEF Has
  <1>3. I \in SUBSET Nat
    OBVIOUS
  <1>4. ASSUME I # {} PROVE Min(I) \in I
    <2>1. \E x \in I : \A y \in I : x <= y
      <3> HIDE DEF I
      <3>1. QED
        BY <1>3, <1>4, LeastNatural
    <2>2. QED
      BY <2>1 DEF Min
  <1>5. QED
    BY <1>1, <1>2, <1>4

LEMMA Prepended ==
  ASSUME NEW list \in Seq(Modules), NEW e \in Modules, Unique(list),
         ~Has(list, Id(e))
  PROVE  /\ <<e>> \o list \in Seq(Modules)
         /\ Unique(<<e>> \o list)
         /\ Has(<<e>> \o list, Id(e))
         /\ \A id : Has(list, id) => Has(<<e>> \o list, id)
  <1> DEFINE new == <<e>> \o list
  <1>1. /\ <<e>> \in Seq(Modules) /\ Len(<<e>>) = 1 /\ <<e>>[1] = e
        /\ Len(list) \in Nat
    OBVIOUS
  <1>2. /\ new \in Seq(Modules) /\ Len(new) = Len(list) + 1
        /\ \A i \in 1 .. Len(list) + 1 : new[i] = IF i <= 1 THEN e ELSE list[i - 1]
    BY <1>1, ConcatProperties
  <1> HIDE DEF new
  <1>3. new[1] = e /\ \A i \in 1 .. Len(list) : new[i + 1] = list[i]
    BY <1>1, <1>2
  <1>4. Has(new, Id(e))
    BY <1>1, <1>2, <1>3 DEF Has
  <1>5. \A id : Has(list, id) => Has(new, id)
    BY <1>1, <1>2, <1>3 DEF Has
  <1>6. Unique(new)
    <2> SUFFICES ASSUME NEW i \in 1 .. Len(list) + 1, NEW j \in 1 .. Len(list) + 1,
                        Id(new[i]) = Id(new[j])
                 PROVE  i = j
      BY <1>2 DEF Unique
    <2>1. CASE i > 1 /\ j > 1
      <3>1. /\ i - 1 \in 1 .. Len(list) /\ j - 1 \in 1 .. Len(list)
            /\ new[i] = list[i - 1] /\ new[j] = list[j - 1]
        BY <1>1, <1>2, <2>1
      <3>2. i - 1 = j - 1
        BY <3>1 DEF Unique
      <3>3. QED
        BY <3>2
    <2>2. CASE i = 1 \/ j = 1
      BY <1>1, <1>2, <2>2 DEF Has
    <2>3. QED
      BY <1>1, <2>1, <2>2
  <1>7. QED
    BY <1>2, <1>4, <1>5, <1>6 DEF new

LEMMA Replaced ==
  ASSUME NEW list \in Seq(Modules), NEW e \in Modules, Unique(list),
         NEW i \in 1 .. Len(list), Id(list[i]) = Id(e)
  PROVE  /\ [list EXCEPT ![i] = e] \in Seq(Modules)
         /\ Unique([list EXCEPT ![i] = e])
         /\ Has([list EXCEPT ![i] = e], Id(e))
         /\ \A id : Has(list, id) => Has([list EXCEPT ![i] = e], id)
  <1> DEFINE new == [list EXCEPT ![i] = e]
  <1>1. /\ new \in Seq(Modules) /\ Len(new) = Len(list)
        /\ \A j \in 1 .. Len(list) : new[j] = IF j = i THEN e ELSE list[j]
    BY ExceptSeq
  <1> HIDE DEF new
  <1>2. \A j \in 1 .. Len(list) : Id(new[j]) = Id(list[j])
    BY <1>1
  <1>3. DOMAIN new = 1 .. Len(list) /\ DOMAIN list = 1 .. Len(list)
    BY <1>1
  <1>4. Unique(new)
    BY <1>2, <1>3 DEF Unique
  <1>5. Has(new, Id(e)) /\ \A id : Has(list, id) => Has(new, id)
    BY <1>1, <1>2 DEF Has
  <1>6. QED
    BY <1>1, <1>4, <1>5 DEF new

-----------------------------------------------------------------------------
(* What the operations do to the kernel.                                   *)

GoodKernel(k) == /\ k \in KernelType
                 /\ Unique(k.cipher_type_list) /\ Unique(k.auth_type_list)

\* The kernel l is k with more in its lists.
Grown(k, l) ==
  /\ GoodKernel(l) /\ l.state = k.state
  /\ \A id : Has(k.cipher_type_list, id) => Has(l.cipher_type_list, id)
  /\ \A id : Has(k.auth_type_list, id) => Has(l.auth_type_list, id)

Statuses == {"ok", "bad_param", "algo_fail", "fail"}

LEMMA GrownTwice ==
  ASSUME NEW k, NEW l, NEW m, Grown(k, l), Grown(l, m)
  PROVE  Grown(k, m)
  BY DEF Grown

LEMMA LoadDebug ==
  ASSUME NEW k \in KernelType, NEW module \in Modules
  PROVE  LET r == crypto_kernel_load_debug_module(k, module)
         IN  /\ r.kernel \in KernelType /\ r.kernel.state = k.state
             /\ r.kernel.cipher_type_list = k.cipher_type_list
             /\ r.kernel.auth_type_list = k.auth_type_list
  <1> DEFINE list == <<module>> \o k.debug_module_list
             l == [k EXCEPT !.debug_module_list = list]
  <1>1. list \in Seq(Modules)
    <2>1. <<module>> \in Seq(Modules) /\ k.debug_module_list \in Seq(Modules)
      BY DEF KernelType
    <2>2. QED
      BY <2>1, ConcatProperties
  <1> HIDE DEF list
  <1>2. /\ l \in KernelType /\ l.state = k.state
        /\ l.cipher_type_list = k.cipher_type_list
        /\ l.auth_type_list = k.auth_type_list
    BY <1>1 DEF KernelType
  <1>3. \/ crypto_kernel_load_debug_module(k, module).kernel = k
        \/ crypto_kernel_load_debug_module(k, module).kernel = l
    BY DEF crypto_kernel_load_debug_module, Ok, Fails, list
  <1>4. QED
    BY <1>2, <1>3

LEMMA LoadDebugOf ==
  ASSUME NEW k \in KernelType, NEW type
  PROVE  /\ loadDebugOf(k, type) \in KernelType
         /\ loadDebugOf(k, type).state = k.state
         /\ loadDebugOf(k, type).cipher_type_list = k.cipher_type_list
         /\ loadDebugOf(k, type).auth_type_list = k.auth_type_list
  <1>1. CASE type \in DOMAIN DebugOf
    <2>1. DebugOf[type] \in Modules
      BY <1>1 DEF DebugOf, Modules, CipherTypes, AuthTypes, Range
    <2>2. loadDebugOf(k, type) = crypto_kernel_load_debug_module(k, DebugOf[type]).kernel
      BY <1>1 DEF loadDebugOf
    <2>3. QED
      BY <2>1, <2>2, LoadDebug
  <1>2. CASE type \notin DOMAIN DebugOf
    BY <1>2 DEF loadDebugOf
  <1>3. QED
    BY <1>1, <1>2

LEMMA LoadCipher ==
  ASSUME NEW k, GoodKernel(k), NEW type \in Modules, NEW replace \in BOOLEAN
  PROVE  LET r == crypto_kernel_do_load_cipher_type(k, type, replace)
         IN  /\ Grown(k, r.kernel)
             /\ r.status = "ok" => Has(r.kernel.cipher_type_list, Id(type))
  <1> DEFINE list == k.cipher_type_list
             i == EntryFor(type, list)
             r == crypto_kernel_do_load_cipher_type(k, type, replace)
  <1>1. k \in KernelType /\ list \in Seq(Modules) /\ Unique(list)
        /\ Unique(k.auth_type_list)
    BY DEF GoodKernel, KernelType
  <1>2. /\ i \in 0 .. Len(list) /\ Len(list) \in Nat
        /\ i # 0 => Id(list[i]) = Id(type)
        /\ i # 0 <=> Has(list, Id(type))
    BY <1>1, EntryIs
  <1>3. ASSUME NEW new \in Seq(Modules), Unique(new), Has(new, Id(type)),
               \A id : Has(list, id) => Has(new, id),
               r.kernel = loadDebugOf([k EXCEPT !.cipher_type_list = new], type)
        PROVE  Grown(k, r.kernel) /\ Has(r.kernel.cipher_type_list, Id(type))
    <2> DEFINE l == [k EXCEPT !.cipher_type_list = new]
    <2>1. /\ l \in KernelType /\ l.state = k.state /\ l.cipher_type_list = new
          /\ l.auth_type_list = k.auth_type_list
      BY <1>1 DEF KernelType
    <2>2. r.kernel = loadDebugOf(l, type)
      BY <1>3
    <2> HIDE DEF l, r
    <2>3. /\ r.kernel \in KernelType /\ r.kernel.state = k.state
          /\ r.kernel.cipher_type_list = new
          /\ r.kernel.auth_type_list = k.auth_type_list
      BY <2>1, <2>2, LoadDebugOf
    <2>4. QED
      BY <1>1, <1>3, <2>3 DEF Grown, GoodKernel
  <1>4. CASE i # 0 /\ ~replace
    <2>1. r = Fails("bad_param", k)
      BY <1>4 DEF crypto_kernel_do_load_cipher_type
    <2>2. QED
      BY <2>1 DEF Grown, Fails
  <1>5. CASE i # 0 /\ replace
    <2>1. r.kernel = loadDebugOf([k EXCEPT !.cipher_type_list[i] = type], type)
      BY <1>5 DEF crypto_kernel_do_load_cipher_type, Ok
    <2> DEFINE new == [list EXCEPT ![i] = type]
    <2>2. /\ new \in Seq(Modules) /\ Unique(new) /\ Has(new, Id(type))
          /\ \A id : Has(list, id) => Has(new, id)
      BY <1>1, <1>2, <1>5, Replaced
    <2>3. [k EXCEPT !.cipher_type_list[i] = type] = [k EXCEPT !.cipher_type_list = new]
      BY <1>1 DEF KernelType
    <2> HIDE DEF new
    <2>4. QED
      BY <1>3, <2>1, <2>2, <2>3
  <1>6. CASE i = 0
    <2> DEFINE new == <<type>> \o list
    <2>1. r.kernel = loadDebugOf([k EXCEPT !.cipher_type_list = new], type)
      BY <1>6 DEF crypto_kernel_do_load_cipher_type, Ok
    <2>2. /\ new \in Seq(Modules) /\ Unique(new) /\ Has(new, Id(type))
          /\ \A id : Has(list, id) => Has(new, id)
      BY <1>1, <1>2, <1>6, Prepended
    <2> HIDE DEF new
    <2>3. QED
      BY <1>3, <2>1, <2>2
  <1>7. QED
    BY <1>4, <1>5, <1>6

LEMMA LoadAuth ==
  ASSUME NEW k, GoodKernel(k), NEW type \in Modules, NEW replace \in BOOLEAN
  PROVE  LET r == crypto_kernel_do_load_auth_type(k, type, replace)
         IN  /\ Grown(k, r.kernel)
             /\ r.status = "ok" => Has(r.kernel.auth_type_list, Id(type))
  <1> DEFINE list == k.auth_type_list
             i == EntryFor(type, list)
             r == crypto_kernel_do_load_auth_type(k, type, replace)
  <1>1. k \in KernelType /\ list \in Seq(Modules) /\ Unique(list)
        /\ Unique(k.cipher_type_list)
    BY DEF GoodKernel, KernelType
  <1>2. /\ i \in 0 .. Len(list) /\ Len(list) \in Nat
        /\ i # 0 => Id(list[i]) = Id(type)
        /\ i # 0 <=> Has(list, Id(type))
    BY <1>1, EntryIs
  <1>3. ASSUME NEW new \in Seq(Modules), Unique(new), Has(new, Id(type)),
               \A id : Has(list, id) => Has(new, id),
               r.kernel = loadDebugOf([k EXCEPT !.auth_type_list = new], type)
        PROVE  Grown(k, r.kernel) /\ Has(r.kernel.auth_type_list, Id(type))
    <2> DEFINE l == [k EXCEPT !.auth_type_list = new]
    <2>1. /\ l \in KernelType /\ l.state = k.state /\ l.auth_type_list = new
          /\ l.cipher_type_list = k.cipher_type_list
      BY <1>1 DEF KernelType
    <2>2. r.kernel = loadDebugOf(l, type)
      BY <1>3
    <2> HIDE DEF l, r
    <2>3. /\ r.kernel \in KernelType /\ r.kernel.state = k.state
          /\ r.kernel.auth_type_list = new
          /\ r.kernel.cipher_type_list = k.cipher_type_list
      BY <2>1, <2>2, LoadDebugOf
    <2>4. QED
      BY <1>1, <1>3, <2>3 DEF Grown, GoodKernel
  <1>4. CASE i # 0 /\ ~replace
    <2>1. r = Fails("bad_param", k)
      BY <1>4 DEF crypto_kernel_do_load_auth_type
    <2>2. QED
      BY <2>1 DEF Grown, Fails
  <1>5. CASE i # 0 /\ replace
    <2>1. r.kernel = loadDebugOf([k EXCEPT !.auth_type_list[i] = type], type)
      BY <1>5 DEF crypto_kernel_do_load_auth_type, Ok
    <2> DEFINE new == [list EXCEPT ![i] = type]
    <2>2. /\ new \in Seq(Modules) /\ Unique(new) /\ Has(new, Id(type))
          /\ \A id : Has(list, id) => Has(new, id)
      BY <1>1, <1>2, <1>5, Replaced
    <2>3. [k EXCEPT !.auth_type_list[i] = type] = [k EXCEPT !.auth_type_list = new]
      BY <1>1 DEF KernelType
    <2> HIDE DEF new
    <2>4. QED
      BY <1>3, <2>1, <2>2, <2>3
  <1>6. CASE i = 0
    <2> DEFINE new == <<type>> \o list
    <2>1. r.kernel = loadDebugOf([k EXCEPT !.auth_type_list = new], type)
      BY <1>6 DEF crypto_kernel_do_load_auth_type, Ok
    <2>2. /\ new \in Seq(Modules) /\ Unique(new) /\ Has(new, Id(type))
          /\ \A id : Has(list, id) => Has(new, id)
      BY <1>1, <1>2, <1>6, Prepended
    <2> HIDE DEF new
    <2>3. QED
      BY <1>3, <2>1, <2>2
  <1>7. QED
    BY <1>4, <1>5, <1>6

-----------------------------------------------------------------------------
(* The steps of crypto_kernel_init.                                        *)

LEMMA StepsAre ==
  /\ Len(Steps) = 14 /\ DOMAIN Steps = 1 .. 14
  /\ \A i \in 1 .. 14 : Steps[i].load \in {"debug", "nothing", "cipher", "auth"}
  /\ \A i \in 1 .. 14 : Steps[i].what \in Modules
  /\ \A i \in 1 .. 3 : Steps[i + 9] = [load |-> "cipher", what |-> CipherTypes[i]]
  /\ \A i \in 1 .. 2 : Steps[i + 12] = [load |-> "auth", what |-> AuthTypes[i]]
  /\ DOMAIN CipherTypes = 1 .. 3 /\ DOMAIN AuthTypes = 1 .. 2
  <1>1. Len(Steps) = 14 /\ DOMAIN Steps = 1 .. 14
    BY DEF Steps
  <1>2. \A i \in 1 .. 14 : Steps[i].load \in {"debug", "nothing", "cipher", "auth"}
    <2>1. /\ Steps[1].load = "debug" /\ Steps[2].load = "debug"
          /\ Steps[3].load = "debug" /\ Steps[4].load = "debug"
          /\ Steps[5].load = "debug"
      BY DEF Steps
    <2>2. /\ Steps[6].load = "nothing" /\ Steps[7].load = "nothing"
          /\ Steps[8].load = "nothing" /\ Steps[9].load = "nothing"
      BY DEF Steps
    <2>3. /\ Steps[10].load = "cipher" /\ Steps[11].load = "cipher"
          /\ Steps[12].load = "cipher"
      BY DEF Steps
    <2>4. Steps[13].load = "auth" /\ Steps[14].load = "auth"
      BY DEF Steps
    <2>5. QED
      BY <2>1, <2>2, <2>3, <2>4
  <1>3. \A i \in 1 .. 14 : Steps[i].what \in Modules
    BY <1>1 DEF Modules
  <1>4. \A i \in 1 .. 3 : Steps[i + 9] = [load |-> "cipher", what |-> CipherTypes[i]]
    <2>1. Steps[10] = [load |-> "cipher", what |-> CipherTypes[1]]
      BY DEF Steps
    <2>2. Steps[11] = [load |-> "cipher", what |-> CipherTypes[2]]
      BY DEF Steps
    <2>3. Steps[12] = [load |-> "cipher", what |-> CipherTypes[3]]
      BY DEF Steps
    <2>4. QED
      BY <2>1, <2>2, <2>3
  <1>5. \A i \in 1 .. 2 : Steps[i + 12] = [load |-> "auth", what |-> AuthTypes[i]]
    <2>1. Steps[13] = [load |-> "auth", what |-> AuthTypes[1]]
      BY DEF Steps
    <2>2. Steps[14] = [load |-> "auth", what |-> AuthTypes[2]]
      BY DEF Steps
    <2>3. QED
      BY <2>1, <2>2
  <1>6. DOMAIN CipherTypes = 1 .. 3 /\ DOMAIN AuthTypes = 1 .. 2
    BY DEF CipherTypes, AuthTypes
  <1>7. QED
    BY <1>1, <1>2, <1>3, <1>4, <1>5, <1>6

LEMMA RandIsSix == RandSourceInit = 6
  <1>1. Steps[6].what = "rand_source_init" /\ 6 \in DOMAIN Steps
    BY DEF Steps
  <1>2. /\ Steps[1].what # "rand_source_init" /\ Steps[2].what # "rand_source_init"
        /\ Steps[3].what # "rand_source_init" /\ Steps[4].what # "rand_source_init"
        /\ Steps[5].what # "rand_source_init"
    BY DEF Steps
  <1>3. /\ Steps[7].what # "rand_source_init" /\ Steps[8].what # "rand_source_init"
        /\ Steps[9].what # "rand_source_init"
    BY DEF Steps
  <1>4. \A i \in 10 .. 14 : Steps[i].what # "rand_source_init"
    <2>1. \A i \in 1 .. 3 : Steps[i + 9].what # "rand_source_init"
      BY StepsAre DEF CipherTypes
    <2>2. \A i \in 1 .. 2 : Steps[i + 12].what # "rand_source_init"
      BY StepsAre DEF AuthTypes
    <2>3. \A i \in 10 .. 14 : \/ i - 9 \in 1 .. 3 /\ i = (i - 9) + 9
                              \/ i - 12 \in 1 .. 2 /\ i = (i - 12) + 12
      OBVIOUS
    <2>4. QED
      BY <2>1, <2>2, <2>3
  <1>5. \A i \in 1 .. 14 : Steps[i].what = "rand_source_init" => i = 6
    BY <1>2, <1>3, <1>4
  <1>6. QED
    BY <1>1, <1>5, StepsAre DEF RandSourceInit

LEMMA DoStep ==
  ASSUME NEW k, GoodKernel(k), NEW i \in 1 .. 14
  PROVE  LET r == do(k, Steps[i])
         IN  /\ Grown(k, r.kernel)
             /\ r.status = "ok" /\ Steps[i].load = "cipher"
                  => Has(r.kernel.cipher_type_list, Id(Steps[i].what))
             /\ r.status = "ok" /\ Steps[i].load = "auth"
                  => Has(r.kernel.auth_type_list, Id(Steps[i].what))
  <1> DEFINE step == Steps[i]
  <1>1. step.load \in {"debug", "nothing", "cipher", "auth"} /\ step.what \in Modules
    BY StepsAre
  <1> HIDE DEF step
  <1>2. CASE step.load = "debug"
    <2>1. do(k, step) = crypto_kernel_load_debug_module(k, step.what)
      BY <1>2 DEF do
    <2>2. Grown(k, crypto_kernel_load_debug_module(k, step.what).kernel)
      BY <1>1, LoadDebug DEF Grown, GoodKernel
    <2>3. QED
      BY <1>2, <2>1, <2>2 DEF step
  <1>3. CASE step.load = "nothing"
    <2>1. do(k, step).kernel = k
      BY <1>3 DEF do, Ok
    <2>2. QED
      BY <1>3, <2>1 DEF step, Grown
  <1>4. CASE step.load = "cipher"
    <2>1. do(k, step) = crypto_kernel_do_load_cipher_type(k, step.what, FALSE)
      BY <1>4 DEF do
    <2>2. QED
      BY <1>1, <1>4, <2>1, LoadCipher DEF step
  <1>5. CASE step.load = "auth"
    <2>1. do(k, step) = crypto_kernel_do_load_auth_type(k, step.what, FALSE)
      BY <1>5 DEF do
    <2>2. QED
      BY <1>1, <1>5, <2>1, LoadAuth DEF step
  <1>6. QED
    BY <1>1, <1>2, <1>3, <1>4, <1>5

\* The results of the first steps are those of one computation.
Computes(f, k, n) ==
  f = [i \in 0 .. n |-> IF i = 0 THEN Ok(k) ELSE after(f[i - 1], Steps[i])]

LEMMA OneComputation ==
  ASSUME NEW k, NEW n \in Nat, NEW m \in 0 .. n, NEW f, NEW g,
         Computes(f, k, n), Computes(g, k, m)
  PROVE  f[m] = g[m]
  <1> DEFINE S == {i \in 0 .. m : f[i] = g[i]}
  <1>1. f[0] = Ok(k) /\ g[0] = Ok(k)
    BY DEF Computes
  <1>2. ASSUME NEW i \in 0 .. m - 1, f[i] = g[i] PROVE f[i + 1] = g[i + 1]
    <2>1. /\ i + 1 \in 0 .. n /\ i + 1 \in 0 .. m /\ i + 1 # 0 /\ (i + 1) - 1 = i
      OBVIOUS
    <2>2. f[i + 1] = after(f[i], Steps[i + 1])
      BY <2>1 DEF Computes
    <2>3. g[i + 1] = after(g[i], Steps[i + 1])
      BY <2>1 DEF Computes
    <2>4. QED
      BY <1>2, <2>2, <2>3
  <1>3. 0 \in S /\ \A i \in 0 .. m - 1 : i \in S => i + 1 \in S
    BY <1>1, <1>2
  <1>4. m \in Nat /\ m \in 0 .. m
    OBVIOUS
  <1> HIDE DEF S
  <1>5. m \in S
    BY <1>3, <1>4, Induction
  <1>6. QED
    BY <1>5 DEF S

LEMMA ComputationExists ==
  ASSUME NEW k, NEW n \in Nat
  PROVE  \E f : Computes(f, k, n)
  <1> DEFINE S == {m \in 0 .. n : \E f : Computes(f, k, m)}
  <1>1. 0 \in S
    <2>1. Computes([i \in 0 .. 0 |-> Ok(k)], k, 0)
      BY DEF Computes
    <2>2. QED
      BY <2>1
  <1>2. ASSUME NEW m \in 0 .. n - 1, m \in S PROVE m + 1 \in S
    <2>1. PICK f : Computes(f, k, m)
      BY <1>2
    <2> DEFINE g == [i \in 0 .. m + 1 |->
                       IF i = m + 1 THEN after(f[m], Steps[m + 1]) ELSE f[i]]
    <2>2. Computes(g, k, m + 1)
      <3>1. ASSUME NEW i \in 0 .. m + 1
            PROVE  g[i] = IF i = 0 THEN Ok(k) ELSE after(g[i - 1], Steps[i])
        <4>1. CASE i = m + 1
          <5>1. g[i] = after(f[m], Steps[i]) /\ g[m] = f[m] /\ i - 1 = m /\ i # 0
            BY <4>1
          <5> HIDE DEF g
          <5>2. QED
            BY <5>1
        <4>2. CASE i # m + 1
          <5>1. i \in 0 .. m /\ g[i] = f[i] /\ (i # 0 => g[i - 1] = f[i - 1])
            BY <4>2
          <5> HIDE DEF g
          <5>2. f[i] = IF i = 0 THEN Ok(k) ELSE after(f[i - 1], Steps[i])
            BY <2>1, <5>1 DEF Computes
          <5>3. QED
            BY <5>1, <5>2
        <4>3. QED
          BY <4>1, <4>2
      <3>2. g = [i \in 0 .. m + 1 |-> g[i]]
        OBVIOUS
      <3> HIDE DEF g
      <3>3. QED
        BY <3>1, <3>2 DEF Computes
    <2>3. m + 1 \in 0 .. n
      OBVIOUS
    <2> HIDE DEF g
    <2>4. QED
      BY <2>2, <2>3
  <1> HIDE DEF S
  <1>3. n \in S
    BY <1>1, <1>2, Induction
  <1>4. QED
    BY <1>3 DEF S

LEMMA FirstSteps ==
  ASSUME NEW k, NEW n \in Nat
  PROVE  \E f : /\ Computes(f, k, n)
                /\ \A m \in 0 .. n : firstSteps(k, m) = f[m]
  <1>1. PICK f : Computes(f, k, n)
    BY ComputationExists
  <1>2. ASSUME NEW m \in 0 .. n PROVE firstSteps(k, m) = f[m]
    <2> DEFINE g == CHOOSE h : h = [i \in 0 .. m |->
                      IF i = 0 THEN Ok(k) ELSE after(h[i - 1], Steps[i])]
    <2>1. firstSteps(k, m) = g[m]
      BY DEF firstSteps
    <2>2. \E h : Computes(h, k, m)
      BY ComputationExists
    <2>3. Computes(g, k, m)
      BY <2>2 DEF Computes
    <2> HIDE DEF g
    <2>4. QED
      BY <1>1, <2>1, <2>3, OneComputation
  <1>3. QED
    BY <1>1, <1>2

\* What a step loads is there.
Loaded(k, step) ==
  /\ step.load = "cipher" => Has(k.cipher_type_list, Id(step.what))
  /\ step.load = "auth" => Has(k.auth_type_list, Id(step.what))

LEMMA StaysLoaded ==
  ASSUME NEW k, NEW l, NEW step, Grown(k, l), Loaded(k, step)
  PROVE  Loaded(l, step)
  BY DEF Grown, Loaded

LEMMA StepsGrow ==
  ASSUME NEW k, GoodKernel(k), NEW n \in 0 .. 14
  PROVE  /\ Grown(k, firstSteps(k, n).kernel)
         /\ firstSteps(k, n).status = "ok" =>
              \A m \in 0 .. n : /\ firstSteps(k, m).status = "ok"
                                /\ m # 0 => Loaded(firstSteps(k, n).kernel, Steps[m])
  <1>1. PICK f : Computes(f, k, n) /\ \A m \in 0 .. n : firstSteps(k, m) = f[m]
    BY FirstSteps
  <1> DEFINE Ends(i) ==
               /\ Grown(k, f[i].kernel)
               /\ f[i].status = "ok" =>
                    \A m \in 0 .. i : /\ f[m].status = "ok"
                                      /\ m # 0 => Loaded(f[i].kernel, Steps[m])
             S == {i \in 0 .. n : Ends(i)}
  <1>2. 0 \in S
    <2>1. f[0] = Ok(k)
      BY <1>1 DEF Computes
    <2>2. f[0].kernel = k
      BY <2>1 DEF Ok
    <2>3. Ends(0)
      BY <2>2 DEF Grown
    <2>4. QED
      BY <2>3
  <1>3. ASSUME NEW i \in 0 .. n - 1, i \in S PROVE i + 1 \in S
    <2>1. f[i + 1] = after(f[i], Steps[i + 1])
      <3>1. i + 1 \in 0 .. n /\ i + 1 # 0 /\ (i + 1) - 1 = i
        OBVIOUS
      <3>2. QED
        BY <1>1, <3>1 DEF Computes
    <2>2. CASE f[i].status = "ok"
      <3>1. f[i + 1] = do(f[i].kernel, Steps[i + 1])
        BY <2>1, <2>2 DEF after
      <3>2. GoodKernel(f[i].kernel) /\ Grown(k, f[i].kernel)
        BY <1>3 DEF Grown
      <3>3. i + 1 \in 1 .. 14
        OBVIOUS
      <3>4. /\ Grown(f[i].kernel, f[i + 1].kernel)
            /\ f[i + 1].status = "ok" => Loaded(f[i + 1].kernel, Steps[i + 1])
        BY <3>1, <3>2, <3>3, DoStep DEF Loaded
      <3>5. Grown(k, f[i + 1].kernel)
        BY <3>2, <3>4, GrownTwice
      <3>6. ASSUME f[i + 1].status = "ok", NEW m \in 0 .. i + 1
            PROVE  f[m].status = "ok" /\ (m # 0 => Loaded(f[i + 1].kernel, Steps[m]))
        <4>1. CASE m = i + 1
          BY <3>4, <3>6, <4>1
        <4>2. CASE m # i + 1
          <5>1. m \in 0 .. i
            BY <4>2
          <5>2. f[m].status = "ok" /\ (m # 0 => Loaded(f[i].kernel, Steps[m]))
            BY <1>3, <2>2, <5>1
          <5>3. QED
            BY <3>4, <5>2, StaysLoaded
        <4>3. QED
          BY <4>1, <4>2
      <3>7. Ends(i + 1)
        BY <3>5, <3>6
      <3> HIDE DEF Ends
      <3>8. QED
        BY <3>7
    <2>3. CASE f[i].status # "ok"
      <3>1. f[i + 1] = f[i]
        BY <2>1, <2>3 DEF after
      <3>2. Ends(i + 1)
        BY <1>3, <2>3, <3>1
      <3> HIDE DEF Ends
      <3>3. QED
        BY <3>2
    <2>4. QED
      BY <2>2, <2>3
  <1>4. n \in 0 .. n
    OBVIOUS
  <1>5. n \in S
    <2> HIDE DEF S
    <2>1. QED
      BY <1>2, <1>3, <1>4, Induction
  <1>6. Ends(n)
    BY <1>5
  <1>7. QED
    BY <1>1, <1>4, <1>6

-----------------------------------------------------------------------------
(* The kernel.                                                             *)

Complete(k) ==
  /\ \A i \in DOMAIN CipherTypes : Has(k.cipher_type_list, Id(CipherTypes[i]))
  /\ \A i \in DOMAIN AuthTypes : Has(k.auth_type_list, Id(AuthTypes[i]))

\* A secure kernel is complete, and its device is open.
KernelInv == /\ GoodKernel(kernel)
             /\ device \in {"open", "closed"}
             /\ kernel.state = "secure" => device = "open" /\ Complete(kernel)

LEMMA StaysComplete ==
  ASSUME NEW k, NEW l, Grown(k, l), Complete(k)
  PROVE  Complete(l)
  BY DEF Grown, Complete

LEMMA AllSteps ==
  ASSUME NEW k, GoodKernel(k), firstSteps(k, 14).status = "ok"
  PROVE  /\ Complete(firstSteps(k, 14).kernel)
         /\ firstSteps(k, RandSourceInit).status = "ok"
  <1> DEFINE l == firstSteps(k, 14).kernel
  <1>1. 14 \in 0 .. 14
    OBVIOUS
  <1>2. \A m \in 0 .. 14 : /\ firstSteps(k, m).status = "ok"
                           /\ m # 0 => Loaded(l, Steps[m])
    BY <1>1, StepsGrow
  <1> HIDE DEF l
  <1>3. \A m \in 1 .. 14 : Loaded(l, Steps[m])
    BY <1>2
  <1>4. ASSUME NEW i \in 1 .. 3 PROVE Has(l.cipher_type_list, Id(CipherTypes[i]))
    <2>1. i + 9 \in 1 .. 14 /\ Steps[i + 9] = [load |-> "cipher", what |-> CipherTypes[i]]
      BY StepsAre
    <2>2. Steps[i + 9].load = "cipher" /\ Steps[i + 9].what = CipherTypes[i]
      BY <2>1
    <2>3. QED
      BY <1>3, <2>1, <2>2 DEF Loaded
  <1>5. ASSUME NEW i \in 1 .. 2 PROVE Has(l.auth_type_list, Id(AuthTypes[i]))
    <2>1. i + 12 \in 1 .. 14 /\ Steps[i + 12] = [load |-> "auth", what |-> AuthTypes[i]]
      BY StepsAre
    <2>2. Steps[i + 12].load = "auth" /\ Steps[i + 12].what = AuthTypes[i]
      BY <2>1
    <2>3. QED
      BY <1>3, <2>1, <2>2 DEF Loaded
  <1>6. Complete(l)
    BY <1>4, <1>5, StepsAre DEF Complete
  <1>7. QED
    BY <1>2, <1>6, RandIsSix DEF l

LEMMA WithDebug ==
  ASSUME NEW r, GoodKernel(r.kernel)
  PROVE  Grown(r.kernel, withDebug(r).kernel)
  <1>1. "srtp" \in Modules
    BY DEF Modules
  <1>2. Grown(r.kernel, crypto_kernel_load_debug_module(r.kernel, "srtp").kernel)
    BY <1>1, LoadDebug DEF Grown, GoodKernel
  <1>3. QED
    BY <1>2 DEF withDebug, Grown

LEMMA KernelInitStep == KernelInv /\ KernelInit => KernelInv'
  <1> SUFFICES ASSUME KernelInv, KernelInit PROVE KernelInv'
    OBVIOUS
  <1>1. PICK n \in FailurePoints \cup {Len(Steps)} :
          /\ kernel' = srtp_init(n).kernel
          /\ device' = IF /\ kernel.state = "insecure"
                          /\ n >= RandSourceInit
                          /\ firstSteps(kernel, RandSourceInit).status = "ok"
                       THEN "open" ELSE device
    BY DEF KernelInit
  <1>2. n \in 0 .. 14 /\ Len(Steps) = 14 /\ RandSourceInit = 6
    BY KernelAssumption, StepsAre, RandIsSix
  <1>3. /\ GoodKernel(kernel) /\ kernel.state \in {"secure", "insecure"}
        /\ device' \in {"open", "closed"}
        /\ device = "open" => device' = "open"
    BY <1>1 DEF KernelInv, GoodKernel, KernelType
  <1> DEFINE r == crypto_kernel_init(n)
  <1>4. ASSUME GoodKernel(r.kernel),
               r.kernel.state = "secure" => device' = "open" /\ Complete(r.kernel)
        PROVE  KernelInv'
    <2>1. kernel' = withDebug(r).kernel
      BY <1>1 DEF srtp_init
    <2> HIDE DEF r
    <2>2. Grown(r.kernel, kernel')
      BY <1>4, <2>1, WithDebug
    <2>3. kernel'.state = r.kernel.state /\ GoodKernel(kernel')
      BY <2>2 DEF Grown
    <2>4. kernel'.state = "secure" => device' = "open" /\ Complete(kernel')
      BY <1>4, <2>2, <2>3, StaysComplete
    <2>5. QED
      BY <1>3, <2>3, <2>4 DEF KernelInv, GoodKernel, Complete
  <1>5. CASE kernel.state = "secure"
    <2>1. r = crypto_kernel_status(kernel, n < Len(Steps))
      BY <1>5 DEF crypto_kernel_init
    <2>2. CASE n < Len(Steps)
      <3> DEFINE l == [kernel EXCEPT !.state = "insecure"]
      <3>1. r.kernel = l
        BY <2>1, <2>2 DEF crypto_kernel_status, Fails
      <3>2. /\ l \in KernelType /\ l.state = "insecure"
            /\ l.cipher_type_list = kernel.cipher_type_list
            /\ l.auth_type_list = kernel.auth_type_list
        BY <1>3 DEF GoodKernel, KernelType
      <3> HIDE DEF l, r
      <3>3. QED
        BY <1>3, <1>4, <3>1, <3>2 DEF GoodKernel
    <2>3. CASE ~(n < Len(Steps))
      <3>1. r.kernel = kernel
        BY <2>1, <2>3 DEF crypto_kernel_status, Ok
      <3> HIDE DEF r
      <3>2. QED
        BY <1>3, <1>4, <1>5, <3>1 DEF KernelInv
    <2>4. QED
      BY <2>2, <2>3
  <1>6. CASE kernel.state = "insecure"
    <2> DEFINE f == firstSteps(kernel, n)
    <2>1. Grown(kernel, f.kernel)
      BY <1>2, <1>3, StepsGrow
    <2>2. GoodKernel(f.kernel) /\ f.kernel.state = "insecure"
      BY <1>6, <2>1 DEF Grown
    <2>3. CASE f.status = "ok" /\ n = 14
      <3> DEFINE l == [f.kernel EXCEPT !.state = "secure"]
      <3>1. r.kernel = l
        BY <1>2, <1>6, <2>3 DEF crypto_kernel_init, Ok
      <3>2. /\ Complete(f.kernel) /\ firstSteps(kernel, RandSourceInit).status = "ok"
        BY <1>3, <2>3, AllSteps
      <3>3. device' = "open"
        BY <1>1, <1>2, <1>6, <2>3, <3>2
      <3> HIDE DEF f
      <3>4. /\ l \in KernelType
            /\ l.cipher_type_list = f.kernel.cipher_type_list
            /\ l.auth_type_list = f.kernel.auth_type_list
        BY <2>2 DEF GoodKernel, KernelType
      <3> HIDE DEF l, r
      <3>5. GoodKernel(l) /\ Complete(l)
        BY <2>2, <3>2, <3>4 DEF GoodKernel, Complete
      <3>6. QED
        BY <1>4, <3>1, <3>3, <3>5
    <2>4. CASE ~(f.status = "ok" /\ n = 14)
      <3>1. r.kernel = f.kernel
        BY <1>2, <1>6, <2>4 DEF crypto_kernel_init, Fails
      <3> HIDE DEF f, r
      <3>2. QED
        BY <1>4, <2>2, <3>1
    <2>5. QED
      BY <2>3, <2>4
  <1>7. QED
    BY <1>3, <1>5, <1>6

LEMMA KernelReplaceStep == KernelInv /\ KernelReplace => KernelInv'
  <1> SUFFICES ASSUME KernelInv, KernelReplace PROVE KernelInv'
    OBVIOUS
  <1>1. PICK type \in {"aes_icm", Substitute} :
          kernel' = crypto_kernel_do_load_cipher_type(kernel, type, TRUE).kernel
    BY DEF KernelReplace
  <1>2. device' = device
    BY DEF KernelReplace
  <1>3. type \in Modules
    BY DEF Modules, CipherTypes, Range
  <1>4. Grown(kernel, kernel')
    BY <1>1, <1>3, LoadCipher DEF KernelInv
  <1>5. kernel'.state = "secure" => device' = "open" /\ Complete(kernel')
    BY <1>2, <1>4, StaysComplete DEF KernelInv, Grown
  <1>6. GoodKernel(kernel')
    BY <1>4 DEF Grown
  <1>7. QED
    BY <1>2, <1>5, <1>6 DEF KernelInv, GoodKernel, Complete

LEMMA InsecureIs ==
  ASSUME NEW state \in {"secure", "insecure"}
  PROVE  GoodKernel([Insecure EXCEPT !.state = state])
  <1> DEFINE k == [Insecure EXCEPT !.state = state]
  <1>1. k = [state |-> state, cipher_type_list |-> <<>>, auth_type_list |-> <<>>,
             debug_module_list |-> <<>>]
    BY DEF Insecure
  <1>2. <<>> \in Seq(Modules)
    BY EmptySeq
  <1>3. k \in KernelType /\ k.cipher_type_list = <<>> /\ k.auth_type_list = <<>>
    BY <1>1, <1>2 DEF KernelType
  <1> HIDE DEF k
  <1>4. Unique(<<>>)
    BY DEF Unique
  <1>5. GoodKernel(k)
    BY <1>3, <1>4 DEF GoodKernel
  <1>6. QED
    BY <1>5 DEF k

LEMMA KernelShutdownStep == KernelInv /\ KernelShutdown => KernelInv'
  <1> SUFFICES ASSUME KernelInv, KernelShutdown PROVE KernelInv'
    OBVIOUS
  <1> DEFINE state == IF device = "open" THEN "insecure" ELSE kernel.state
  <1>1. state = "insecure"
    BY DEF KernelInv, GoodKernel, KernelType
  <1>2. kernel' = [Insecure EXCEPT !.state = "insecure"] /\ device' = "closed"
    BY <1>1 DEF KernelShutdown
  <1>3. GoodKernel(kernel') /\ kernel'.state = "insecure"
    BY <1>2, InsecureIs DEF Insecure
  <1>4. QED
    BY <1>2, <1>3 DEF KernelInv, GoodKernel, Complete

LEMMA KernelStartStep == KernelStart => KernelInv
  <1> SUFFICES ASSUME KernelStart PROVE KernelInv
    OBVIOUS
  <1>1. kernel = [Insecure EXCEPT !.state = "insecure"] /\ kernel.state = "insecure"
    BY DEF KernelStart, Insecure
  <1>2. QED
    BY <1>1, InsecureIs DEF KernelInv, KernelStart

LEMMA KernelInvHolds == Spec => []KernelInv
  <1>1. Init => KernelInv
    BY KernelStartStep DEF Init
  <1>2. KernelInv /\ [Next]_<<kernelVars, sessionVars>> => KernelInv'
    <2> SUFFICES ASSUME KernelInv, [Next]_<<kernelVars, sessionVars>>
                 PROVE  KernelInv'
      OBVIOUS
    <2>1. CASE UNCHANGED kernelVars
      BY <2>1 DEF kernelVars, KernelInv, GoodKernel, Complete
    <2>2. CASE KernelInit \/ KernelReplace \/ KernelShutdown
      BY <2>2, KernelInitStep, KernelReplaceStep, KernelShutdownStep
    <2>3. QED
      BY <2>1, <2>2 DEF Next
  <1>3. QED
    BY <1>1, <1>2, PTL DEF Spec

\* However often the kernel is started, wherever a start fails, and whatever is
\* replaced or shut down in between, a kernel that calls itself secure has every
\* type that crypto_kernel_init loads, once, and its random device.
THEOREM SecureKernelComplete == Spec => []SecureIsComplete
  <1>1. KernelInv => SecureIsComplete
    <2> SUFFICES ASSUME KernelInv PROVE SecureIsComplete
      OBVIOUS
    <2>1. /\ kernel.cipher_type_list \in Seq(Modules)
          /\ kernel.auth_type_list \in Seq(Modules)
      BY DEF KernelInv, GoodKernel, KernelType
    <2>2. \A type : /\ Has(kernel.cipher_type_list, Id(type))
                         => EntryFor(type, kernel.cipher_type_list) # 0
                    /\ Has(kernel.auth_type_list, Id(type))
                         => EntryFor(type, kernel.auth_type_list) # 0
      BY <2>1, EntryIs
    <2>3. QED
      BY <2>2 DEF KernelInv, GoodKernel, Complete, SecureIsComplete
  <1>2. QED
    BY <1>1, KernelInvHolds, PTL

-----------------------------------------------------------------------------
(* Memory.                                                                 *)

StreamParts == {"str", "rtp_cipher", "rtp_auth", "limit", "rtcp_cipher",
                "rtcp_auth", "rdbx"}

Object == (1 .. MaxObjects) \X (StreamParts \cup {"ctx"})

Blames == {"init failed", "second template", "undefined SSRC", "clone failed",
           "second init", "half an init", "stale"}

Memory == [heap : SUBSET Object, misused : BOOLEAN, blame : SUBSET Blames]

LEMMA PartsAre ==
  /\ Range(Parts) = StreamParts
  /\ Range(SubSeq(Parts, 1, 6)) = StreamParts \ {"rdbx"}
  /\ SharedParts = StreamParts \ {"str", "rdbx"}
  /\ Len(Parts) = 7
  <1>1. /\ Parts[1] = "str" /\ Parts[2] = "rtp_cipher" /\ Parts[3] = "rtp_auth"
        /\ Parts[4] = "limit" /\ Parts[5] = "rtcp_cipher" /\ Parts[6] = "rtcp_auth"
        /\ Parts[7] = "rdbx"
    BY DEF Parts
  <1>2. Len(Parts) = 7 /\ DOMAIN Parts = 1 .. 7 /\ Parts \in Seq(StreamParts)
    BY DEF Parts, StreamParts
  <1>3. \A i \in 1 .. 7 : Parts[i] \in StreamParts
    BY <1>1 DEF StreamParts
  <1>4. Range(Parts) = StreamParts
    <2>1. Range(Parts) = {Parts[i] : i \in 1 .. 7}
      BY <1>2 DEF Range
    <2>2. StreamParts \subseteq {Parts[i] : i \in 1 .. 7}
      BY <1>1 DEF StreamParts
    <2>3. QED
      BY <1>3, <2>1, <2>2
  <1>5. Range(SubSeq(Parts, 1, 6)) = StreamParts \ {"rdbx"}
    <2>1. /\ DOMAIN SubSeq(Parts, 1, 6) = 1 .. 6
          /\ \A i \in 1 .. 6 : SubSeq(Parts, 1, 6)[i] = Parts[i]
      BY <1>2
    <2>2. Range(SubSeq(Parts, 1, 6)) = {Parts[i] : i \in 1 .. 6}
      BY <2>1 DEF Range
    <2>3. {Parts[i] : i \in 1 .. 6} \subseteq StreamParts \ {"rdbx"}
      BY <1>1 DEF StreamParts
    <2>4. StreamParts \ {"rdbx"} \subseteq {Parts[i] : i \in 1 .. 6}
      BY <1>1 DEF StreamParts
    <2>5. QED
      BY <2>2, <2>3, <2>4
  <1>6. SharedParts = StreamParts \ {"str", "rdbx"}
    <2>1. /\ DOMAIN SubSeq(Parts, 2, 6) = 1 .. 5
          /\ \A i \in 1 .. 5 : SubSeq(Parts, 2, 6)[i] = Parts[i + 1]
      BY <1>2
    <2>2. SharedParts = {Parts[i + 1] : i \in 1 .. 5}
      BY <2>1 DEF Range, SharedParts
    <2>3. {Parts[i + 1] : i \in 1 .. 5} \subseteq StreamParts \ {"str", "rdbx"}
      BY <1>1 DEF StreamParts
    <2>4. StreamParts \ {"str", "rdbx"} \subseteq {Parts[i + 1] : i \in 1 .. 5}
      BY <1>1 DEF StreamParts
    <2>5. QED
      BY <2>2, <2>3, <2>4
  <1>7. QED
    BY <1>2, <1>4, <1>5, <1>6

LEMMA OwnIs ==
  ASSUME NEW id, NEW P
  PROVE  \A o : o \in Own(id, P) <=> \E p \in P : o = <<id, p>>
  BY DEF Own

LEMMA AllocIs ==
  ASSUME NEW m \in Memory, NEW X \in SUBSET Object
  PROVE  /\ alloc(m, X) \in Memory /\ alloc(m, X).heap = m.heap \cup X
         /\ alloc(m, X).misused = m.misused /\ alloc(m, X).blame = m.blame
  <1>1. m.heap \cup X \in SUBSET Object
    BY DEF Memory
  <1>2. QED
    BY <1>1 DEF alloc, Memory

LEMMA FreeIs ==
  ASSUME NEW m \in Memory, NEW X
  PROVE  /\ free(m, X) \in Memory /\ free(m, X).heap = m.heap \ X
         /\ free(m, X).blame = m.blame
         /\ X \subseteq m.heap => free(m, X).misused = m.misused
  <1> DEFINE h == m.heap \ X
             u == (m.misused \/ ~(X \subseteq m.heap))
  <1>1. /\ h \in SUBSET Object /\ u \in BOOLEAN
        /\ X \subseteq m.heap => u = m.misused
    BY DEF Memory
  <1>2. free(m, X) = [m EXCEPT !.heap = h, !.misused = u]
    BY DEF free
  <1> HIDE DEF h, u
  <1>3. /\ free(m, X) \in Memory /\ free(m, X).heap = h
        /\ free(m, X).blame = m.blame /\ free(m, X).misused = u
    BY <1>1, <1>2 DEF Memory
  <1>4. QED
    BY <1>1, <1>3 DEF h

LEMMA LeakIs ==
  ASSUME NEW m \in Memory, NEW what \in Blames
  PROVE  /\ leak(m, what) \in Memory /\ leak(m, what).heap = m.heap
         /\ leak(m, what).misused = m.misused
         /\ leak(m, what).blame = m.blame \cup {what}
  <1>1. m.blame \cup {what} \in SUBSET Blames
    BY DEF Memory
  <1>2. QED
    BY <1>1 DEF leak, Memory

-----------------------------------------------------------------------------
(* Contexts.                                                               *)

Stream == [id : 0 .. MaxObjects, ssrc : SSRCs \cup {0}, shared : 0 .. MaxObjects]
Context == [stream_template : Stream, stream_list : Seq(Stream)]

StreamsOf(c) == Range(c.stream_list) \cup ({c.stream_template} \ {None})

\* What is freed with the session s of the context c.
Objects(s, c) == Own(s, {"ctx"}) \cup UNION {objectsOf(x) : x \in StreamsOf(c)}

Ids(c) == {x.id : x \in StreamsOf(c)}

\* No two streams go by one number, and each has its contexts to itself or has
\* those of the template.
SoundContext(c) ==
  /\ c.stream_template # None => c.stream_template.id # 0
  /\ c.stream_template.shared = c.stream_template.id
  /\ \A i \in DOMAIN c.stream_list :
       /\ c.stream_list[i].id # 0 /\ c.stream_list[i].shared # 0
       /\ c.stream_list[i].shared \in {c.stream_list[i].id, c.stream_template.id}
       /\ c.stream_list[i].id # c.stream_template.id
  /\ \A i, j \in DOMAIN c.stream_list :
       c.stream_list[i].id = c.stream_list[j].id => i = j

LEMMA NoneIs == /\ None \in Stream /\ None.id = 0 /\ None.shared = 0
                /\ NoContext \in Context /\ SoundContext(NoContext)
                /\ StreamsOf(NoContext) = {}
  <1>1. None \in Stream /\ None.id = 0 /\ None.shared = 0
    BY SessionsAssumption DEF None, Stream
  <1>2. <<>> \in Seq(Stream) /\ DOMAIN <<>> = {}
    BY EmptySeq
  <1>3. /\ NoContext.stream_template = None /\ NoContext.stream_list = <<>>
        /\ NoContext \in Context
    BY <1>1, <1>2 DEF NoContext, Context
  <1>4. SoundContext(NoContext)
    BY <1>1, <1>2, <1>3 DEF SoundContext
  <1>5. StreamsOf(NoContext) = {}
    BY <1>2, <1>3 DEF StreamsOf, Range
  <1>6. QED
    BY <1>1, <1>3, <1>4, <1>5

\* Whose the objects of a session are.
LEMMA WhoseObjects ==
  ASSUME NEW s, NEW c \in Context, SoundContext(c)
  PROVE  /\ \A o \in Objects(s, c) :
              \/ o = <<s, "ctx">>
              \/ \E id \in Ids(c), p \in StreamParts : o = <<id, p>>
         /\ <<s, "ctx">> \in Objects(s, c)
         /\ \A id \in Ids(c) : <<id, "str">> \in Objects(s, c) /\ id \in 1 .. MaxObjects
  <1>1. ASSUME NEW x \in StreamsOf(c)
        PROVE  /\ x.id \in Ids(c) /\ x.shared \in Ids(c)
               /\ x.id \in 1 .. MaxObjects
    <2>1. CASE x \in Range(c.stream_list)
      <3>1. PICK i \in DOMAIN c.stream_list : x = c.stream_list[i]
        BY <2>1 DEF Range
      <3>2. x \in Stream
        BY <3>1 DEF Context
      <3>3. x.id # 0 /\ x.shared # 0 /\ x.shared \in {x.id, c.stream_template.id}
        BY <3>1 DEF SoundContext
      <3>4. CASE x.shared = x.id
        BY <3>2, <3>3, <3>4 DEF Ids, Stream
      <3>5. CASE x.shared = c.stream_template.id
        <4>1. c.stream_template # None
          BY <3>3, <3>5, NoneIs
        <4>2. c.stream_template \in StreamsOf(c)
          BY <4>1 DEF StreamsOf
        <4>3. QED
          BY <3>2, <3>3, <3>5, <4>2 DEF Ids, Stream
      <3>6. QED
        BY <3>3, <3>4, <3>5
    <2>2. CASE x \in {c.stream_template} \ {None}
      BY <2>2 DEF SoundContext, Ids, Context, Stream
    <2>3. QED
      BY <2>1, <2>2 DEF StreamsOf
  <1>2. ASSUME NEW x \in StreamsOf(c), NEW o \in objectsOf(x)
        PROVE  \E id \in Ids(c), p \in StreamParts : o = <<id, p>>
    <2>1. \/ \E p \in {"str", "rdbx"} : o = <<x.id, p>>
          \/ \E p \in SharedParts : o = <<x.shared, p>>
      BY <1>2, OwnIs DEF objectsOf
    <2>2. {"str", "rdbx"} \subseteq StreamParts /\ SharedParts \subseteq StreamParts
      BY PartsAre DEF StreamParts
    <2>3. QED
      BY <1>1, <2>1, <2>2
  <1>3. \A o \in Own(s, {"ctx"}) : o = <<s, "ctx">>
    BY OwnIs
  <1>4. <<s, "ctx">> \in Own(s, {"ctx"})
    BY OwnIs
  <1>5. ASSUME NEW id \in Ids(c) PROVE <<id, "str">> \in Objects(s, c)
    <2>1. PICK x \in StreamsOf(c) : id = x.id
      BY DEF Ids
    <2>2. <<id, "str">> \in objectsOf(x)
      BY <2>1, OwnIs DEF objectsOf
    <2>3. QED
      BY <2>2 DEF Objects
  <1>6. \A id \in Ids(c) : id \in 1 .. MaxObjects
    BY <1>1 DEF Ids
  <1>7. QED
    BY <1>2, <1>3, <1>4, <1>5, <1>6 DEF Objects

LEMMA WhoseObject ==
  ASSUME NEW s, NEW c \in Context, SoundContext(c), NEW o \in Objects(s, c)
  PROVE  o = <<s, "ctx">> \/ \E id \in Ids(c), p \in StreamParts : o = <<id, p>>
  <1> DEFINE P(x) == x = <<s, "ctx">> \/ \E id \in Ids(c), p \in StreamParts : x = <<id, p>>
  <1>1. \A x \in Objects(s, c) : P(x)
    <2>1. /\ \A x \in Objects(s, c) : P(x)
          /\ <<s, "ctx">> \in Objects(s, c)
          /\ \A id \in Ids(c) : <<id, "str">> \in Objects(s, c) /\ id \in 1 .. MaxObjects
      BY WhoseObjects, SMTT(30)
    <2>2. QED
      BY <2>1
  <1> HIDE DEF P
  <1>2. P(o)
    BY <1>1
  <1>3. QED
    BY <1>2 DEF P

-----------------------------------------------------------------------------
(* srtp_dealloc.                                                           *)

\* What a recursive function over the first natural numbers is defined by has a
\* solution.
Iteration(f, m, D, a, g) ==
  /\ f \in [0 .. m -> D] /\ f[0] = a
  /\ \A i \in 1 .. m : f[i] = g[<<i, f[i - 1]>>]

LEMMA Iterates ==
  ASSUME NEW n \in Nat, NEW D, NEW a \in D, NEW g \in [(1 .. n) \X D -> D]
  PROVE  \E f : Iteration(f, n, D, a, g)
  <1> DEFINE Solves(f, m) == Iteration(f, m, D, a, g)
             S == {m \in 0 .. n : \E f : Solves(f, m)}
  <1>1. 0 \in S
    <2>1. Solves([i \in 0 .. 0 |-> a], 0)
      BY DEF Iteration
    <2> HIDE DEF Solves
    <2>2. QED
      BY <2>1
  <1>2. ASSUME NEW m \in 0 .. n - 1, m \in S PROVE m + 1 \in S
    <2>1. PICK f : Solves(f, m)
      BY <1>2
    <2> DEFINE e == [i \in 0 .. m + 1 |-> IF i = m + 1 THEN g[<<m + 1, f[m]>>] ELSE f[i]]
    <2>2. m + 1 \in 1 .. n /\ m \in 0 .. m /\ f[m] \in D
      BY <2>1 DEF Iteration
    <2>3. g[<<m + 1, f[m]>>] \in D
      BY <2>2
    <2>4. e \in [0 .. m + 1 -> D]
      BY <2>1, <2>3 DEF Iteration
    <2>5. \A i \in 0 .. m : e[i] = f[i]
      OBVIOUS
    <2>6. e[m + 1] = g[<<m + 1, f[m]>>]
      OBVIOUS
    <2> HIDE DEF e
    <2>7. ASSUME NEW i \in 1 .. m + 1 PROVE e[i] = g[<<i, e[i - 1]>>]
      <3>1. CASE i = m + 1
        <4>1. i - 1 = m
          BY <3>1
        <4>2. QED
          BY <2>5, <2>6, <3>1, <4>1
      <3>2. CASE i # m + 1
        <4>1. i \in 1 .. m /\ i \in 0 .. m /\ i - 1 \in 0 .. m
          BY <3>2
        <4>2. QED
          BY <2>1, <2>5, <4>1 DEF Iteration
      <3>3. QED
        BY <3>1, <3>2
    <2>8. Solves(e, m + 1)
      BY <2>1, <2>4, <2>5, <2>7 DEF Iteration
    <2>9. m + 1 \in 0 .. n
      OBVIOUS
    <2> HIDE DEF Solves
    <2>10. QED
      BY <2>8, <2>9
  <1>3. n \in 0 .. n
    OBVIOUS
  <1>4. n \in S
    <2> HIDE DEF S
    <2>1. QED
      BY <1>1, <1>2, <1>3, Induction
  <1>5. QED
    BY <1>4

\* What srtp_stream_dealloc frees.
Frees(c, x) == IF x.shared = c.stream_template.shared
               THEN Own(x.id, {"str", "rdbx"}) ELSE objectsOf(x)

\* The memory after the first streams of the list have been freed.
Deallocates(f, m, c) ==
  f = [i \in 0 .. Len(c.stream_list) |->
         IF i = 0 THEN m ELSE srtp_stream_dealloc(f[i - 1], c, c.stream_list[i])]

LEMMA DeallocatesExists ==
  ASSUME NEW m \in Memory, NEW c \in Context
  PROVE  \E f : Deallocates(f, m, c)
  <1> DEFINE n == Len(c.stream_list)
             g == [q \in (1 .. n) \X Memory |->
                     srtp_stream_dealloc(q[2], c, c.stream_list[q[1]])]
  <1>1. n \in Nat
    BY DEF Context
  <1>2. ASSUME NEW i \in 1 .. n, NEW k \in Memory
        PROVE  /\ srtp_stream_dealloc(k, c, c.stream_list[i]) \in Memory
               /\ g[<<i, k>>] = srtp_stream_dealloc(k, c, c.stream_list[i])
    BY FreeIs DEF srtp_stream_dealloc
  <1>3. g \in [(1 .. n) \X Memory -> Memory]
    BY <1>2
  <1> HIDE DEF g, n
  <1>4. PICK f : Iteration(f, n, Memory, m, g)
    BY <1>1, <1>3, Iterates
  <1>5. \A i \in 0 .. n : f[i] = IF i = 0 THEN m
                                 ELSE srtp_stream_dealloc(f[i - 1], c, c.stream_list[i])
    <2> SUFFICES ASSUME NEW i \in 0 .. n, i # 0
                 PROVE  f[i] = srtp_stream_dealloc(f[i - 1], c, c.stream_list[i])
      BY <1>4 DEF Iteration
    <2>1. i \in 1 .. n /\ i - 1 \in 0 .. n
      BY <1>1
    <2>2. f[i - 1] \in Memory
      BY <1>4, <2>1 DEF Iteration
    <2>3. QED
      BY <1>2, <1>4, <2>1, <2>2 DEF Iteration
  <1>6. f = [i \in 0 .. n |-> f[i]]
    BY <1>4 DEF Iteration
  <1>7. Deallocates(f, m, c)
    BY <1>5, <1>6 DEF Deallocates, n
  <1>8. QED
    BY <1>7

LEMMA DeallocIs ==
  ASSUME NEW m \in Memory, NEW c \in Context, NEW id
  PROVE  \E f : /\ Deallocates(f, m, c)
                /\ srtp_dealloc(m, id, c) =
                     free(withoutTemplate(f[Len(c.stream_list)], c), Own(id, {"ctx"}))
  <1> DEFINE f == CHOOSE h : h = [i \in 0 .. Len(c.stream_list) |->
                    IF i = 0 THEN m ELSE srtp_stream_dealloc(h[i - 1], c, c.stream_list[i])]
  <1>1. srtp_dealloc(m, id, c) =
          free(withoutTemplate(f[Len(c.stream_list)], c), Own(id, {"ctx"}))
    BY DEF srtp_dealloc
  <1>2. Deallocates(f, m, c)
    BY DeallocatesExists DEF Deallocates
  <1> HIDE DEF f
  <1>3. QED
    BY <1>1, <1>2

LEMMA DeallocatesStep ==
  ASSUME NEW m \in Memory, NEW c \in Context, NEW f, Deallocates(f, m, c)
  PROVE  /\ f[0] = m
         /\ \A i \in 0 .. Len(c.stream_list) - 1 :
              f[i + 1] = free(f[i], Frees(c, c.stream_list[i + 1]))
  <1>1. Len(c.stream_list) \in Nat
    BY DEF Context
  <1>2. f[0] = m
    BY <1>1 DEF Deallocates
  <1>3. ASSUME NEW i \in 0 .. Len(c.stream_list) - 1
        PROVE  f[i + 1] = srtp_stream_dealloc(f[i], c, c.stream_list[i + 1])
    <2>1. i + 1 \in 0 .. Len(c.stream_list) /\ i + 1 # 0 /\ (i + 1) - 1 = i
      BY <1>1
    <2>2. QED
      BY <2>1 DEF Deallocates
  <1>4. QED
    BY <1>2, <1>3 DEF srtp_stream_dealloc, Frees

\* Whatever the session, memory only shrinks.
LEMMA DeallocType ==
  ASSUME NEW m \in Memory, NEW c \in Context, NEW id
  PROVE  /\ srtp_dealloc(m, id, c) \in Memory
         /\ srtp_dealloc(m, id, c).heap \subseteq m.heap
         /\ srtp_dealloc(m, id, c).blame = m.blame
  <1>1. PICK f : /\ Deallocates(f, m, c)
                 /\ srtp_dealloc(m, id, c) =
                      free(withoutTemplate(f[Len(c.stream_list)], c), Own(id, {"ctx"}))
    BY DeallocIs
  <1> DEFINE n == Len(c.stream_list)
             Shrunk(k) == k \in Memory /\ k.heap \subseteq m.heap /\ k.blame = m.blame
             S == {i \in 0 .. n : Shrunk(f[i])}
  <1>2. n \in Nat
    BY DEF Context
  <1>3. ASSUME NEW k, Shrunk(k), NEW X PROVE Shrunk(free(k, X))
    BY <1>3, FreeIs
  <1> HIDE DEF Shrunk
  <1>4. Shrunk(m)
    BY DEF Shrunk
  <1>5. 0 \in S /\ \A i \in 0 .. n - 1 : i \in S => i + 1 \in S
    <2>1. 0 \in S
      BY <1>1, <1>2, <1>4, DeallocatesStep
    <2>2. ASSUME NEW i \in 0 .. n - 1, i \in S PROVE i + 1 \in S
      <3>1. f[i + 1] = free(f[i], Frees(c, c.stream_list[i + 1]))
        BY <1>1, DeallocatesStep
      <3>2. QED
        BY <1>2, <1>3, <2>2, <3>1
    <2>3. QED
      BY <2>1, <2>2
  <1>6. Shrunk(f[n])
    <2>1. n \in 0 .. n
      BY <1>2
    <2>2. n \in S
      <3> HIDE DEF S, n
      <3>1. QED
        BY <1>2, <1>5, <2>1, Induction
    <2>3. QED
      BY <2>2
  <1>7. Shrunk(withoutTemplate(f[n], c))
    BY <1>3, <1>6 DEF withoutTemplate
  <1>8. Shrunk(srtp_dealloc(m, id, c))
    BY <1>1, <1>3, <1>7
  <1>9. QED
    BY <1>8 DEF Shrunk

\* What goes with a stream are its own objects; what it has from the template goes
\* with the template.
LEMMA FreesAre ==
  ASSUME NEW c \in Context, SoundContext(c), NEW i \in 1 .. Len(c.stream_list)
  PROVE  LET x == c.stream_list[i]
         IN  /\ x \in StreamsOf(c)
             /\ Frees(c, x) \subseteq objectsOf(x)
             /\ \A o \in Frees(c, x) : \E p \in StreamParts : o = <<x.id, p>>
             /\ \A o \in objectsOf(x) : \/ o \in Frees(c, x)
                                        \/ /\ c.stream_template # None
                                           /\ o \in objectsOf(c.stream_template)
  <1> DEFINE x == c.stream_list[i]
             t == c.stream_template
  <1>1. i \in DOMAIN c.stream_list
    BY DEF Context
  <1>2. x \in StreamsOf(c)
    BY <1>1 DEF StreamsOf, Range
  <1>3. /\ x.shared # 0 /\ x.shared \in {x.id, t.id} /\ t.shared = t.id
    BY <1>1 DEF SoundContext
  <1>4. {"str", "rdbx"} \subseteq StreamParts /\ SharedParts \subseteq StreamParts
    BY PartsAre DEF StreamParts
  <1>5. Frees(c, x) = IF x.shared = t.shared
                      THEN Own(x.id, {"str", "rdbx"}) ELSE objectsOf(x)
    BY DEF Frees
  <1> HIDE DEF x, t
  <1>6. CASE x.shared = t.shared
    <2>1. Frees(c, x) = Own(x.id, {"str", "rdbx"})
      BY <1>5, <1>6
    <2>2. objectsOf(x) = Own(x.id, {"str", "rdbx"}) \cup Own(t.id, SharedParts)
      BY <1>3, <1>6 DEF objectsOf
    <2>3. Own(t.id, SharedParts) \subseteq objectsOf(t) /\ t # None
      BY <1>3, <1>6, NoneIs DEF objectsOf
    <2>4. \A o \in Frees(c, x) : \E p \in StreamParts : o = <<x.id, p>>
      BY <1>4, <2>1, OwnIs
    <2>5. QED
      BY <1>2, <2>1, <2>2, <2>3, <2>4 DEF x, t
  <1>7. CASE x.shared # t.shared
    <2>1. Frees(c, x) = objectsOf(x) /\ x.shared = x.id
      BY <1>3, <1>5, <1>7
    <2>2. objectsOf(x) = Own(x.id, {"str", "rdbx"}) \cup Own(x.id, SharedParts)
      BY <2>1 DEF objectsOf
    <2>3. \A o \in objectsOf(x) : \E p \in StreamParts : o = <<x.id, p>>
      BY <1>4, <2>2, OwnIs
    <2>4. QED
      BY <1>2, <2>1, <2>3 DEF x, t
  <1>8. QED
    BY <1>6, <1>7

\* A session that is sound is freed whole, each object once.
LEMMA DeallocSound ==
  ASSUME NEW m \in Memory, NEW c \in Context, SoundContext(c), NEW id,
         Objects(id, c) \subseteq m.heap
  PROVE  /\ srtp_dealloc(m, id, c).heap = m.heap \ Objects(id, c)
         /\ srtp_dealloc(m, id, c).misused = m.misused
  <1>1. PICK f : /\ Deallocates(f, m, c)
                 /\ srtp_dealloc(m, id, c) =
                      free(withoutTemplate(f[Len(c.stream_list)], c), Own(id, {"ctx"}))
    BY DeallocIs
  <1> DEFINE n == Len(c.stream_list)
             x(i) == c.stream_list[i]
             F(i) == Frees(c, x(i))
             Gone(i) == UNION {F(j) : j \in 1 .. i}
             Freed(i) == /\ f[i] \in Memory /\ f[i].heap = m.heap \ Gone(i)
                         /\ f[i].misused = m.misused
             S == {i \in 0 .. n : Freed(i)}
  <1>2. n \in Nat /\ DOMAIN c.stream_list = 1 .. n
    BY DEF Context
  <1>3. \A i \in 1 .. n :
          /\ x(i) \in StreamsOf(c) /\ F(i) \subseteq objectsOf(x(i))
          /\ \A o \in F(i) : \E p \in StreamParts : o = <<x(i).id, p>>
          /\ \A o \in objectsOf(x(i)) : \/ o \in F(i)
                                        \/ /\ c.stream_template # None
                                           /\ o \in objectsOf(c.stream_template)
    BY FreesAre
  <1>4. \A i, j \in 1 .. n : x(i).id = x(j).id => i = j
    BY <1>2 DEF SoundContext
  <1>5. \A i \in 1 .. n : F(i) \subseteq Objects(id, c)
    <2> HIDE DEF F, x
    <2>1. QED
      BY <1>3 DEF Objects
  <1>6. \A i, j \in 1 .. n : i # j => F(i) \cap F(j) = {}
    <2> HIDE DEF F, x
    <2> SUFFICES ASSUME NEW i \in 1 .. n, NEW j \in 1 .. n, NEW o \in F(i), o \in F(j)
                 PROVE  i = j
      OBVIOUS
    <2>1. PICK p \in StreamParts : o = <<x(i).id, p>>
      BY <1>3
    <2>2. PICK q \in StreamParts : o = <<x(j).id, q>>
      BY <1>3
    <2>3. x(i).id = x(j).id
      BY <2>1, <2>2
    <2>4. QED
      BY <1>4, <2>3
  <1>7. 0 \in S
    <2>1. f[0] = m
      BY <1>1, DeallocatesStep
    <2>2. Gone(0) = {}
      OBVIOUS
    <2>3. Freed(0)
      BY <2>1, <2>2
    <2> HIDE DEF Freed
    <2>4. QED
      BY <1>2, <2>3
  <1>8. ASSUME NEW i \in 0 .. n - 1, i \in S PROVE i + 1 \in S
    <2>1. f[i + 1] = free(f[i], F(i + 1))
      BY <1>1, DeallocatesStep
    <2>2. i + 1 \in 1 .. n /\ i + 1 \in 0 .. n /\ \A j \in 1 .. i : j \in 1 .. n /\ j # i + 1
      BY <1>2
    <2>3. Freed(i)
      BY <1>8
    <2> HIDE DEF F, n
    <2>4. Gone(i + 1) = Gone(i) \cup F(i + 1)
      <3>1. 1 .. i + 1 = (1 .. i) \cup {i + 1}
        BY <1>2
      <3>2. QED
        BY <3>1
    <2>5. Gone(i) \cap F(i + 1) = {}
      BY <1>6, <2>2
    <2> HIDE DEF Gone
    <2>6. F(i + 1) \subseteq f[i].heap
      BY <1>5, <2>2, <2>3, <2>5
    <2>7. Freed(i + 1)
      BY <2>1, <2>3, <2>4, <2>6, FreeIs
    <2> HIDE DEF Freed
    <2>8. QED
      BY <2>2, <2>7
  <1>9. Freed(n)
    <2>1. n \in 0 .. n
      BY <1>2
    <2>2. n \in S
      <3> HIDE DEF S, n
      <3>1. QED
        BY <1>2, <1>7, <1>8, <2>1, Induction
    <2>3. QED
      BY <2>2
  <1> DEFINE t == c.stream_template
             T == IF t = None THEN {} ELSE objectsOf(t)
             k == withoutTemplate(f[n], c)
  <1>10. /\ t # None => t \in StreamsOf(c)
         /\ \A o \in T : \E p \in StreamParts : o = <<t.id, p>>
         /\ T \subseteq Objects(id, c)
    <2>1. t # None => t \in StreamsOf(c)
      BY DEF StreamsOf
    <2>2. t.shared = t.id
      BY DEF SoundContext
    <2>3. {"str", "rdbx"} \subseteq StreamParts /\ SharedParts \subseteq StreamParts
      BY PartsAre DEF StreamParts
    <2> HIDE DEF t
    <2>4. objectsOf(t) = Own(t.id, {"str", "rdbx"}) \cup Own(t.id, SharedParts)
      BY <2>2 DEF objectsOf
    <2>5. \A o \in objectsOf(t) : \E p \in StreamParts : o = <<t.id, p>>
      BY <2>3, <2>4, OwnIs
    <2>6. QED
      BY <2>1, <2>5 DEF Objects
  <1>11. T \cap Gone(n) = {}
    <2> HIDE DEF F, T, n, x
    <2> SUFFICES ASSUME NEW o \in T, NEW i \in 1 .. n, o \in F(i) PROVE FALSE
      OBVIOUS
    <2>1. PICK p \in StreamParts : o = <<t.id, p>>
      BY <1>10
    <2>2. PICK q \in StreamParts : o = <<x(i).id, q>>
      BY <1>3
    <2>3. x(i).id = t.id
      BY <2>1, <2>2
    <2>4. QED
      BY <1>2, <2>3 DEF SoundContext, x
  <1>12. /\ k \in Memory /\ k.heap = m.heap \ (Gone(n) \cup T) /\ k.misused = m.misused
    <2> HIDE DEF Gone
    <2>1. CASE t = None
      BY <1>9, <2>1 DEF withoutTemplate
    <2>2. CASE t # None
      <3>1. k = free(f[n], T)
        BY <2>2 DEF withoutTemplate
      <3>2. T \subseteq f[n].heap
        BY <1>9, <1>10, <1>11
      <3> HIDE DEF T, k
      <3>3. QED
        BY <1>9, <3>1, <3>2, FreeIs
    <2>3. QED
      BY <2>1, <2>2
  <1>13. \A o \in Own(id, {"ctx"}) : o \notin Gone(n) /\ o \notin T
    <2> HIDE DEF F, T, n, x
    <2> SUFFICES ASSUME NEW o \in Own(id, {"ctx"}) PROVE o \notin Gone(n) /\ o \notin T
      OBVIOUS
    <2>1. o = <<id, "ctx">> /\ "ctx" \notin StreamParts
      BY OwnIs DEF StreamParts
    <2>2. ASSUME NEW j, NEW p \in StreamParts, o = <<j, p>> PROVE FALSE
      BY <2>1, <2>2
    <2>3. QED
      BY <1>3, <1>10, <2>2
  <1>14. Objects(id, c) = Own(id, {"ctx"}) \cup Gone(n) \cup T
    <2>1. Gone(n) \subseteq Objects(id, c)
      <3> HIDE DEF F
      <3>1. QED
        BY <1>5
    <2>2. \A y \in StreamsOf(c) : objectsOf(y) \subseteq Gone(n) \cup T
      <3> SUFFICES ASSUME NEW y \in StreamsOf(c), NEW o \in objectsOf(y)
                   PROVE  o \in Gone(n) \/ o \in T
        OBVIOUS
      <3>1. CASE y \in Range(c.stream_list)
        <4>1. PICK i \in 1 .. n : y = x(i)
          BY <1>2, <3>1 DEF Range
        <4>2. \/ o \in F(i) 
              \/ t # None /\ o \in objectsOf(t)
          BY <1>3, <4>1
        <4> HIDE DEF F, n
        <4>3. QED
          BY <4>2
      <3>2. CASE y \in {t} \ {None}
        BY <3>2
      <3>3. QED
        BY <3>1, <3>2 DEF StreamsOf
    <2> HIDE DEF Gone, T
    <2>3. QED
      BY <1>10, <2>1, <2>2 DEF Objects
  <1>15. Own(id, {"ctx"}) \subseteq k.heap
    <2> HIDE DEF Gone, T, k
    <2>1. QED
      BY <1>12, <1>13, <1>14
  <1>16. srtp_dealloc(m, id, c) = free(k, Own(id, {"ctx"}))
    BY <1>1
  <1> HIDE DEF Gone, T, k
  <1>17. QED
    BY <1>12, <1>14, <1>15, <1>16, FreeIs

-----------------------------------------------------------------------------
(* A stream is added.                                                      *)

\* The memory l and the context d are m and c after a call that works under the
\* number id: what was there stays, what is new belongs to the session, or else
\* the call is blamed.
Extends(m, c, id, l, d) ==
  /\ l \in Memory /\ d \in Context /\ SoundContext(d)
  /\ l.misused = m.misused
  /\ m.blame \subseteq l.blame /\ ("stale" \in l.blame => "stale" \in m.blame)
  /\ Ids(d) \subseteq Ids(c) \cup {id}
  /\ m.heap \subseteq l.heap /\ l.heap \subseteq m.heap \cup Own(id, StreamParts)
  /\ \A s : /\ Objects(s, c) \subseteq Objects(s, d)
            /\ Objects(s, d) \subseteq Objects(s, c) \cup l.heap
            /\ l.blame = {} => l.heap \subseteq m.heap \cup Objects(s, d)

LEMMA OwnObjects ==
  ASSUME NEW id \in 1 .. MaxObjects, NEW P \in SUBSET (StreamParts \cup {"ctx"})
  PROVE  Own(id, P) \in SUBSET Object
  BY DEF Own, Object

LEMMA OneMore ==
  ASSUME NEW c, NEW d, NEW x, StreamsOf(d) = StreamsOf(c) \cup {x}
  PROVE  /\ Ids(d) = Ids(c) \cup {x.id}
         /\ \A s : Objects(s, d) = Objects(s, c) \cup objectsOf(x)
  BY DEF Ids, Objects

LEMMA PrependStream ==
  ASSUME NEW c \in Context, SoundContext(c), NEW x \in Stream, x.id # 0,
         x.id \notin Ids(c), x.shared # 0, x.shared \in {x.id, c.stream_template.id}
  PROVE  LET d == [c EXCEPT !.stream_list = <<x>> \o @]
         IN  d \in Context /\ SoundContext(d) /\ StreamsOf(d) = StreamsOf(c) \cup {x}
  <1> DEFINE list == c.stream_list
             new == <<x>> \o list
             d == [c EXCEPT !.stream_list = new]
  <1>1. /\ list \in Seq(Stream) /\ Len(list) \in Nat /\ DOMAIN list = 1 .. Len(list)
        /\ <<x>> \in Seq(Stream) /\ Len(<<x>>) = 1 /\ <<x>>[1] = x
    BY DEF Context
  <1>2. /\ new \in Seq(Stream) /\ Len(new) = Len(list) + 1
        /\ \A i \in 1 .. Len(list) + 1 : new[i] = IF i <= 1 THEN x ELSE list[i - 1]
    BY <1>1, ConcatProperties
  <1> HIDE DEF new
  <1>3. /\ DOMAIN new = 1 .. Len(list) + 1 /\ new[1] = x
        /\ \A i \in 1 .. Len(list) : new[i + 1] = list[i]
    BY <1>1, <1>2
  <1>4. /\ d \in Context /\ d.stream_list = new
        /\ d.stream_template = c.stream_template
    BY <1>2 DEF Context
  <1>5. Range(new) = Range(list) \cup {x}
    <2>1. \A i \in 1 .. Len(list) : i + 1 \in DOMAIN new /\ new[i + 1] = list[i]
      BY <1>1, <1>3
    <2>2. 1 \in DOMAIN new
      BY <1>1, <1>3
    <2>3. \A i \in DOMAIN new : new[i] = x \/ \E j \in 1 .. Len(list) : new[i] = list[j]
      <3> SUFFICES ASSUME NEW i \in DOMAIN new, i # 1
                   PROVE  \E j \in 1 .. Len(list) : new[i] = list[j]
        BY <1>3
      <3>1. i - 1 \in 1 .. Len(list) /\ new[i] = list[i - 1]
        BY <1>1, <1>2, <1>3
      <3>2. QED
        BY <3>1
    <2>4. /\ \A y : y \in Range(new) <=> \E i \in DOMAIN new : y = new[i]
          /\ \A y : y \in Range(list) <=> \E j \in 1 .. Len(list) : y = list[j]
      BY <1>1 DEF Range
    <2>5. Range(new) \subseteq Range(list) \cup {x}
      BY <2>3, <2>4
    <2>6. Range(list) \cup {x} \subseteq Range(new)
      BY <1>3, <2>1, <2>2, <2>4
    <2>7. QED
      BY <2>5, <2>6
  <1>6. \A i \in 1 .. Len(list) : list[i].id # x.id
    BY <1>1 DEF Ids, StreamsOf, Range
  <1>7. x.id # c.stream_template.id
    <2>1. CASE c.stream_template = None
      BY <2>1, NoneIs
    <2>2. CASE c.stream_template # None
      BY <2>2 DEF Ids, StreamsOf
    <2>3. QED
      BY <2>1, <2>2
  <1> HIDE DEF d, list
  <1>8. ASSUME NEW i \in DOMAIN new
        PROVE  /\ new[i].id # 0 /\ new[i].shared # 0
               /\ new[i].shared \in {new[i].id, c.stream_template.id}
               /\ new[i].id # c.stream_template.id
    <2>1. CASE i = 1
      BY <1>3, <1>7, <2>1
    <2>2. CASE i # 1
      <3>1. i - 1 \in 1 .. Len(list) /\ new[i] = list[i - 1]
        BY <1>1, <1>2, <1>3, <2>2
      <3>2. QED
        BY <1>1, <3>1 DEF SoundContext, list
    <2>3. QED
      BY <2>1, <2>2
  <1>9. ASSUME NEW i \in DOMAIN new, NEW j \in DOMAIN new, new[i].id = new[j].id
        PROVE  i = j
    <2>1. CASE i > 1 /\ j > 1
      <3>1. /\ i - 1 \in 1 .. Len(list) /\ j - 1 \in 1 .. Len(list)
            /\ new[i] = list[i - 1] /\ new[j] = list[j - 1]
        BY <1>1, <1>2, <1>3, <2>1
      <3>2. i - 1 = j - 1
        BY <1>1, <1>9, <3>1 DEF SoundContext, list
      <3>3. QED
        BY <1>1, <1>3, <3>2
    <2>2. CASE i = 1 /\ j > 1
      BY <1>1, <1>2, <1>3, <1>6, <1>9, <2>2
    <2>3. CASE j = 1 /\ i > 1
      BY <1>1, <1>2, <1>3, <1>6, <1>9, <2>3
    <2>4. QED
      BY <1>1, <1>3, <2>1, <2>2, <2>3
  <1>10. SoundContext(d)
    BY <1>4, <1>8, <1>9 DEF SoundContext
  <1>11. StreamsOf(d) = StreamsOf(c) \cup {x}
    BY <1>4, <1>5 DEF StreamsOf, list
  <1>12. QED
    BY <1>4, <1>10, <1>11 DEF d, new, list

LEMMA SetTemplate ==
  ASSUME NEW c \in Context, SoundContext(c), NEW x \in Stream, x.id # 0,
         x.id \notin Ids(c), x.shared = x.id, c.stream_template = None
  PROVE  LET d == [c EXCEPT !.stream_template = x]
         IN  d \in Context /\ SoundContext(d) /\ StreamsOf(d) = StreamsOf(c) \cup {x}
  <1> DEFINE d == [c EXCEPT !.stream_template = x]
  <1>1. /\ d \in Context /\ d.stream_list = c.stream_list /\ d.stream_template = x
    BY DEF Context
  <1> HIDE DEF d
  <1>2. \A i \in DOMAIN c.stream_list : c.stream_list[i].id # x.id
    BY DEF Ids, StreamsOf, Range
  <1>3. \A i \in DOMAIN c.stream_list :
          c.stream_list[i].shared = c.stream_list[i].id
    BY NoneIs DEF SoundContext
  <1>4. SoundContext(d)
    BY <1>1, <1>2, <1>3 DEF SoundContext
  <1>5. x # None
    BY NoneIs
  <1>6. StreamsOf(d) = StreamsOf(c) \cup {x}
    BY <1>1, <1>5 DEF StreamsOf
  <1>7. QED
    BY <1>1, <1>4, <1>6 DEF d

\* A call that leaves the context as it is.
LEMMA ExtendsLost ==
  ASSUME NEW m \in Memory, NEW c \in Context, SoundContext(c), NEW id,
         NEW l \in Memory, l.misused = m.misused, m.blame \subseteq l.blame,
         "stale" \in l.blame => "stale" \in m.blame, m.heap \subseteq l.heap,
         l.heap \subseteq m.heap \cup Own(id, StreamParts),
         l.blame = {} => l.heap = m.heap
  PROVE  Extends(m, c, id, l, c)
  BY DEF Extends

\* A call that adds one stream to the context.
LEMMA ExtendsMore ==
  ASSUME NEW m \in Memory, NEW c \in Context, SoundContext(c), NEW x,
         NEW d \in Context, SoundContext(d), StreamsOf(d) = StreamsOf(c) \cup {x},
         NEW X, X \subseteq Own(x.id, StreamParts), X \subseteq objectsOf(x),
         \A s : objectsOf(x) \subseteq X \cup Objects(s, c),
         NEW l \in Memory, l.heap = m.heap \cup X, l.misused = m.misused,
         l.blame = m.blame
  PROVE  Extends(m, c, x.id, l, d)
  <1>1. /\ Ids(d) = Ids(c) \cup {x.id}
        /\ \A s : Objects(s, d) = Objects(s, c) \cup objectsOf(x)
    BY OneMore
  <1>2. QED
    BY <1>1 DEF Extends

\* The stream that srtp_add_stream makes.
Added(id, p) == [id |-> id, ssrc |-> ByteOrder[p.ssrc], shared |-> id]

LEMMA AddedIs ==
  ASSUME NEW id \in 1 .. MaxObjects, NEW p \in Policies
  PROVE  /\ Added(id, p) \in Stream /\ Added(id, p).id = id /\ Added(id, p).shared = id
         /\ objectsOf(Added(id, p)) = Own(id, StreamParts)
  <1>1. p.ssrc \in SSRCs
    BY SessionsAssumption DEF Policies
  <1>2. ByteOrder[p.ssrc] \in SSRCs
    BY <1>1, SessionsAssumption DEF Bijection, Injection, IsInjective, Surjection
  <1>3. /\ Added(id, p) \in Stream /\ Added(id, p).id = id /\ Added(id, p).shared = id
    BY <1>2, SessionsAssumption DEF Added, Stream
  <1>4. {"str", "rdbx"} \cup SharedParts = StreamParts
    BY PartsAre DEF StreamParts
  <1>5. Own(id, {"str", "rdbx"}) \cup Own(id, SharedParts) = Own(id, StreamParts)
    BY <1>4 DEF Own
  <1>6. QED
    BY <1>3, <1>5 DEF objectsOf

\* How srtp_add_stream ends: with the memory as it was, with something that is
\* lost, or with the stream in the context.
AddEnds(m, c, id, p, r) ==
  \/ r = refused(m, c)
  \/ \E k \in Memory, what \in {"init failed", "second template", "undefined SSRC"} :
        /\ r = refused(leak(k, what), c)
        /\ k.blame = m.blame
        /\ Own(id, StreamParts) \cap m.heap = {} =>
              /\ k.misused = m.misused /\ m.heap \subseteq k.heap
              /\ k.heap \subseteq m.heap \cup Own(id, StreamParts)
  \/ \E k \in Memory :
        /\ k.heap = m.heap \cup Own(id, StreamParts)
        /\ k.misused = m.misused /\ k.blame = m.blame
        /\ \/ /\ p.type = "specific"
              /\ r = [status |-> "ok", m |-> k,
                      c |-> [c EXCEPT !.stream_list = <<Added(id, p)>> \o @]]
           \/ /\ c.stream_template = None
              /\ r = [status |-> "ok", m |-> k,
                      c |-> [c EXCEPT !.stream_template = Added(id, p)]]

LEMMA AddStreamEnds ==
  ASSUME NEW m \in Memory, NEW c \in Context, NEW id \in 1 .. MaxObjects,
         NEW p \in Policies, NEW n
  PROVE  AddEnds(m, c, id, p, srtp_add_stream(m, c, id, p, n))
  <1> DEFINE six == Own(id, StreamParts \ {"rdbx"})
             k == alloc(m, six)
             l == alloc(k, Own(id, {"rdbx"}))
             r == srtp_add_stream(m, c, id, p, n)
  <1>1. srtp_stream_alloc(m, id, n) = IF n >= 6 /\ CanAlloc
                                      THEN [status |-> "ok", m |-> k]
                                      ELSE [status |-> "fail", m |-> m]
    BY PartsAre DEF srtp_stream_alloc
  <1>2. /\ six \in SUBSET Object /\ Own(id, {"rdbx"}) \in SUBSET Object
    BY OwnObjects DEF StreamParts
  <1>3. /\ k \in Memory /\ k.heap = m.heap \cup six
        /\ k.misused = m.misused /\ k.blame = m.blame
    BY <1>2, AllocIs
  <1>4. /\ six \cup Own(id, {"rdbx"}) = Own(id, StreamParts)
        /\ Own(id, {"str"}) \subseteq six
    BY DEF Own, StreamParts
  <1>5. /\ l \in Memory /\ l.heap = m.heap \cup Own(id, StreamParts)
        /\ l.misused = m.misused /\ l.blame = m.blame
    <2> HIDE DEF k
    <2>1. l \in Memory /\ l.heap = k.heap \cup Own(id, {"rdbx"})
          /\ l.misused = k.misused /\ l.blame = k.blame
      BY <1>2, <1>3, AllocIs
    <2> HIDE DEF l, six
    <2>2. QED
      BY <1>3, <1>4, <2>1
  <1>6. srtp_stream_init(k, id, n) = IF n >= Stages THEN [status |-> "ok", m |-> l]
                                     ELSE [status |-> "fail", m |-> k]
    BY DEF srtp_stream_init
  <1>7. p.type \in {"specific", "any", "undefined"}
    BY DEF Policies
  <1>8. ASSUME NEW i
        PROVE  /\ i.status # "ok" => initialised(i, c, id, p) =
                    refused(leak(free(i.m, Own(id, {"str"})), "init failed"), c)
               /\ (i.status = "ok" /\ p.type = "specific") => initialised(i, c, id, p) =
                    [status |-> "ok", m |-> i.m,
                     c |-> [c EXCEPT !.stream_list = <<Added(id, p)>> \o @]]
               /\ (i.status = "ok" /\ p.type = "any" /\ c.stream_template = None) =>
                    initialised(i, c, id, p) =
                    [status |-> "ok", m |-> i.m,
                     c |-> [c EXCEPT !.stream_template = Added(id, p)]]
               /\ (i.status = "ok" /\ p.type = "any" /\ c.stream_template # None) =>
                    initialised(i, c, id, p) = refused(leak(i.m, "second template"), c)
               /\ (i.status = "ok" /\ p.type = "undefined") => initialised(i, c, id, p) =
                    refused(leak(free(i.m, Own(id, {"str"})), "undefined SSRC"), c)
    BY DEF initialised, Added
  <1> DEFINE u == Own(id, {"str"})
             Lost(q) == /\ q \in Memory /\ q.blame = m.blame
                        /\ Own(id, StreamParts) \cap m.heap = {} =>
                              /\ q.misused = m.misused /\ m.heap \subseteq q.heap
                              /\ q.heap \subseteq m.heap \cup Own(id, StreamParts)
  <1> HIDE DEF k, l
  <1>9. Lost(free(k, u)) /\ Lost(free(l, u)) /\ Lost(l)
    <2>1. /\ free(k, u) \in Memory /\ free(k, u).heap = k.heap \ u
          /\ free(k, u).blame = k.blame
          /\ u \subseteq k.heap => free(k, u).misused = k.misused
      BY <1>3, FreeIs
    <2>2. /\ free(l, u) \in Memory /\ free(l, u).heap = l.heap \ u
          /\ free(l, u).blame = l.blame
          /\ u \subseteq l.heap => free(l, u).misused = l.misused
      BY <1>5, FreeIs
    <2> HIDE DEF six, u
    <2>3. u \subseteq k.heap /\ u \subseteq l.heap /\ u \subseteq Own(id, StreamParts)
      BY <1>3, <1>4, <1>5 DEF u
    <2>4. Lost(free(k, u))
      BY <1>3, <1>4, <2>1, <2>3
    <2>5. Lost(free(l, u))
      BY <1>5, <2>2, <2>3
    <2>6. QED
      BY <1>5, <2>4, <2>5
  <1>10. ASSUME NEW q, NEW what \in {"init failed", "second template", "undefined SSRC"},
                Lost(q), r = refused(leak(q, what), c)
         PROVE  AddEnds(m, c, id, p, r)
    <2> HIDE DEF r
    <2>1. QED
      BY <1>10 DEF AddEnds
  <1> HIDE DEF Lost
  <1>11. CASE ~(n >= 6 /\ CanAlloc)
    <2>1. r = refused(m, c)
      BY <1>1, <1>11 DEF srtp_add_stream, allocated
    <2>2. QED
      BY <2>1 DEF AddEnds
  <1>12. CASE (n >= 6 /\ CanAlloc) /\ ~(n >= Stages)
    <2> DEFINE i == [status |-> "fail", m |-> k]
    <2>1. r = initialised(i, c, id, p)
      BY <1>1, <1>6, <1>12 DEF srtp_add_stream, allocated
    <2>2. i.status = "fail" /\ i.m = k
      OBVIOUS
    <2> HIDE DEF i, r
    <2>3. r = refused(leak(free(k, u), "init failed"), c)
      BY <1>8, <2>1, <2>2
    <2>4. QED
      BY <1>9, <1>10, <2>3 DEF r
  <1>13. CASE (n >= 6 /\ CanAlloc) /\ n >= Stages
    <2> DEFINE i == [status |-> "ok", m |-> l]
    <2>1. r = initialised(i, c, id, p)
      BY <1>1, <1>6, <1>13 DEF srtp_add_stream, allocated
    <2>2. i.status = "ok" /\ i.m = l
      OBVIOUS
    <2> HIDE DEF i, r
    <2>3. CASE p.type = "specific"
      <3>1. r = [status |-> "ok", m |-> l,
                 c |-> [c EXCEPT !.stream_list = <<Added(id, p)>> \o @]]
        BY <1>8, <2>1, <2>2, <2>3
      <3>2. AddEnds(m, c, id, p, r)
        BY <1>5, <2>3, <3>1 DEF AddEnds
      <3>3. QED
        BY <3>2 DEF r
    <2>4. CASE p.type = "any" /\ c.stream_template = None
      <3>1. r = [status |-> "ok", m |-> l,
                 c |-> [c EXCEPT !.stream_template = Added(id, p)]]
        BY <1>8, <2>1, <2>2, <2>4
      <3>2. AddEnds(m, c, id, p, r)
        BY <1>5, <2>4, <3>1 DEF AddEnds
      <3>3. QED
        BY <3>2 DEF r
    <2>5. CASE p.type = "any" /\ c.stream_template # None
      <3>1. r = refused(leak(l, "second template"), c)
        BY <1>8, <2>1, <2>2, <2>5
      <3>2. QED
        BY <1>9, <1>10, <3>1 DEF r
    <2>6. CASE p.type = "undefined"
      <3>1. r = refused(leak(free(l, u), "undefined SSRC"), c)
        BY <1>8, <2>1, <2>2, <2>6
      <3>2. QED
        BY <1>9, <1>10, <3>1 DEF r
    <2>7. QED
      BY <1>7, <2>3, <2>4, <2>5, <2>6
  <1>14. QED
    BY <1>11, <1>12, <1>13

LEMMA AddStreamType ==
  ASSUME NEW m \in Memory, NEW c \in Context, NEW id \in 1 .. MaxObjects,
         NEW p \in Policies, NEW n
  PROVE  LET r == srtp_add_stream(m, c, id, p, n)
         IN  /\ r.m \in Memory /\ r.c \in Context /\ m.blame \subseteq r.m.blame
             /\ "stale" \in r.m.blame => "stale" \in m.blame
             /\ r = [status |-> r.status, m |-> r.m, c |-> r.c]
             /\ r.status \in {"ok", "fail"} /\ (r.status = "fail" => r.c = c)
  <1> DEFINE r == srtp_add_stream(m, c, id, p, n)
             x == Added(id, p)
  <1>1. AddEnds(m, c, id, p, r)
    BY AddStreamEnds
  <1>2. x \in Stream
    BY AddedIs
  <1> HIDE DEF r, x
  <1>3. CASE r = refused(m, c)
    <2>1. r.m = m /\ r.c = c /\ r.status = "fail"
      BY <1>3 DEF refused
    <2>2. r = [status |-> r.status, m |-> r.m, c |-> r.c]
      BY <1>3, <2>1 DEF refused
    <2>3. QED
      BY <2>1, <2>2 DEF r
  <1>4. ASSUME NEW k \in Memory, k.blame = m.blame,
               NEW what \in {"init failed", "second template", "undefined SSRC"},
               r = refused(leak(k, what), c)
        PROVE  /\ r.m \in Memory /\ r.c \in Context /\ m.blame \subseteq r.m.blame
               /\ "stale" \in r.m.blame => "stale" \in m.blame
               /\ r = [status |-> r.status, m |-> r.m, c |-> r.c]
               /\ r.status \in {"ok", "fail"} /\ (r.status = "fail" => r.c = c)
    <2>1. what \in Blames /\ what # "stale"
      BY DEF Blames
    <2>2. /\ leak(k, what) \in Memory
          /\ leak(k, what).blame = m.blame \cup {what}
      BY <1>4, <2>1, LeakIs
    <2>3. r.m = leak(k, what) /\ r.c = c /\ r.status = "fail"
          /\ r = [status |-> r.status, m |-> r.m, c |-> r.c]
      BY <1>4 DEF refused
    <2>4. QED
      BY <2>1, <2>2, <2>3
  <1>5. /\ [c EXCEPT !.stream_list = <<x>> \o @] \in Context
        /\ [c EXCEPT !.stream_template = x] \in Context
    <2>1. <<x>> \o c.stream_list \in Seq(Stream)
      BY <1>2, ConcatProperties DEF Context
    <2>2. QED
      BY <1>2, <2>1 DEF Context
  <1>6. ASSUME NEW k \in Memory, k.blame = m.blame, NEW d \in Context,
               r = [status |-> "ok", m |-> k, c |-> d]
        PROVE  /\ r.m \in Memory /\ r.c \in Context /\ m.blame \subseteq r.m.blame
               /\ "stale" \in r.m.blame => "stale" \in m.blame
               /\ r = [status |-> r.status, m |-> r.m, c |-> r.c]
               /\ r.status \in {"ok", "fail"} /\ (r.status = "fail" => r.c = c)
    BY <1>6
  <1>7. QED
    BY <1>1, <1>3, <1>4, <1>5, <1>6, Zenon DEF AddEnds, x, r

LEMMA AddStreamSound ==
  ASSUME NEW m \in Memory, NEW c \in Context, SoundContext(c),
         NEW id \in 1 .. MaxObjects, id \notin Ids(c),
         Own(id, StreamParts) \cap m.heap = {}, NEW p \in Policies, NEW n
  PROVE  LET r == srtp_add_stream(m, c, id, p, n)
         IN  Extends(m, c, id, r.m, r.c)
  <1> DEFINE r == srtp_add_stream(m, c, id, p, n)
             x == Added(id, p)
  <1>1. AddEnds(m, c, id, p, r)
    BY AddStreamEnds
  <1>2. /\ x \in Stream /\ x.id = id /\ x.shared = id
        /\ objectsOf(x) = Own(id, StreamParts) /\ id # 0
    BY AddedIs
  <1> HIDE DEF r, x
  <1>3. CASE r = refused(m, c)
    <2>1. r.m = m /\ r.c = c
      BY <1>3 DEF refused
    <2>2. Extends(m, c, id, m, c)
      BY ExtendsLost
    <2>3. QED
      BY <2>1, <2>2 DEF r
  <1>4. ASSUME NEW k \in Memory, k.blame = m.blame,
               NEW what \in {"init failed", "second template", "undefined SSRC"},
               r = refused(leak(k, what), c), k.misused = m.misused,
               m.heap \subseteq k.heap, k.heap \subseteq m.heap \cup Own(id, StreamParts)
        PROVE  Extends(m, c, id, r.m, r.c)
    <2>1. what \in Blames /\ what # "stale"
      BY DEF Blames
    <2> DEFINE l == leak(k, what)
    <2>2. /\ l \in Memory /\ l.blame = m.blame \cup {what}
          /\ l.misused = m.misused /\ l.heap = k.heap
      BY <1>4, <2>1, LeakIs
    <2>3. r.m = l /\ r.c = c
      BY <1>4 DEF refused
    <2> HIDE DEF l
    <2>4. Extends(m, c, id, l, c)
      BY <1>4, <2>1, <2>2, ExtendsLost
    <2>5. QED
      BY <2>3, <2>4
  <1>5. ASSUME NEW k \in Memory, k.heap = m.heap \cup Own(id, StreamParts),
               k.misused = m.misused, k.blame = m.blame,
               NEW d \in Context, SoundContext(d), StreamsOf(d) = StreamsOf(c) \cup {x},
               r = [status |-> "ok", m |-> k, c |-> d]
        PROVE  Extends(m, c, id, r.m, r.c)
    <2>1. Extends(m, c, x.id, k, d)
      BY <1>2, <1>5, ExtendsMore
    <2>2. r.m = k /\ r.c = d
      BY <1>5
    <2>3. QED
      BY <1>2, <2>1, <2>2
  <1>6. LET d == [c EXCEPT !.stream_list = <<x>> \o @]
        IN  d \in Context /\ SoundContext(d) /\ StreamsOf(d) = StreamsOf(c) \cup {x}
    BY <1>2, PrependStream
  <1>7. ASSUME c.stream_template = None
        PROVE  LET d == [c EXCEPT !.stream_template = x]
               IN  d \in Context /\ SoundContext(d) /\ StreamsOf(d) = StreamsOf(c) \cup {x}
    BY <1>2, <1>7, SetTemplate
  <1>8. QED
    BY <1>1, <1>3, <1>4, <1>5, <1>6, <1>7, Zenon DEF AddEnds, x, r

-----------------------------------------------------------------------------
(* A stream is cloned.                                                     *)

LEMMA CloneType ==
  ASSUME NEW m \in Memory, NEW c \in Context, NEW id \in 1 .. MaxObjects,
         NEW ssrc \in SSRCs, NEW n \in 0 .. 2
  PROVE  LET r == srtp_stream_clone(m, c, id, ssrc, n)
         IN  /\ r.m \in Memory /\ r.c \in Context /\ m.blame \subseteq r.m.blame
             /\ "stale" \in r.m.blame => "stale" \in m.blame
             /\ (Own(id, StreamParts) \cap m.heap = {} /\ id \notin Ids(c)
                 /\ SoundContext(c) /\ c.stream_template # None)
                  => Extends(m, c, id, r.m, r.c)
  <1> DEFINE r == srtp_stream_clone(m, c, id, ssrc, n)
             x == [id |-> id, ssrc |-> ssrc, shared |-> c.stream_template.shared]
             one == alloc(m, Own(id, {"str"}))
             two == alloc(m, Own(id, {"str", "rdbx"}))
             d == [c EXCEPT !.stream_list = <<x>> \o @]
             Goal == /\ r.m \in Memory /\ r.c \in Context /\ m.blame \subseteq r.m.blame
                     /\ "stale" \in r.m.blame => "stale" \in m.blame
                     /\ (Own(id, StreamParts) \cap m.heap = {} /\ id \notin Ids(c)
                         /\ SoundContext(c) /\ c.stream_template # None)
                          => Extends(m, c, id, r.m, r.c)
  <1>1. /\ n = 0 => r = [m |-> m, c |-> c]
        /\ n = 1 => r = [m |-> leak(one, "clone failed"), c |-> c]
        /\ n = 2 => r = [m |-> two, c |-> d]
    <2>1. n = 0 => r = [m |-> m, c |-> c]
      BY DEF srtp_stream_clone
    <2>2. n = 1 => r = [m |-> leak(one, "clone failed"), c |-> c]
      BY DEF srtp_stream_clone
    <2>3. n = 2 => r = [m |-> two, c |-> d]
      BY DEF srtp_stream_clone
    <2>4. QED
      BY <2>1, <2>2, <2>3
  <1>2. /\ x \in Stream /\ x.id = id /\ x.ssrc = ssrc
        /\ x.shared = c.stream_template.shared
    BY DEF Stream, Context
  <1>3. /\ Own(id, {"str"}) \in SUBSET Object
        /\ Own(id, {"str", "rdbx"}) \in SUBSET Object
        /\ Own(id, {"str"}) \subseteq Own(id, StreamParts)
        /\ Own(id, {"str", "rdbx"}) \subseteq Own(id, StreamParts)
    BY DEF Own, Object, StreamParts
  <1>4. /\ one \in Memory /\ one.heap = m.heap \cup Own(id, {"str"})
        /\ one.misused = m.misused /\ one.blame = m.blame
    BY <1>3, AllocIs
  <1>5. /\ two \in Memory /\ two.heap = m.heap \cup Own(id, {"str", "rdbx"})
        /\ two.misused = m.misused /\ two.blame = m.blame
    BY <1>3, AllocIs
  <1> HIDE DEF r, x, one, two
  <1>6. d \in Context
    <2>1. <<x>> \o c.stream_list \in Seq(Stream)
      BY <1>2, ConcatProperties DEF Context
    <2>2. QED
      BY <2>1 DEF Context
  <1>7. CASE n = 0
    <2> HIDE DEF d
    <2>1. r.m = m /\ r.c = c
      BY <1>1, <1>7
    <2>2. SoundContext(c) => Extends(m, c, id, m, c)
      BY ExtendsLost
    <2>3. Goal
      BY <2>1, <2>2
    <2>4. QED
      BY <2>3 DEF r
  <1>8. CASE n = 1
    <2> DEFINE l == leak(one, "clone failed")
    <2> HIDE DEF d, l
    <2>1. r.m = l /\ r.c = c
      <3>1. r = [m |-> l, c |-> c]
        BY <1>1, <1>8, Zenon DEF l
      <3>2. QED
        BY <3>1
    <2>2. /\ l \in Memory /\ l.heap = m.heap \cup Own(id, {"str"})
          /\ l.misused = m.misused /\ l.blame = m.blame \cup {"clone failed"}
      <3>1. "clone failed" \in Blames
        BY DEF Blames
      <3>2. QED
        BY <1>4, <3>1, LeakIs DEF l
    <2>3. ASSUME SoundContext(c) PROVE Extends(m, c, id, l, c)
      <3>1. /\ l.misused = m.misused /\ m.blame \subseteq l.blame /\ l.blame # {}
            /\ "stale" \in l.blame => "stale" \in m.blame
            /\ m.heap \subseteq l.heap /\ l.heap \subseteq m.heap \cup Own(id, StreamParts)
        BY <1>3, <2>2
      <3>2. QED
        BY <2>2, <2>3, <3>1, ExtendsLost
    <2>4. "stale" \in l.blame => "stale" \in m.blame
      BY <2>2
    <2>5. Goal
      BY <2>1, <2>2, <2>3, <2>4
    <2>6. QED
      BY <2>5 DEF r
  <1>9. CASE n = 2
    <2>1. r.m = two /\ r.c = d
      <3> HIDE DEF d
      <3>1. QED
        BY <1>1, <1>9
    <2>2. ASSUME Own(id, StreamParts) \cap m.heap = {}, id \notin Ids(c),
                 SoundContext(c), c.stream_template # None
          PROVE  Extends(m, c, id, two, d)
      <3>1. /\ c.stream_template.id # 0 /\ c.stream_template \in StreamsOf(c)
            /\ c.stream_template.shared = c.stream_template.id
        BY <2>2 DEF SoundContext, StreamsOf
      <3>2. SoundContext(d) /\ StreamsOf(d) = StreamsOf(c) \cup {x}
        <4>1. x.id # 0 /\ x.shared # 0 /\ x.shared \in {x.id, c.stream_template.id}
          BY <1>2, <3>1
        <4>2. LET e == [c EXCEPT !.stream_list = <<x>> \o @]
              IN  e \in Context /\ SoundContext(e) /\ StreamsOf(e) = StreamsOf(c) \cup {x}
          BY <1>2, <2>2, <4>1, PrependStream
        <4>3. QED
          BY <4>2
      <3>3. /\ Own(id, {"str", "rdbx"}) \subseteq objectsOf(x)
            /\ objectsOf(x) \subseteq Own(id, {"str", "rdbx"})
                                      \cup objectsOf(c.stream_template)
        BY <1>2 DEF objectsOf
      <3>4. \A s : objectsOf(x) \subseteq Own(id, {"str", "rdbx"}) \cup Objects(s, c)
        BY <3>1, <3>3 DEF Objects
      <3> HIDE DEF d
      <3>5. Extends(m, c, x.id, two, d)
        BY <1>2, <1>3, <1>5, <1>6, <2>2, <3>2, <3>3, <3>4, ExtendsMore
      <3>6. QED
        BY <1>2, <3>5
    <2> HIDE DEF d
    <2>3. Goal
      BY <1>5, <1>6, <2>1, <2>2
    <2>4. QED
      BY <2>3 DEF r
  <1>10. QED
    BY <1>7, <1>8, <1>9

-----------------------------------------------------------------------------
(* A stream is removed.                                                    *)

LEMMA RemoveAtElements ==
  ASSUME NEW S, NEW s \in Seq(S), NEW n \in 1 .. Len(s)
  PROVE  /\ Len(RemoveAt(s, n)) = Len(s) - 1
         /\ \A k \in 1 .. Len(s) - 1 :
              RemoveAt(s, n)[k] = IF k < n THEN s[k] ELSE s[k + 1]
<1> DEFINE front == SubSeq(s, 1, n - 1)
           back == SubSeq(s, n + 1, Len(s))
<1>1. Len(s) \in Nat /\ n \in Nat /\ n >= 1 /\ n <= Len(s)
  BY LenProperties
<1>2. /\ front \in Seq(S) /\ Len(front) = n - 1
      /\ \A k \in 1 .. n - 1 : front[k] = s[k]
  <2>1. \A k \in 1 .. n - 1 : s[k] \in S
    BY <1>1, ElementOfSeq
  <2>2. QED
    BY <1>1, <2>1, SubSeqProperties
<1>3. /\ back \in Seq(S) /\ Len(back) = Len(s) - n
      /\ \A k \in 1 .. Len(s) - n : back[k] = s[n + k]
  <2>1. \A k \in n + 1 .. Len(s) : s[k] \in S
    BY <1>1, ElementOfSeq
  <2>2. QED
    BY <1>1, <2>1, SubSeqProperties
<1> HIDE DEF front, back
<1>4. /\ Len(front \o back) = Len(s) - 1
      /\ \A k \in 1 .. Len(s) - 1 :
           (front \o back)[k] = IF k <= n - 1 THEN front[k] ELSE back[k - (n - 1)]
  <2>1. Len(front) + Len(back) = Len(s) - 1
    BY <1>1, <1>2, <1>3
  <2>2. /\ Len(front \o back) = Len(front) + Len(back)
        /\ \A k \in 1 .. Len(front) + Len(back) :
             (front \o back)[k] =
               IF k <= Len(front) THEN front[k] ELSE back[k - Len(front)]
    <3>1. front \in Seq(S) /\ back \in Seq(S)
      BY <1>2, <1>3
    <3>2. QED
      BY <3>1, ConcatProperties
  <2>3. Len(front) = n - 1
    BY <1>2
  <2>4. QED
    BY <2>1, <2>2, <2>3
<1>5. ASSUME NEW k \in 1 .. Len(s) - 1
      PROVE  (front \o back)[k] = IF k < n THEN s[k] ELSE s[k + 1]
  <2>1. CASE k < n
    <3>1. k <= n - 1 /\ k \in 1 .. n - 1
      BY <1>1, <2>1
    <3>2. (front \o back)[k] = front[k]
      BY <1>4, <3>1
    <3>3. QED
      BY <1>2, <2>1, <3>1, <3>2
  <2>2. CASE ~(k < n)
    <3> DEFINE j == k - (n - 1)
    <3>1. /\ ~(k <= n - 1)
          /\ j \in 1 .. Len(s) - n
          /\ n + j = k + 1
      BY <1>1, <2>2
    <3>2. (front \o back)[k] = back[j]
      BY <1>4, <3>1
    <3> HIDE DEF j
    <3>3. back[j] = s[n + j]
      BY <1>3, <3>1
    <3>4. QED
      BY <2>2, <3>1, <3>2, <3>3
  <2>3. QED
    BY <2>1, <2>2
<1>6. QED
  BY <1>4, <1>5 DEF RemoveAt, front, back


\* The context without the stream at the place i of its list.
Without(c, i) == [c EXCEPT !.stream_list = RemoveAt(@, i)]

LEMMA WithoutIs ==
  ASSUME NEW c \in Context, NEW i \in 1 .. Len(c.stream_list)
  PROVE  LET d == Without(c, i)
             n == Len(c.stream_list)
         IN  /\ d \in Context /\ d.stream_template = c.stream_template
             /\ DOMAIN c.stream_list = 1 .. n /\ n \in Nat
             /\ DOMAIN d.stream_list = 1 .. n - 1
             /\ \A k \in 1 .. n - 1 :
                  d.stream_list[k] = IF k < i THEN c.stream_list[k]
                                              ELSE c.stream_list[k + 1]
  <1> DEFINE list == c.stream_list
             short == RemoveAt(list, i)
             n == Len(list)
             d == Without(c, i)
  <1>1. list \in Seq(Stream) /\ n \in Nat /\ DOMAIN list = 1 .. n
    BY DEF Context
  <1>2. /\ Len(short) = n - 1
        /\ \A k \in 1 .. n - 1 : short[k] = IF k < i THEN list[k] ELSE list[k + 1]
    BY <1>1, RemoveAtElements
  <1>3. short \in Seq(Stream)
    <2>1. SubSeq(list, 1, i - 1) \in Seq(Stream)
      BY <1>1
    <2>2. SubSeq(list, i + 1, n) \in Seq(Stream)
      BY <1>1
    <2>3. QED
      BY <2>1, <2>2, ConcatProperties DEF RemoveAt
  <1>4. DOMAIN short = 1 .. n - 1
    BY <1>2, <1>3
  <1> HIDE DEF short
  <1>5. d \in Context /\ d.stream_template = c.stream_template /\ d.stream_list = short
    <2>1. d = [c EXCEPT !.stream_list = short]
      BY DEF Without, short
    <2> HIDE DEF d
    <2>2. QED
      BY <1>3, <2>1 DEF Context
  <1> HIDE DEF d
  <1>6. QED
    BY <1>1, <1>2, <1>4, <1>5 DEF d

\* The objects that go with it are those of the session that go.
LEMMA WithoutSound ==
  ASSUME NEW c \in Context, SoundContext(c), NEW i \in 1 .. Len(c.stream_list)
  PROVE  LET d == Without(c, i)
             F == Frees(c, c.stream_list[i])
         IN  /\ SoundContext(d) /\ Ids(d) \subseteq Ids(c)
             /\ \A o \in F : \E id \in Ids(c), p \in StreamParts : o = <<id, p>>
             /\ \A s : F \subseteq Objects(s, c) /\ Objects(s, d) = Objects(s, c) \ F
  <1> DEFINE d == Without(c, i)
             list == c.stream_list
             short == d.stream_list
             t == c.stream_template
             n == Len(list)
             x == list[i]
             F == Frees(c, x)
  <1>1. /\ d \in Context /\ d.stream_template = t
        /\ DOMAIN list = 1 .. n /\ n \in Nat
        /\ DOMAIN short = 1 .. n - 1
        /\ \A k \in 1 .. n - 1 : short[k] = IF k < i THEN list[k] ELSE list[k + 1]
    BY WithoutIs
  <1>2. /\ x \in StreamsOf(c) /\ F \subseteq objectsOf(x)
        /\ \A o \in F : \E p \in StreamParts : o = <<x.id, p>>
        /\ \A o \in objectsOf(x) : \/ o \in F
                                   \/ t # None /\ o \in objectsOf(t)
    BY FreesAre
  <1>3. /\ \A k \in 1 .. n : /\ list[k].id # 0 /\ list[k].shared # 0
                             /\ list[k].shared \in {list[k].id, t.id}
                             /\ list[k].id # t.id
        /\ \A k, l \in 1 .. n : list[k].id = list[l].id => k = l
        /\ t # None => t.id # 0
        /\ t.shared = t.id
    BY <1>1 DEF SoundContext
  <1> HIDE DEF F, d
  <1>4. ASSUME NEW k \in 1 .. n - 1
        PROVE  \E l \in 1 .. n : /\ l # i /\ short[k] = list[l]
                                 /\ l = IF k < i THEN k ELSE k + 1
    <2>1. CASE k < i
      BY <1>1, <2>1
    <2>2. CASE ~(k < i)
      BY <1>1, <2>2
    <2>3. QED
      BY <2>1, <2>2
  <1>5. ASSUME NEW l \in 1 .. n, l # i
        PROVE  \E k \in 1 .. n - 1 : short[k] = list[l]
    <2>1. CASE l < i
      <3>1. l \in 1 .. n - 1 /\ short[l] = list[l]
        BY <1>1, <2>1
      <3>2. QED
        BY <3>1
    <2>2. CASE l > i
      <3>1. l - 1 \in 1 .. n - 1 /\ short[l - 1] = list[l]
        BY <1>1, <2>2
      <3>2. QED
        BY <3>1
    <2>3. QED
      BY <1>1, <1>5, <2>1, <2>2
  <1> HIDE DEF short, list, n
  <1>6. SoundContext(d)
    <2>1. ASSUME NEW k \in DOMAIN short
          PROVE  /\ short[k].id # 0 /\ short[k].shared # 0
                 /\ short[k].shared \in {short[k].id, t.id}
                 /\ short[k].id # t.id
      BY <1>1, <1>3, <1>4
    <2>2. ASSUME NEW k \in DOMAIN short, NEW l \in DOMAIN short, short[k].id = short[l].id
          PROVE  k = l
      <3>1. PICK u \in 1 .. n : short[k] = list[u] /\ u = IF k < i THEN k ELSE k + 1
        BY <1>1, <1>4
      <3>2. PICK v \in 1 .. n : short[l] = list[v] /\ v = IF l < i THEN l ELSE l + 1
        BY <1>1, <1>4
      <3>3. u = v
        BY <1>3, <2>2, <3>1, <3>2
      <3>4. QED
        BY <1>1, <3>1, <3>2, <3>3
    <2>3. QED
      BY <1>1, <1>3, <2>1, <2>2 DEF SoundContext, short
  <1>7. StreamsOf(d) \subseteq StreamsOf(c)
    <2>1. Range(short) \subseteq Range(list)
      BY <1>1, <1>4 DEF Range
    <2>2. QED
      BY <1>1, <2>1 DEF StreamsOf, short, list
  <1>8. ASSUME NEW y \in StreamsOf(c) PROVE y \in StreamsOf(d) \/ y = x
    <2>1. CASE y \in Range(list)
      <3>1. PICK l \in 1 .. n : y = list[l]
        BY <1>1, <2>1 DEF Range
      <3>2. l # i => y \in Range(short)
        BY <1>1, <1>5, <3>1 DEF Range
      <3>3. QED
        BY <3>1, <3>2 DEF StreamsOf, short
    <2>2. CASE y \in {t} \ {None}
      BY <1>1, <2>2 DEF StreamsOf
    <2>3. QED
      BY <2>1, <2>2 DEF StreamsOf, list
  <1>9. ASSUME NEW y \in StreamsOf(d)
        PROVE  y.id # x.id /\ y.shared # x.id
    <2>1. CASE y \in Range(short)
      <3>1. PICK k \in 1 .. n - 1 : y = short[k]
        BY <1>1, <2>1 DEF Range
      <3>2. PICK l \in 1 .. n : l # i /\ y = list[l]
        BY <1>4, <3>1
      <3>3. list[l].id # list[i].id
        BY <1>1, <1>3, <3>2 DEF n, list
      <3>4. t.id # list[i].id
        BY <1>3 DEF n, list
      <3>5. QED
        BY <1>3, <3>2, <3>3, <3>4
    <2>2. CASE y \in {t} \ {None}
      <3>1. t.id # list[i].id
        BY <1>3 DEF n, list
      <3>2. QED
        BY <1>3, <2>2, <3>1
    <2>3. QED
      BY <1>1, <2>1, <2>2 DEF StreamsOf, short
  <1>10. ASSUME NEW y \in StreamsOf(d), NEW o \in objectsOf(y) PROVE o \notin F
    <2>1. \E q : o = <<y.id, q>> \/ o = <<y.shared, q>>
      BY <1>10, OwnIs DEF objectsOf
    <2>2. \A q : o # <<x.id, q>>
      BY <1>9, <2>1
    <2>3. QED
      BY <1>2, <2>2
  <1>11. ASSUME NEW s PROVE F \subseteq Objects(s, c) /\ Objects(s, d) = Objects(s, c) \ F
    <2>1. F \subseteq Objects(s, c)
      BY <1>2 DEF Objects
    <2>2. ASSUME NEW o \in Objects(s, d) PROVE o \in Objects(s, c) /\ o \notin F
      <3>1. o \in Objects(s, c)
        BY <1>7 DEF Objects
      <3>2. CASE o \in Own(s, {"ctx"})
        <4>1. o = <<s, "ctx">> /\ "ctx" \notin StreamParts
          BY <3>2, OwnIs DEF StreamParts
        <4>2. QED
          BY <1>2, <3>1, <4>1
      <3>3. CASE o \in UNION {objectsOf(y) : y \in StreamsOf(d)}
        BY <1>10, <3>1, <3>3
      <3>4. QED
        BY <3>2, <3>3 DEF Objects
    <2>3. ASSUME NEW o \in Objects(s, c), o \notin F PROVE o \in Objects(s, d)
      <3>1. CASE o \in Own(s, {"ctx"})
        BY <3>1 DEF Objects
      <3>2. ASSUME NEW y \in StreamsOf(c), o \in objectsOf(y) PROVE o \in Objects(s, d)
        <4>1. CASE y \in StreamsOf(d)
          BY <3>2, <4>1 DEF Objects
        <4>2. CASE y = x
          <5>1. t # None /\ o \in objectsOf(t)
            BY <1>2, <2>3, <3>2, <4>2
          <5>2. t \in StreamsOf(d)
            BY <1>1, <5>1 DEF StreamsOf
          <5>3. QED
            BY <5>1, <5>2 DEF Objects
        <4>3. QED
          BY <1>8, <4>1, <4>2
      <3>3. QED
        BY <3>1, <3>2 DEF Objects
    <2>4. QED
      BY <2>1, <2>2, <2>3
  <1>12. Ids(d) \subseteq Ids(c)
    BY <1>7 DEF Ids
  <1>13. \A o \in F : \E id \in Ids(c), p \in StreamParts : o = <<id, p>>
    BY <1>2 DEF Ids
  <1> HIDE DEF x
  <1>14. QED
    BY <1>6, <1>11, <1>12, <1>13 DEF d, F, x, list

LEMMA RemoveStreamIs ==
  ASSUME NEW m \in Memory, NEW c \in Context, NEW ssrc
  PROVE  LET r == srtp_remove_stream(m, c, ssrc)
         IN  \/ r.m = m /\ r.c = c
             \/ \E i \in 1 .. Len(c.stream_list) :
                  /\ r.m = free(m, Frees(c, c.stream_list[i]))
                  /\ r.c = Without(c, i)
  <1> DEFINE I == {i \in 1 .. Len(c.stream_list) : c.stream_list[i].ssrc = ssrc}
             r == srtp_remove_stream(m, c, ssrc)
  <1>1. Len(c.stream_list) \in Nat
    BY DEF Context
  <1>2. CASE I = {}
    <2>1. r = [m |-> m, c |-> c]
      BY <1>2 DEF srtp_remove_stream, SelectInSeq
    <2>2. QED
      BY <2>1
  <1>3. CASE I # {}
    <2>1. PICK x \in I : \A y \in I : x <= y
      <3>1. I \in SUBSET Nat
        BY <1>1
      <3> HIDE DEF I
      <3>2. QED
        BY <1>3, <3>1, LeastNatural
    <2>2. Min(I) \in I
      BY <2>1 DEF Min
    <2> DEFINE i == Min(I)
    <2>3. i \in 1 .. Len(c.stream_list) /\ i # 0
      BY <1>1, <2>2
    <2>4. i = SelectInSeq(c.stream_list, LAMBDA s : s.ssrc = ssrc)
      BY <1>3 DEF SelectInSeq
    <2>5. r = [m |-> srtp_stream_dealloc(m, c, c.stream_list[i]), c |-> Without(c, i)]
      <3> HIDE DEF i, I
      <3>1. QED
        BY <2>3, <2>4 DEF srtp_remove_stream, Without
    <2>6. srtp_stream_dealloc(m, c, c.stream_list[i]) = free(m, Frees(c, c.stream_list[i]))
      BY DEF srtp_stream_dealloc, Frees
    <2> HIDE DEF i, I
    <2>7. r.m = free(m, Frees(c, c.stream_list[i])) /\ r.c = Without(c, i)
      BY <2>5, <2>6
    <2>8. QED
      BY <2>3, <2>7
  <1>4. QED
    BY <1>2, <1>3

\* What srtp_remove_stream takes from the memory it takes from the session.
Takes(m, c, s, l, d, F) ==
  /\ l.heap = m.heap \ F /\ Objects(s, d) = Objects(s, c) \ F
  /\ \A o \in F : \E id \in Ids(c), p \in StreamParts : o = <<id, p>>

LEMMA RemoveStreamSound ==
  ASSUME NEW m \in Memory, NEW c \in Context, NEW ssrc
  PROVE  LET r == srtp_remove_stream(m, c, ssrc)
         IN  /\ r.m \in Memory /\ r.c \in Context /\ r.m.blame = m.blame
             /\ \A s : (SoundContext(c) /\ Objects(s, c) \subseteq m.heap)
                         => /\ SoundContext(r.c) /\ Ids(r.c) \subseteq Ids(c)
                            /\ r.m.misused = m.misused
                            /\ \E F : Takes(m, c, s, r.m, r.c, F)
  <1> DEFINE r == srtp_remove_stream(m, c, ssrc)
  <1>1. \/ r.m = m /\ r.c = c
        \/ \E i \in 1 .. Len(c.stream_list) :
             /\ r.m = free(m, Frees(c, c.stream_list[i])) /\ r.c = Without(c, i)
    BY RemoveStreamIs
  <1> HIDE DEF r
  <1>2. CASE r.m = m /\ r.c = c
    <2>1. \A s : Takes(m, c, s, r.m, r.c, {})
      BY <1>2 DEF Takes
    <2>2. QED
      BY <1>2, <2>1 DEF r
  <1>3. ASSUME NEW i \in 1 .. Len(c.stream_list),
               r.m = free(m, Frees(c, c.stream_list[i])), r.c = Without(c, i)
        PROVE  /\ r.m \in Memory /\ r.c \in Context /\ r.m.blame = m.blame
               /\ \A s : (SoundContext(c) /\ Objects(s, c) \subseteq m.heap)
                           => /\ SoundContext(r.c) /\ Ids(r.c) \subseteq Ids(c)
                              /\ r.m.misused = m.misused
                              /\ \E F : Takes(m, c, s, r.m, r.c, F)
    <2> DEFINE F == Frees(c, c.stream_list[i])
    <2>1. Without(c, i) \in Context
      BY WithoutIs
    <2>2. /\ r.m \in Memory /\ r.m.heap = m.heap \ F /\ r.m.blame = m.blame
          /\ F \subseteq m.heap => r.m.misused = m.misused
      BY <1>3, FreeIs
    <2>3. ASSUME NEW s, SoundContext(c), Objects(s, c) \subseteq m.heap
          PROVE  /\ SoundContext(r.c) /\ Ids(r.c) \subseteq Ids(c)
                 /\ r.m.misused = m.misused
                 /\ Takes(m, c, s, r.m, r.c, F)
      <3>1. /\ SoundContext(r.c) /\ Ids(r.c) \subseteq Ids(c)
            /\ \A o \in F : \E id \in Ids(c), p \in StreamParts : o = <<id, p>>
            /\ F \subseteq Objects(s, c) /\ Objects(s, r.c) = Objects(s, c) \ F
        BY <1>3, <2>3, WithoutSound
      <3> HIDE DEF F
      <3>2. QED
        BY <2>2, <2>3, <3>1 DEF Takes
    <2> HIDE DEF F
    <2>4. QED
      BY <1>3, <2>1, <2>2, <2>3
  <1>4. QED
    BY <1>1, <1>2, <1>3 DEF r

-----------------------------------------------------------------------------
(* A session is created.                                                   *)

Results == [status : {"ok", "fail"}, m : Memory, c : Context]

\* The memory and the session after the first policies of the list.
Creates(f, m, ids, policies, n) ==
  f = [i \in 0 .. Len(policies) |->
         IF i = 0 THEN [status |-> "ok", m |-> alloc(m, Own(ids[1], {"ctx"})), c |-> NoContext]
         ELSE createdWith(f[i - 1], ids[i], policies[i], n - Stages * (i - 1))]

LEMMA CreatesExists ==
  ASSUME NEW m \in Memory, NEW policies \in Seq(Policies), Len(policies) >= 1,
         NEW ids \in [1 .. Len(policies) -> 1 .. MaxObjects], NEW n
  PROVE  /\ \E f : Creates(f, m, ids, policies, n)
         /\ [status |-> "ok", m |-> alloc(m, Own(ids[1], {"ctx"})), c |-> NoContext] \in Results
  <1> DEFINE k == Len(policies)
             g == [q \in (1 .. k) \X Results |->
                     createdWith(q[2], ids[q[1]], policies[q[1]], n - Stages * (q[1] - 1))]
             a == [status |-> "ok", m |-> alloc(m, Own(ids[1], {"ctx"})), c |-> NoContext]
  <1>1. k \in Nat /\ 1 \in 1 .. k /\ \A i \in 1 .. k : policies[i] \in Policies
    OBVIOUS
  <1>2. a \in Results
    <2>1. Own(ids[1], {"ctx"}) \in SUBSET Object
      BY <1>1, OwnObjects
    <2>2. alloc(m, Own(ids[1], {"ctx"})) \in Memory
      BY <2>1, AllocIs
    <2>3. QED
      BY <2>2, NoneIs DEF Results
  <1>3. ASSUME NEW i \in 1 .. k, NEW r \in Results
        PROVE  /\ createdWith(r, ids[i], policies[i], n - Stages * (i - 1)) \in Results
               /\ g[<<i, r>>] = createdWith(r, ids[i], policies[i], n - Stages * (i - 1))
    <2> DEFINE d == srtp_add_stream(r.m, r.c, ids[i], policies[i], n - Stages * (i - 1))
    <2>1. /\ d.m \in Memory /\ d.c \in Context /\ d.status \in {"ok", "fail"}
          /\ d = [status |-> d.status, m |-> d.m, c |-> d.c]
      BY <1>1, AddStreamType DEF Results
    <2>2. d \in Results
      <3> HIDE DEF d
      <3>1. [status |-> d.status, m |-> d.m, c |-> d.c] \in Results
        BY <2>1 DEF Results
      <3>2. QED
        BY <2>1, <3>1
    <2>3. g[<<i, r>>] = createdWith(r, ids[i], policies[i], n - Stages * (i - 1))
      OBVIOUS
    <2> HIDE DEF g
    <2>4. QED
      BY <2>2, <2>3 DEF createdWith
  <1>4. g \in [(1 .. k) \X Results -> Results]
    BY <1>3
  <1> HIDE DEF g, k, a
  <1>5. PICK f : Iteration(f, k, Results, a, g)
    BY <1>1, <1>2, <1>4, Iterates
  <1>6. \A i \in 0 .. k :
          f[i] = IF i = 0 THEN a
                 ELSE createdWith(f[i - 1], ids[i], policies[i], n - Stages * (i - 1))
    <2> SUFFICES ASSUME NEW i \in 0 .. k, i # 0
                 PROVE  f[i] = createdWith(f[i - 1], ids[i], policies[i], n - Stages * (i - 1))
      BY <1>5 DEF Iteration
    <2>1. i \in 1 .. k /\ i - 1 \in 0 .. k
      BY <1>1
    <2>2. f[i - 1] \in Results
      BY <1>5, <2>1 DEF Iteration
    <2>3. QED
      BY <1>3, <1>5, <2>1, <2>2 DEF Iteration
  <1>7. f = [i \in 0 .. k |-> f[i]]
    BY <1>5 DEF Iteration
  <1>8. Creates(f, m, ids, policies, n)
    BY <1>6, <1>7 DEF Creates, k, a
  <1>9. QED
    BY <1>2, <1>8 DEF a

LEMMA CreateIs ==
  ASSUME NEW m \in Memory, NEW policies \in Seq(Policies), Len(policies) >= 1,
         NEW ids \in [1 .. Len(policies) -> 1 .. MaxObjects], NEW n
  PROVE  \E f : /\ Creates(f, m, ids, policies, n)
                /\ srtp_create(m, ids, policies, n)
                     = createdOrUndone(f[Len(policies)], ids[1])
  <1> DEFINE f == CHOOSE h : h = [i \in 0 .. Len(policies) |->
                    IF i = 0 THEN [status |-> "ok", m |-> alloc(m, Own(ids[1], {"ctx"})), c |-> NoContext]
                    ELSE createdWith(h[i - 1], ids[i], policies[i], n - Stages * (i - 1))]
  <1>1. srtp_create(m, ids, policies, n) = createdOrUndone(f[Len(policies)], ids[1])
    BY DEF srtp_create
  <1>2. Creates(f, m, ids, policies, n)
    BY CreatesExists DEF Creates
  <1> HIDE DEF f
  <1>3. QED
    BY <1>1, <1>2

\* Nothing in the memory goes by one of the numbers.
Unused(m, ids) == \A o \in m.heap, j \in DOMAIN ids, q \in StreamParts \cup {"ctx"} :
                    o # <<ids[j], q>>

\* What holds when i policies of the list have been dealt with.
SoFar(i, r, m, ids) ==
  /\ r \in Results /\ SoundContext(r.c)
  /\ r.m.misused = m.misused /\ m.blame \subseteq r.m.blame
  /\ "stale" \in r.m.blame => "stale" \in m.blame
  /\ \A id \in Ids(r.c) : \E j \in 1 .. i : id = ids[j]
  /\ m.heap \subseteq r.m.heap /\ Objects(ids[1], r.c) \subseteq r.m.heap
  /\ \A o \in r.m.heap : \/ o \in m.heap
                         \/ o = <<ids[1], "ctx">>
                         \/ \E j \in 1 .. i, p \in StreamParts : o = <<ids[j], p>>
  /\ r.m.blame = {} => r.m.heap \subseteq m.heap \cup Objects(ids[1], r.c)

LEMMA CreatesStart ==
  ASSUME NEW m \in Memory, NEW id \in 1 .. MaxObjects, NEW ids, ids[1] = id, NEW r,
         r = [status |-> "ok", m |-> alloc(m, Own(id, {"ctx"})), c |-> NoContext],
         r \in Results
  PROVE  SoFar(0, r, m, ids)
  <1> DEFINE k == alloc(m, Own(id, {"ctx"}))
  <1>1. Own(id, {"ctx"}) \in SUBSET Object
    BY OwnObjects
  <1>2. /\ k \in Memory /\ k.heap = m.heap \cup Own(id, {"ctx"})
        /\ k.misused = m.misused /\ k.blame = m.blame
    BY <1>1, AllocIs
  <1>3. r.m = k /\ r.c = NoContext
    OBVIOUS
  <1>4. /\ Objects(id, NoContext) = Own(id, {"ctx"}) /\ Ids(NoContext) = {}
        /\ SoundContext(NoContext)
    BY NoneIs DEF Objects, Ids
  <1>5. \A o \in Own(id, {"ctx"}) : o = <<id, "ctx">>
    BY OwnIs
  <1> HIDE DEF k
  <1>6. QED
    BY <1>2, <1>3, <1>4, <1>5 DEF SoFar

LEMMA CreatesStep ==
  ASSUME NEW m \in Memory, NEW k \in Nat, NEW ids \in [1 .. k -> 1 .. MaxObjects],
         IsInjective(ids), Unused(m, ids), NEW i \in 0 .. k - 1, NEW r, SoFar(i, r, m, ids),
         NEW p \in Policies, NEW n
  PROVE  SoFar(i + 1, createdWith(r, ids[i + 1], p, n), m, ids)
  <1> DEFINE id == ids[i + 1]
             d == srtp_add_stream(r.m, r.c, id, p, n)
             one == ids[1]
  <1>1. i + 1 \in 1 .. k /\ 1 \in 1 .. k /\ id \in 1 .. MaxObjects
        /\ \A j \in 1 .. i : j \in 1 .. k /\ j # i + 1 /\ j \in 1 .. i + 1
    OBVIOUS
  <1>2. /\ r \in Results /\ SoundContext(r.c) /\ r.m \in Memory /\ r.c \in Context
        /\ r.m.misused = m.misused /\ m.blame \subseteq r.m.blame
        /\ "stale" \in r.m.blame => "stale" \in m.blame
        /\ \A x \in Ids(r.c) : \E j \in 1 .. i : x = ids[j]
        /\ m.heap \subseteq r.m.heap /\ Objects(one, r.c) \subseteq r.m.heap
        /\ \A o \in r.m.heap : \/ o \in m.heap
                               \/ o = <<one, "ctx">>
                               \/ \E j \in 1 .. i, q \in StreamParts : o = <<ids[j], q>>
        /\ r.m.blame = {} => r.m.heap \subseteq m.heap \cup Objects(one, r.c)
    BY DEF SoFar, Results
  <1>3. CASE r.status # "ok"
    <2>1. createdWith(r, id, p, n) = r
      BY <1>3 DEF createdWith
    <2> HIDE DEF id, one
    <2>2. SoFar(i + 1, r, m, ids)
      BY <1>1, <1>2 DEF SoFar, one
    <2>3. QED
      BY <2>1, <2>2 DEF id
  <1>4. CASE r.status = "ok"
    <2>1. createdWith(r, id, p, n) = d
      BY <1>4 DEF createdWith
    <2>2. \A j \in 1 .. i : ids[j] # id
      BY <1>1 DEF IsInjective
    <2>3. id \notin Ids(r.c)
      BY <1>2, <2>2
    <2>4. Own(id, StreamParts) \cap r.m.heap = {}
      <3> SUFFICES ASSUME NEW q \in StreamParts, <<id, q>> \in r.m.heap PROVE FALSE
        BY OwnIs
      <3>1. <<id, q>> \notin m.heap
        BY <1>1 DEF Unused
      <3>2. <<id, q>> # <<one, "ctx">>
        BY DEF StreamParts
      <3>3. \A j \in 1 .. i, u \in StreamParts : <<id, q>> # <<ids[j], u>>
        BY <2>2
      <3> HIDE DEF id, one
      <3>4. QED
        BY <1>2, <3>1, <3>2, <3>3
    <2>5. Extends(r.m, r.c, id, d.m, d.c)
      BY <1>1, <1>2, <2>3, <2>4, AddStreamSound
    <2>6. d \in Results
      <3>1. /\ d.m \in Memory /\ d.c \in Context /\ d.status \in {"ok", "fail"}
            /\ d = [status |-> d.status, m |-> d.m, c |-> d.c]
        BY <1>1, <1>2, AddStreamType
      <3> HIDE DEF d
      <3>2. [status |-> d.status, m |-> d.m, c |-> d.c] \in Results
        BY <3>1 DEF Results
      <3>3. QED
        BY <3>1, <3>2
    <2> HIDE DEF d, one
    <2>7. /\ SoundContext(d.c) /\ d.m.misused = r.m.misused
          /\ r.m.blame \subseteq d.m.blame
          /\ "stale" \in d.m.blame => "stale" \in r.m.blame
          /\ Ids(d.c) \subseteq Ids(r.c) \cup {id}
          /\ r.m.heap \subseteq d.m.heap
          /\ d.m.heap \subseteq r.m.heap \cup Own(id, StreamParts)
          /\ Objects(one, r.c) \subseteq Objects(one, d.c)
          /\ Objects(one, d.c) \subseteq Objects(one, r.c) \cup d.m.heap
          /\ d.m.blame = {} => d.m.heap \subseteq r.m.heap \cup Objects(one, d.c)
      BY <2>5 DEF Extends
    <2>8. \A x \in Ids(d.c) : \E j \in 1 .. i + 1 : x = ids[j]
      BY <1>1, <1>2, <2>7
    <2>9. \A o \in d.m.heap : \/ o \in m.heap
                              \/ o = <<one, "ctx">>
                              \/ \E j \in 1 .. i + 1, q \in StreamParts : o = <<ids[j], q>>
      <3> SUFFICES ASSUME NEW o \in d.m.heap
                   PROVE  \/ o \in m.heap
                          \/ o = <<one, "ctx">>
                          \/ \E j \in 1 .. i + 1, q \in StreamParts : o = <<ids[j], q>>
        OBVIOUS
      <3>1. CASE o \in r.m.heap
        BY <1>1, <1>2, <3>1
      <3>2. CASE o \in Own(id, StreamParts)
        BY <1>1, <3>2, OwnIs
      <3>3. QED
        BY <2>7, <3>1, <3>2
    <2>10. d.m.blame = {} => d.m.heap \subseteq m.heap \cup Objects(one, d.c)
      BY <1>2, <2>7
    <2> HIDE DEF id
    <2>11. SoFar(i + 1, d, m, ids)
      BY <1>2, <2>6, <2>7, <2>8, <2>9, <2>10 DEF SoFar, one
    <2>12. QED
      BY <2>1, <2>11 DEF id
  <1>5. QED
    BY <1>3, <1>4

LEMMA CreatesAll ==
  ASSUME NEW m \in Memory, NEW policies \in Seq(Policies), Len(policies) >= 1,
         NEW ids \in [1 .. Len(policies) -> 1 .. MaxObjects], IsInjective(ids),
         Unused(m, ids), NEW n, NEW f, Creates(f, m, ids, policies, n)
  PROVE  SoFar(Len(policies), f[Len(policies)], m, ids)
  <1> DEFINE k == Len(policies)
             S == {i \in 0 .. k : SoFar(i, f[i], m, ids)}
  <1>1. k \in Nat /\ 1 \in 1 .. k /\ \A i \in 1 .. k : policies[i] \in Policies
    OBVIOUS
  <1>2. /\ f[0] = [status |-> "ok", m |-> alloc(m, Own(ids[1], {"ctx"})), c |-> NoContext]
        /\ \A i \in 0 .. k - 1 :
             f[i + 1] = createdWith(f[i], ids[i + 1], policies[i + 1], n - Stages * i)
    <2>1. f[0] = [status |-> "ok", m |-> alloc(m, Own(ids[1], {"ctx"})), c |-> NoContext]
      BY <1>1 DEF Creates
    <2>2. ASSUME NEW i \in 0 .. k - 1
          PROVE  f[i + 1] = createdWith(f[i], ids[i + 1], policies[i + 1], n - Stages * i)
      <3>1. i + 1 \in 0 .. k /\ i + 1 # 0 /\ (i + 1) - 1 = i
        BY <1>1
      <3> DEFINE j == i + 1
      <3>2. f[j] = createdWith(f[j - 1], ids[j], policies[j], n - Stages * (j - 1))
        <4> HIDE DEF j
        <4>1. j \in 0 .. Len(policies) /\ j # 0
          BY <3>1 DEF j
        <4>2. QED
          BY <4>1, Zenon DEF Creates
      <3>3. j - 1 = i
        BY <3>1
      <3>4. QED
        BY <3>2, <3>3, Zenon
    <2>3. QED
      BY <2>1, <2>2
  <1>3. SoFar(0, f[0], m, ids)
    <2>1. ids[1] \in 1 .. MaxObjects
      BY <1>1
    <2>2. f[0] \in Results
      BY <1>2, CreatesExists
    <2>3. QED
      BY <1>2, <2>1, <2>2, CreatesStart
  <1>4. ASSUME NEW i \in 0 .. k - 1, SoFar(i, f[i], m, ids)
        PROVE  SoFar(i + 1, f[i + 1], m, ids)
    <2>1. policies[i + 1] \in Policies
      BY <1>1
    <2>2. SoFar(i + 1, createdWith(f[i], ids[i + 1], policies[i + 1], n - Stages * i), m, ids)
      BY <1>1, <1>4, <2>1, CreatesStep
    <2>3. QED
      BY <1>2, <2>2
  <1>5. 0 \in S /\ k \in 0 .. k /\ \A i \in 0 .. k - 1 : i + 1 \in 0 .. k
    BY <1>1, <1>3
  <1>6. \A i \in 0 .. k - 1 : i \in S => i + 1 \in S
    BY <1>4, <1>5
  <1>7. 0 .. k \subseteq S
    <2> HIDE DEF S, k
    <2>1. QED
      BY <1>1, <1>5, <1>6, Induction
  <1>8. QED
    BY <1>5, <1>7

\* What has been created is sound, and what could not be is undone.
SoundlyCreated(m, ids, r) ==
  /\ r.status \in {"ok", "fail"} /\ r.m \in Memory /\ r.c \in Context
  /\ r.m.misused = m.misused /\ m.blame \subseteq r.m.blame
  /\ "stale" \in r.m.blame => "stale" \in m.blame
  /\ m.heap \subseteq r.m.heap
  /\ \A o \in r.m.heap : \/ o \in m.heap
                         \/ \E j \in DOMAIN ids, p \in StreamParts \cup {"ctx"} : o = <<ids[j], p>>
  /\ r.status = "ok" =>
       /\ SoundContext(r.c) /\ Objects(ids[1], r.c) \subseteq r.m.heap
       /\ \A id \in Ids(r.c) : \E j \in DOMAIN ids : id = ids[j]
       /\ r.m.blame = {} => r.m.heap \subseteq m.heap \cup Objects(ids[1], r.c)
  /\ r.status # "ok" => (r.m.blame = {} => r.m.heap \subseteq m.heap)

LEMMA CreateSound ==
  ASSUME NEW m \in Memory, NEW policies \in Seq(Policies), Len(policies) >= 1,
         NEW ids \in [1 .. Len(policies) -> 1 .. MaxObjects], IsInjective(ids),
         Unused(m, ids), NEW n
  PROVE  SoundlyCreated(m, ids, srtp_create(m, ids, policies, n))
  <1> DEFINE k == Len(policies)
             d == srtp_create(m, ids, policies, n)
             one == ids[1]
  <1>1. PICK f : Creates(f, m, ids, policies, n) /\ d = createdOrUndone(f[k], one)
    BY CreateIs
  <1> DEFINE r == f[k]
  <1>2. SoFar(k, r, m, ids)
    BY <1>1, CreatesAll
  <1>3. DOMAIN ids = 1 .. k /\ 1 \in 1 .. k
    OBVIOUS
  <1> HIDE DEF d, r, k, one
  <1>4. /\ r \in Results /\ r.m \in Memory /\ r.c \in Context
        /\ r.status \in {"ok", "fail"} /\ SoundContext(r.c)
        /\ r.m.misused = m.misused /\ m.blame \subseteq r.m.blame
        /\ "stale" \in r.m.blame => "stale" \in m.blame
        /\ \A x \in Ids(r.c) : \E j \in 1 .. k : x = ids[j]
        /\ m.heap \subseteq r.m.heap /\ Objects(one, r.c) \subseteq r.m.heap
        /\ \A o \in r.m.heap : \/ o \in m.heap
                               \/ o = <<one, "ctx">>
                               \/ \E j \in 1 .. k, q \in StreamParts : o = <<ids[j], q>>
        /\ r.m.blame = {} => r.m.heap \subseteq m.heap \cup Objects(one, r.c)
    BY <1>2 DEF SoFar, Results, one
  <1>5. \A o \in r.m.heap : \/ o \in m.heap
                            \/ \E j \in DOMAIN ids, p \in StreamParts \cup {"ctx"} : o = <<ids[j], p>>
    BY <1>3, <1>4 DEF one
  <1>6. CASE r.status = "ok"
    <2>1. d = r
      BY <1>1, <1>6 DEF createdOrUndone, r
    <2>2. SoundlyCreated(m, ids, r)
      BY <1>3, <1>4, <1>5, <1>6 DEF SoundlyCreated, one
    <2>3. QED
      BY <2>1, <2>2 DEF d
  <1>7. CASE r.status # "ok"
    <2> DEFINE l == srtp_dealloc(r.m, one, r.c)
    <2>1. d = [r EXCEPT !.m = l]
      BY <1>1, <1>7 DEF createdOrUndone, r
    <2>2. l \in Memory /\ l.blame = r.m.blame
      BY <1>4, DeallocType
    <2>3. l.heap = r.m.heap \ Objects(one, r.c) /\ l.misused = r.m.misused
      BY <1>4, DeallocSound
    <2> HIDE DEF l
    <2>4. d.m = l /\ d.c = r.c /\ d.status = r.status
      BY <1>4, <2>1 DEF Results
    <2>5. m.heap \cap Objects(one, r.c) = {}
      <3> SUFFICES ASSUME NEW o \in m.heap, o \in Objects(one, r.c) PROVE FALSE
        OBVIOUS
      <3>1. \/ o = <<one, "ctx">>
            \/ \E id \in Ids(r.c), p \in StreamParts : o = <<id, p>>
        <4>1. r.c \in Context /\ SoundContext(r.c)
          BY <1>4
        <4> DEFINE c == r.c
        <4> HIDE DEF c
        <4>2. c \in Context /\ SoundContext(c) /\ o \in Objects(one, c)
          BY <4>1 DEF c
        <4>3. \/ o = <<one, "ctx">>
              \/ \E id \in Ids(c), p \in StreamParts : o = <<id, p>>
          BY <4>2, WhoseObject
        <4>4. QED
          BY <4>3 DEF c
      <3>2. \E j \in DOMAIN ids, p \in StreamParts \cup {"ctx"} : o = <<ids[j], p>>
        BY <1>3, <1>4, <3>1 DEF one
      <3>3. QED
        BY <3>2 DEF Unused
    <2>6. /\ m.heap \subseteq l.heap /\ l.heap \subseteq r.m.heap
          /\ r.m.blame = {} => l.heap \subseteq m.heap
      BY <1>4, <2>3, <2>5
    <2>7. SoundlyCreated(m, ids, d)
      BY <1>4, <1>5, <1>7, <2>2, <2>3, <2>4, <2>6 DEF SoundlyCreated
    <2>8. QED
      BY <2>7 DEF d
  <1>8. QED
    BY <1>6, <1>7

-----------------------------------------------------------------------------
(* The numbers that are given out.                                         *)

LEMMA FreshIs ==
  ASSUME NEW x \in Fresh
  PROVE  /\ x \in 1 .. MaxObjects
         /\ x \notin {app, converter.enc, converter.dec}
         /\ \A q : <<x, q>> \notin heap
  <1>1. ASSUME NEW q, <<x, q>> \in heap PROVE FALSE
    <2>1. <<x, q>>[1] = x
      OBVIOUS
    <2>2. x \in {o[1] : o \in heap}
      BY <1>1, <2>1, Zenon
    <2>3. QED
      BY <2>2 DEF Fresh
  <1>2. QED
    BY <1>1 DEF Fresh

LEMMA MinFresh ==
  ASSUME Fresh # {}
  PROVE  /\ Min(Fresh) \in Fresh
         /\ \A y \in Fresh : Min(Fresh) <= y
  <1>1. Fresh \in SUBSET Nat
    BY DEF Fresh
  <1>2. PICK x \in Fresh : \A y \in Fresh : x <= y
    BY <1>1, LeastNatural, Zenon
  <1>3. QED
    BY <1>2 DEF Min

\* The members of Fresh below x.
Below(x) == {y \in Fresh : y < x}

LEMMA RankedFresh ==
  /\ IsFiniteSet(Fresh) /\ Fresh \in SUBSET Nat
  /\ Fresh # {} => \E x \in Fresh : Cardinality(Below(x)) = 0
  /\ Cardinality(Fresh) >= 2 => \E x \in Fresh : Cardinality(Below(x)) = 1
  <1>1. Fresh \in SUBSET Nat /\ Fresh \in SUBSET (1 .. MaxObjects)
    BY DEF Fresh
  <1>2. IsFiniteSet(Fresh)
    <2>1. IsFiniteSet(1 .. MaxObjects)
      BY FS_Interval, SessionsAssumption
    <2>2. QED
      BY <1>1, <2>1, FS_Subset
  <1>3. ASSUME Fresh # {}
        PROVE  Min(Fresh) \in Fresh /\ Below(Min(Fresh)) = {}
    <2>1. Min(Fresh) \in Fresh /\ \A y \in Fresh : Min(Fresh) <= y
      BY <1>3, MinFresh
    <2>2. \A y \in Fresh : ~(y < Min(Fresh))
      <3>1. \A y \in Fresh : y \in Nat
        BY <1>1
      <3> DEFINE a == Min(Fresh)
      <3>2. a \in Nat /\ \A y \in Fresh : a <= y
        BY <2>1, <3>1
      <3> HIDE DEF a
      <3>3. \A y \in Fresh : ~(y < a)
        BY <3>1, <3>2
      <3>4. QED
        BY <3>3 DEF a
    <2>3. QED
      BY <2>1, <2>2 DEF Below
  <1>4. ASSUME Cardinality(Fresh) >= 2
        PROVE  \E x \in Fresh : Cardinality(Below(x)) = 1
    <2> DEFINE a == Min(Fresh)
               R == Fresh \ {a}
    <2>1. Fresh # {}
      BY <1>4, FS_EmptySet
    <2>2. a \in Fresh /\ \A y \in Fresh : a <= y
      BY <2>1, MinFresh
    <2> HIDE DEF a
    <2>3. R # {} /\ R \in SUBSET Nat
      <3>1. Cardinality(Fresh) \in Nat
        BY <1>2, FS_CardinalityType
      <3>2. Cardinality(R) = Cardinality(Fresh) - 1
        BY <1>2, <2>2, FS_RemoveElement
      <3>3. Cardinality(R) # 0
        BY <1>4, <3>1, <3>2
      <3>4. QED
        BY <1>1, <3>3, FS_EmptySet
    <2>4. PICK x \in R : \A y \in R : x <= y
      <3> HIDE DEF R
      <3>1. QED
        BY <2>3, LeastNatural, Zenon
    <2>5. Below(x) = {a}
      <3>1. \A y \in Fresh : y \in Nat
        BY <1>1
      <3>2. \A y \in Fresh : y = a \/ x <= y
        BY <2>4
      <3>3. x \in Nat /\ a \in Nat /\ a <= x /\ a # x
        BY <2>2, <2>4, <3>1
      <3>4. \A y \in Fresh : y < x <=> y = a
        BY <3>1, <3>2, <3>3
      <3>5. QED
        BY <2>2, <3>4 DEF Below
    <2>6. Cardinality(Below(x)) = 1
      BY <2>5, FS_Singleton
    <2>7. QED
      BY <2>4, <2>6
  <1>5. Fresh # {} => \E x \in Fresh : Cardinality(Below(x)) = 0
    BY <1>3, FS_EmptySet
  <1>6. QED
    BY <1>1, <1>2, <1>4, <1>5

LEMMA FreshSeqIs ==
  ASSUME NEW k \in {1, 2}, Cardinality(Fresh) >= k
  PROVE  FreshSeq(k) \in [1 .. k -> Fresh] /\ IsInjective(FreshSeq(k))
  <1> DEFINE f == FreshSeq(k)
  <1>1. Fresh # {}
    BY FS_EmptySet
  <1>2. ASSUME NEW i \in 1 .. k PROVE \E x \in Fresh : Cardinality(Below(x)) = i - 1
    <2>1. CASE i = 1
      BY <1>1, <2>1, RankedFresh
    <2>2. CASE i = 2
      <3>1. Cardinality(Fresh) >= 2
        BY <2>2
      <3>2. QED
        BY <2>2, <3>1, RankedFresh
    <2>3. QED
      BY <2>1, <2>2
  <1>3. f = [i \in 1 .. k |-> CHOOSE x \in Fresh : Cardinality(Below(x)) = i - 1]
    BY DEF FreshSeq, Below
  <1> HIDE DEF f
  <1>4. \A i \in 1 .. k : f[i] \in Fresh /\ Cardinality(Below(f[i])) = i - 1
    BY <1>2, <1>3
  <1>5. f \in [1 .. k -> Fresh]
    BY <1>3, <1>4
  <1>6. IsInjective(f)
    BY <1>4, <1>5 DEF IsInjective
  <1>7. QED
    BY <1>5, <1>6 DEF f

-----------------------------------------------------------------------------
(* The sessions U of x, in the memory h.                                   *)

Sessions == [1 .. MaxObjects -> Context]

\* Each leads to nothing that is freed, and no two have a stream in common.
Held(h, x, U) ==
  /\ \A s \in U : SoundContext(x[s]) /\ Objects(s, x[s]) \subseteq h
  /\ \A s, t \in U : s # t => Ids(x[s]) \cap Ids(x[t]) = {}

Reach(x, U) == UNION {Objects(s, x[s]) : s \in U}

LEMMA ObjectsApart ==
  ASSUME NEW s, NEW t, s # t, NEW c \in Context, SoundContext(c),
         NEW d \in Context, SoundContext(d), Ids(c) \cap Ids(d) = {}
  PROVE  Objects(s, c) \cap Objects(t, d) = {}
  <1> SUFFICES ASSUME NEW o \in Objects(s, c), o \in Objects(t, d) PROVE FALSE
    OBVIOUS
  <1>1. o = <<s, "ctx">> \/ \E id \in Ids(c), p \in StreamParts : o = <<id, p>>
    BY WhoseObject
  <1>2. o = <<t, "ctx">> \/ \E id \in Ids(d), p \in StreamParts : o = <<id, p>>
    BY WhoseObject
  <1>3. "ctx" \notin StreamParts
    BY DEF StreamParts
  <1>4. QED
    BY <1>1, <1>2, <1>3

\* A number that is not in the memory is not one of a stream.
LEMMA NotAnId ==
  ASSUME NEW h, NEW s, NEW c \in Context, SoundContext(c), Objects(s, c) \subseteq h,
         NEW id, <<id, "str">> \notin h
  PROVE  id \notin Ids(c)
  <1>1. \A i \in Ids(c) : <<i, "str">> \in Objects(s, c)
    <2>1. /\ \A o \in Objects(s, c) :
               \/ o = <<s, "ctx">>
               \/ \E i \in Ids(c), p \in StreamParts : o = <<i, p>>
          /\ <<s, "ctx">> \in Objects(s, c)
          /\ \A i \in Ids(c) : <<i, "str">> \in Objects(s, c) /\ i \in 1 .. MaxObjects
      BY WhoseObjects, SMTT(30)
    <2>2. QED
      BY <2>1
  <1>2. QED
    BY <1>1

LEMMA HeldMore ==
  ASSUME NEW h, NEW k, h \subseteq k, NEW x, NEW y, NEW U, NEW V \in SUBSET U,
         \A s \in V : y[s] = x[s], Held(h, x, U)
  PROVE  Held(k, y, V) /\ Reach(y, V) = Reach(x, V)
  <1>1. Held(k, y, V)
    <2>1. \A s \in V : SoundContext(y[s]) /\ Objects(s, y[s]) \subseteq k
      BY DEF Held
    <2>2. \A s, t \in V : s # t => Ids(y[s]) \cap Ids(y[t]) = {}
      BY DEF Held
    <2>3. QED
      BY <2>1, <2>2 DEF Held
  <1>2. QED
    BY <1>1 DEF Reach

\* The session id of y is added to those of x, and nothing of it was there.
Joins(h, k, x, y, U, id) ==
  /\ h \subseteq k /\ x \in Sessions /\ U \in SUBSET (1 .. MaxObjects)
  /\ Held(h, x, U) /\ id \notin U /\ \A s \in U : y[s] = x[s]
  /\ y[id] \in Context /\ SoundContext(y[id])
  /\ Objects(id, y[id]) \subseteq k /\ \A i \in Ids(y[id]) : <<i, "str">> \notin h

LEMMA HeldNew ==
  ASSUME NEW h, NEW k, NEW x, NEW y, NEW U, NEW id, Joins(h, k, x, y, U, id)
  PROVE  /\ Held(k, y, U \cup {id})
         /\ \A X : X \subseteq Reach(x, U) \cup Objects(id, y[id])
                   => X \subseteq Reach(y, U \cup {id})
  <1> USE DEF Joins
  <1>1. \A s \in U : x[s] \in Context /\ SoundContext(x[s]) /\ Objects(s, x[s]) \subseteq h
    BY DEF Held, Sessions
  <1>2. \A s \in U : Ids(x[s]) \cap Ids(y[id]) = {}
    <2> SUFFICES ASSUME NEW s \in U, NEW i \in Ids(y[id]) PROVE i \notin Ids(x[s])
      OBVIOUS
    <2>1. QED
      BY <1>1, NotAnId
  <1>3. \A s, t \in U : s # t => Ids(x[s]) \cap Ids(x[t]) = {}
    BY DEF Held
  <1>4. \A s, t \in U \cup {id} : s # t => Ids(y[s]) \cap Ids(y[t]) = {}
    BY <1>2, <1>3
  <1>5. \A s \in U \cup {id} : SoundContext(y[s]) /\ Objects(s, y[s]) \subseteq k
    BY <1>1
  <1>6. Held(k, y, U \cup {id})
    BY <1>4, <1>5 DEF Held
  <1>7. QED
    BY <1>6 DEF Reach

LEMMA HeldExtends ==
  ASSUME NEW m \in Memory, NEW x \in Sessions, NEW U \in SUBSET (1 .. MaxObjects),
         Held(m.heap, x, U), NEW s \in U, NEW id, <<id, "str">> \notin m.heap,
         NEW l, NEW d, Extends(m, x[s], id, l, d)
  PROVE  LET y == [x EXCEPT ![s] = d]
         IN  /\ Held(l.heap, y, U)
             /\ (l.blame = {} /\ m.heap \subseteq Reach(x, U)) => l.heap \subseteq Reach(y, U)
  <1> DEFINE y == [x EXCEPT ![s] = d]
  <1>1. y[s] = d /\ \A t \in U : t # s => y[t] = x[t]
    BY DEF Sessions
  <1> HIDE DEF y
  <1>2. /\ SoundContext(d) /\ Ids(d) \subseteq Ids(x[s]) \cup {id}
        /\ m.heap \subseteq l.heap
        /\ Objects(s, x[s]) \subseteq Objects(s, d)
        /\ Objects(s, d) \subseteq Objects(s, x[s]) \cup l.heap
        /\ l.blame = {} => l.heap \subseteq m.heap \cup Objects(s, d)
    BY DEF Extends
  <1>3. \A t \in U : x[t] \in Context /\ SoundContext(x[t]) /\ Objects(t, x[t]) \subseteq m.heap
    BY DEF Held, Sessions
  <1>4. \A t \in U : id \notin Ids(x[t])
    BY <1>3, NotAnId
  <1>5. \A t \in U : SoundContext(y[t]) /\ Objects(t, y[t]) \subseteq l.heap
    <2> SUFFICES ASSUME NEW t \in U PROVE SoundContext(y[t]) /\ Objects(t, y[t]) \subseteq l.heap
      OBVIOUS
    <2>1. CASE t = s
      BY <1>1, <1>2, <1>3, <2>1
    <2>2. CASE t # s
      BY <1>1, <1>2, <1>3, <2>2
    <2>3. QED
      BY <2>1, <2>2
  <1>6. \A t, u \in U : t # u => Ids(x[t]) \cap Ids(x[u]) = {}
    BY DEF Held
  <1>7. \A t \in U : t # s => Ids(d) \cap Ids(x[t]) = {}
    BY <1>2, <1>4, <1>6
  <1>8. \A t, u \in U : t # u => Ids(y[t]) \cap Ids(y[u]) = {}
    BY <1>1, <1>6, <1>7
  <1>9. Reach(x, U) \subseteq Reach(y, U) /\ Objects(s, d) \subseteq Reach(y, U)
    <2>1. \A t \in U : Objects(t, x[t]) \subseteq Objects(t, y[t])
      BY <1>1, <1>2
    <2>2. Objects(s, d) \subseteq Reach(y, U)
      BY <1>1 DEF Reach
    <2>3. QED
      BY <2>1, <2>2 DEF Reach
  <1>10. Held(l.heap, y, U)
    BY <1>5, <1>8 DEF Held
  <1>11. QED
    BY <1>2, <1>9, <1>10 DEF y

LEMMA HeldTakes ==
  ASSUME NEW m \in Memory, NEW x \in Sessions, NEW U \in SUBSET (1 .. MaxObjects),
         Held(m.heap, x, U), NEW s \in U, NEW l, NEW d, NEW F,
         SoundContext(d), Ids(d) \subseteq Ids(x[s]), Takes(m, x[s], s, l, d, F)
  PROVE  LET y == [x EXCEPT ![s] = d]
         IN  /\ Held(l.heap, y, U)
             /\ m.heap \subseteq Reach(x, U) => l.heap \subseteq Reach(y, U)
  <1> DEFINE y == [x EXCEPT ![s] = d]
  <1>1. y[s] = d /\ \A t \in U : t # s => y[t] = x[t]
    BY DEF Sessions
  <1> HIDE DEF y
  <1>2. /\ l.heap = m.heap \ F /\ Objects(s, d) = Objects(s, x[s]) \ F
        /\ \A o \in F : \E id \in Ids(x[s]), p \in StreamParts : o = <<id, p>>
    BY DEF Takes
  <1>3. \A t \in U : x[t] \in Context /\ SoundContext(x[t]) /\ Objects(t, x[t]) \subseteq m.heap
    BY DEF Held, Sessions
  <1>4. \A t, u \in U : t # u => Ids(x[t]) \cap Ids(x[u]) = {}
    BY DEF Held
  <1>5. ASSUME NEW t \in U, t # s, NEW o \in Objects(t, x[t]) PROVE o \notin F
    <2>1. o = <<t, "ctx">> \/ \E id \in Ids(x[t]), p \in StreamParts : o = <<id, p>>
      BY <1>3, WhoseObject
    <2>2. "ctx" \notin StreamParts
      BY DEF StreamParts
    <2>3. Ids(x[t]) \cap Ids(x[s]) = {}
      BY <1>4, <1>5
    <2>4. QED
      BY <1>2, <2>1, <2>2, <2>3
  <1>6. \A t \in U : SoundContext(y[t]) /\ Objects(t, y[t]) \subseteq l.heap
    <2> SUFFICES ASSUME NEW t \in U PROVE SoundContext(y[t]) /\ Objects(t, y[t]) \subseteq l.heap
      OBVIOUS
    <2>1. CASE t = s
      BY <1>1, <1>2, <1>3, <2>1
    <2>2. CASE t # s
      BY <1>1, <1>2, <1>3, <1>5, <2>2
    <2>3. QED
      BY <2>1, <2>2
  <1>7. \A t, u \in U : t # u => Ids(y[t]) \cap Ids(y[u]) = {}
    BY <1>1, <1>4
  <1>8. Held(l.heap, y, U)
    BY <1>6, <1>7 DEF Held
  <1>9. ASSUME m.heap \subseteq Reach(x, U), NEW o \in l.heap PROVE o \in Reach(y, U)
    <2>1. PICK t \in U : o \in Objects(t, x[t])
      BY <1>2, <1>9 DEF Reach
    <2>2. o \in Objects(t, y[t])
      BY <1>1, <1>2, <1>9, <2>1
    <2>3. QED
      BY <2>2 DEF Reach
  <1>10. QED
    BY <1>8, <1>9 DEF y

LEMMA HeldWithout ==
  ASSUME NEW h, NEW x \in Sessions, NEW U \in SUBSET (1 .. MaxObjects), Held(h, x, U),
         NEW s \in U
  PROVE  LET k == h \ Objects(s, x[s])
         IN  /\ Held(k, x, U \ {s})
             /\ h \subseteq Reach(x, U) => k \subseteq Reach(x, U \ {s})
  <1> DEFINE k == h \ Objects(s, x[s])
  <1>1. \A t \in U : x[t] \in Context /\ SoundContext(x[t]) /\ Objects(t, x[t]) \subseteq h
    BY DEF Held, Sessions
  <1>2. \A t, u \in U : t # u => Ids(x[t]) \cap Ids(x[u]) = {}
    BY DEF Held
  <1>3. \A t \in U : t # s => Objects(t, x[t]) \cap Objects(s, x[s]) = {}
    BY <1>1, <1>2, ObjectsApart
  <1>4. Held(k, x, U \ {s})
    <2>1. \A t \in U \ {s} : SoundContext(x[t]) /\ Objects(t, x[t]) \subseteq k
      BY <1>1, <1>3
    <2>2. QED
      BY <1>2, <2>1 DEF Held
  <1>5. h \subseteq Reach(x, U) => k \subseteq Reach(x, U \ {s})
    <2> SUFFICES ASSUME h \subseteq Reach(x, U), NEW o \in k
                 PROVE  o \in Reach(x, U \ {s})
      OBVIOUS
    <2>1. PICK t \in U : o \in Objects(t, x[t])
      BY DEF Reach
    <2>2. t # s
      BY <2>1
    <2>3. QED
      BY <2>1, <2>2 DEF Reach
  <1>6. QED
    BY <1>4, <1>5

-----------------------------------------------------------------------------
(* The invariant of the sessions.                                          *)

SessionsTyped ==
  /\ heap \in SUBSET Object /\ misused \in BOOLEAN /\ blame \in SUBSET Blames
  /\ ctx \in Sessions /\ app \in 0 .. MaxObjects
  /\ converter \in [ready : BOOLEAN, enc : 0 .. MaxObjects, dec : 0 .. MaxObjects]
  /\ converter.ready => converter.enc # 0 /\ converter.dec # 0

\* The sessions in use are different ones, and sound.
Live ==
  /\ ~misused
  /\ converter.ready => /\ converter.enc # converter.dec
                        /\ app \notin {converter.enc, converter.dec}
  /\ Held(heap, ctx, InUse)

SessionsInv ==
  /\ SessionsTyped
  /\ "stale" \notin blame => Live
  /\ blame = {} => heap \subseteq Reach(ctx, InUse)

LEMMA MemoryTyped ==
  ASSUME SessionsTyped
  PROVE  /\ memory \in Memory /\ memory.heap = heap /\ memory.misused = misused
         /\ memory.blame = blame
         /\ InUse \in SUBSET (1 .. MaxObjects)
         /\ \A s \in InUse : ctx[s] \in Context
  <1>1. /\ memory \in Memory /\ memory.heap = heap /\ memory.misused = misused
        /\ memory.blame = blame
    BY DEF memory, Memory, SessionsTyped
  <1>2. converter.ready => converter.enc \in 1 .. MaxObjects /\ converter.dec \in 1 .. MaxObjects
    BY SessionsAssumption DEF SessionsTyped
  <1>3. app # 0 => app \in 1 .. MaxObjects
    BY SessionsAssumption DEF SessionsTyped
  <1>4. InUse \in SUBSET (1 .. MaxObjects)
    BY <1>2, <1>3 DEF InUse
  <1>5. QED
    BY <1>1, <1>4 DEF SessionsTyped, Sessions

\* After a call that leaves the pointers alone.
LEMMA CallKeeps ==
  ASSUME SessionsTyped, NEW r, r.m \in Memory, r.c \in Context, setMemory(r.m),
         NEW s \in InUse, ctx' = [ctx EXCEPT ![s] = r.c], UNCHANGED <<app, converter>>
  PROVE  /\ SessionsTyped' /\ heap' = r.m.heap /\ misused' = r.m.misused
         /\ blame' = r.m.blame /\ InUse' = InUse
  <1>1. /\ heap' = r.m.heap /\ misused' = r.m.misused /\ blame' = r.m.blame
        /\ heap' \in SUBSET Object /\ misused' \in BOOLEAN /\ blame' \in SUBSET Blames
    BY DEF setMemory, Memory
  <1>2. ctx' \in Sessions
    BY DEF Sessions, SessionsTyped
  <1>3. app' = app /\ converter' = converter
    OBVIOUS
  <1>4. SessionsTyped'
    BY <1>1, <1>2, <1>3 DEF SessionsTyped
  <1>5. QED
    BY <1>1, <1>3, <1>4 DEF InUse

LEMMA ExtendsKeeps ==
  ASSUME SessionsInv, NEW r, r.m \in Memory, r.c \in Context, setMemory(r.m),
         NEW s \in InUse, ctx' = [ctx EXCEPT ![s] = r.c], UNCHANGED <<app, converter>>,
         NEW id, <<id, "str">> \notin heap,
         "stale" \in blame => "stale" \in r.m.blame, blame \subseteq r.m.blame,
         (Live /\ "stale" \notin blame) => Extends(memory, ctx[s], id, r.m, r.c)
  PROVE  SessionsInv'
  <1>1. SessionsTyped
    BY DEF SessionsInv
  <1>2. /\ SessionsTyped' /\ heap' = r.m.heap /\ misused' = r.m.misused
        /\ blame' = r.m.blame /\ InUse' = InUse
    BY <1>1, CallKeeps
  <1>3. CASE "stale" \in blame
    BY <1>2, <1>3 DEF SessionsInv
  <1>4. CASE "stale" \notin blame
    <2>1. Live /\ Extends(memory, ctx[s], id, r.m, r.c)
      BY <1>4 DEF SessionsInv
    <2>2. /\ memory \in Memory /\ memory.heap = heap /\ memory.misused = misused
          /\ memory.blame = blame /\ InUse \in SUBSET (1 .. MaxObjects)
      BY <1>1, MemoryTyped
    <2>3. Held(memory.heap, ctx, InUse) /\ ctx \in Sessions
      BY <1>1, <2>1, <2>2 DEF Live, SessionsTyped
    <2>4. /\ Held(r.m.heap, ctx', InUse)
          /\ (r.m.blame = {} /\ memory.heap \subseteq Reach(ctx, InUse))
               => r.m.heap \subseteq Reach(ctx', InUse)
      BY <2>1, <2>2, <2>3, HeldExtends
    <2>5. Held(heap', ctx', InUse')
      BY <1>2, <2>4
    <2>6. misused' = misused
      BY <1>2, <2>1, <2>2 DEF Extends
    <2>7. Live'
      BY <2>1, <2>5, <2>6 DEF Live
    <2>8. blame' = {} => heap' \subseteq Reach(ctx', InUse')
      BY <1>2, <2>2, <2>4 DEF SessionsInv
    <2>9. QED
      BY <1>2, <2>7, <2>8 DEF SessionsInv
  <1>5. QED
    BY <1>3, <1>4

\* What a call that is given the least free number needs.
LEMMA FreeNumber ==
  ASSUME SessionsInv, Fresh # {}, NEW s \in InUse
  PROVE  LET id == Min(Fresh)
         IN  /\ id \in 1 .. MaxObjects /\ <<id, "str">> \notin heap
             /\ Own(id, StreamParts) \cap memory.heap = {}
             /\ (Live /\ "stale" \notin blame) => /\ SoundContext(ctx[s])
                                                  /\ id \notin Ids(ctx[s])
  <1> DEFINE id == Min(Fresh)
  <1>1. id \in Fresh
    BY MinFresh
  <1> HIDE DEF id
  <1>2. id \in 1 .. MaxObjects /\ \A q : <<id, q>> \notin heap
    BY <1>1, FreshIs
  <1>3. /\ memory.heap = heap /\ ctx[s] \in Context
    BY MemoryTyped DEF SessionsInv
  <1>4. Own(id, StreamParts) \cap memory.heap = {}
    BY <1>2, <1>3, OwnIs
  <1>5. ASSUME Live PROVE SoundContext(ctx[s]) /\ id \notin Ids(ctx[s])
    <2>1. SoundContext(ctx[s]) /\ Objects(s, ctx[s]) \subseteq heap
      BY <1>5 DEF Live, Held
    <2>2. QED
      BY <1>2, <1>3, <2>1, NotAnId
  <1>6. QED
    BY <1>2, <1>4, <1>5 DEF id

LEMMA AddStreamStep == SessionsInv /\ AddStream => SessionsInv'
  <1> SUFFICES ASSUME SessionsInv, AddStream PROVE SessionsInv'
    OBVIOUS
  <1>1. app # 0 /\ Fresh # {}
    BY DEF AddStream
  <1> DEFINE id == Min(Fresh)
  <1>2. PICK p \in Policies, n \in Endings :
          LET r == srtp_add_stream(memory, ctx[app], id, p, n)
          IN  setMemory(r.m) /\ ctx' = [ctx EXCEPT ![app] = r.c]
    BY DEF AddStream
  <1>3. UNCHANGED <<app, converter>>
    BY DEF AddStream
  <1> DEFINE r == srtp_add_stream(memory, ctx[app], id, p, n)
  <1>4. setMemory(r.m) /\ ctx' = [ctx EXCEPT ![app] = r.c]
    BY <1>2
  <1>5. app \in InUse
    BY <1>1 DEF InUse
  <1>6. /\ memory \in Memory /\ memory.heap = heap /\ memory.blame = blame
        /\ ctx[app] \in Context
    BY <1>5, MemoryTyped DEF SessionsInv
  <1>7. /\ id \in 1 .. MaxObjects /\ <<id, "str">> \notin heap
        /\ Own(id, StreamParts) \cap memory.heap = {}
        /\ (Live /\ "stale" \notin blame) => SoundContext(ctx[app]) /\ id \notin Ids(ctx[app])
    BY <1>1, <1>5, FreeNumber
  <1> HIDE DEF id
  <1>8. r.m \in Memory /\ r.c \in Context /\ memory.blame \subseteq r.m.blame
    BY <1>6, <1>7, AddStreamType
  <1>9. ASSUME Live, "stale" \notin blame PROVE Extends(memory, ctx[app], id, r.m, r.c)
    BY <1>6, <1>7, <1>9, AddStreamSound
  <1> HIDE DEF r
  <1>10. QED
    BY <1>3, <1>4, <1>5, <1>6, <1>7, <1>8, <1>9, ExtendsKeeps

LEMMA RemoveStreamStep == SessionsInv /\ RemoveStream => SessionsInv'
  <1> SUFFICES ASSUME SessionsInv, RemoveStream PROVE SessionsInv'
    OBVIOUS
  <1>1. app # 0 /\ UNCHANGED <<app, converter>>
    BY DEF RemoveStream
  <1>2. PICK ssrc \in SSRCs :
          LET r == srtp_remove_stream(memory, ctx[app], ssrc)
          IN  setMemory(r.m) /\ ctx' = [ctx EXCEPT ![app] = r.c]
    BY DEF RemoveStream
  <1> DEFINE r == srtp_remove_stream(memory, ctx[app], ssrc)
  <1>3. setMemory(r.m) /\ ctx' = [ctx EXCEPT ![app] = r.c]
    BY <1>2
  <1>4. app \in InUse /\ SessionsTyped
    BY <1>1 DEF InUse, SessionsInv
  <1>5. /\ memory \in Memory /\ memory.heap = heap /\ memory.blame = blame
        /\ memory.misused = misused
        /\ ctx[app] \in Context /\ InUse \in SUBSET (1 .. MaxObjects)
    BY <1>4, MemoryTyped
  <1>6. /\ r.m \in Memory /\ r.c \in Context /\ r.m.blame = memory.blame
        /\ (SoundContext(ctx[app]) /\ Objects(app, ctx[app]) \subseteq memory.heap)
             => /\ SoundContext(r.c) /\ Ids(r.c) \subseteq Ids(ctx[app])
                /\ r.m.misused = memory.misused
                /\ \E F : Takes(memory, ctx[app], app, r.m, r.c, F)
    BY <1>5, RemoveStreamSound
  <1> HIDE DEF r
  <1>7. /\ SessionsTyped' /\ heap' = r.m.heap /\ misused' = r.m.misused
        /\ blame' = r.m.blame /\ InUse' = InUse
    BY <1>1, <1>3, <1>4, <1>6, CallKeeps
  <1>8. CASE "stale" \in blame
    BY <1>5, <1>6, <1>7, <1>8 DEF SessionsInv
  <1>9. CASE "stale" \notin blame
    <2>1. Live
      BY <1>9 DEF SessionsInv
    <2>2. /\ Held(memory.heap, ctx, InUse) /\ ctx \in Sessions
          /\ SoundContext(ctx[app]) /\ Objects(app, ctx[app]) \subseteq memory.heap
      BY <1>4, <1>5, <2>1 DEF Live, Held, SessionsTyped
    <2>3. PICK F : Takes(memory, ctx[app], app, r.m, r.c, F)
      BY <1>6, <2>2
    <2>4. /\ Held(r.m.heap, ctx', InUse)
          /\ memory.heap \subseteq Reach(ctx, InUse) => r.m.heap \subseteq Reach(ctx', InUse)
      BY <1>3, <1>4, <1>5, <1>6, <2>2, <2>3, HeldTakes
    <2>5. Held(heap', ctx', InUse')
      BY <1>7, <2>4
    <2>6. misused' = misused
      BY <1>5, <1>6, <1>7, <2>2
    <2>7. Live'
      BY <1>1, <2>1, <2>5, <2>6 DEF Live
    <2>8. blame' = {} => heap' \subseteq Reach(ctx', InUse')
      BY <1>5, <1>6, <1>7, <2>4 DEF SessionsInv
    <2>9. QED
      BY <1>7, <2>7, <2>8 DEF SessionsInv
  <1>10. QED
    BY <1>8, <1>9

LEMMA PacketStep == SessionsInv /\ Packet => SessionsInv'
  <1> SUFFICES ASSUME SessionsInv, Packet PROVE SessionsInv'
    OBVIOUS
  <1>1. PICK s \in InUse, ssrc \in SSRCs, n \in 0 .. 2 :
          /\ \/ /\ <<s, "ctx">> \notin heap
                /\ misused' = TRUE
                /\ UNCHANGED <<heap, blame, ctx>>
             \/ /\ <<s, "ctx">> \in heap
                /\ ctx[s].stream_template # None /\ Fresh # {}
                /\ LET r == srtp_stream_clone(memory, ctx[s], Min(Fresh), ssrc, n)
                   IN  setMemory(r.m) /\ ctx' = [ctx EXCEPT ![s] = r.c]
          /\ UNCHANGED <<app, converter>>
    BY DEF Packet
  <1>2. SessionsTyped
    BY DEF SessionsInv
  <1>3. /\ memory \in Memory /\ memory.heap = heap /\ memory.blame = blame
        /\ ctx[s] \in Context
    BY <1>2, MemoryTyped
  <1>4. CASE <<s, "ctx">> \notin heap
    <2>1. misused' = TRUE /\ UNCHANGED <<heap, blame, ctx, app, converter>>
      BY <1>1, <1>4
    <2>2. ~Live
      <3> SUFFICES ASSUME Live PROVE FALSE
        OBVIOUS
      <3>1. Objects(s, ctx[s]) \subseteq heap
        BY DEF Live, Held
      <3>2. <<s, "ctx">> \in Own(s, {"ctx"})
        BY OwnIs
      <3>3. QED
        BY <1>4, <3>1, <3>2 DEF Objects
    <2>3. "stale" \in blame
      BY <2>2 DEF SessionsInv
    <2>4. SessionsTyped'
      BY <1>2, <2>1 DEF SessionsTyped
    <2>5. QED
      BY <2>1, <2>3, <2>4 DEF SessionsInv
  <1>5. CASE <<s, "ctx">> \in heap
    <2> DEFINE id == Min(Fresh)
               r == srtp_stream_clone(memory, ctx[s], id, ssrc, n)
    <2>1. /\ setMemory(r.m) /\ ctx' = [ctx EXCEPT ![s] = r.c]
          /\ ctx[s].stream_template # None /\ Fresh # {}
          /\ UNCHANGED <<app, converter>>
      BY <1>1, <1>5
    <2>2. /\ id \in 1 .. MaxObjects /\ <<id, "str">> \notin heap
          /\ Own(id, StreamParts) \cap memory.heap = {}
          /\ (Live /\ "stale" \notin blame) => SoundContext(ctx[s]) /\ id \notin Ids(ctx[s])
      BY <2>1, FreeNumber
    <2> HIDE DEF id
    <2>3. /\ r.m \in Memory /\ r.c \in Context /\ memory.blame \subseteq r.m.blame
          /\ "stale" \in r.m.blame => "stale" \in memory.blame
          /\ (Own(id, StreamParts) \cap memory.heap = {} /\ id \notin Ids(ctx[s])
              /\ SoundContext(ctx[s]) /\ ctx[s].stream_template # None)
               => Extends(memory, ctx[s], id, r.m, r.c)
      BY <1>3, <2>2, CloneType
    <2>4. ASSUME Live, "stale" \notin blame PROVE Extends(memory, ctx[s], id, r.m, r.c)
      BY <2>1, <2>2, <2>3, <2>4
    <2> HIDE DEF r
    <2>5. QED
      BY <1>3, <2>1, <2>2, <2>3, <2>4, ExtendsKeeps
  <1>6. QED
    BY <1>4, <1>5

LEMMA DeallocHeld ==
  ASSUME NEW m \in Memory, NEW x \in Sessions, NEW U \in SUBSET (1 .. MaxObjects),
         Held(m.heap, x, U), NEW s \in U
  PROVE  LET k == srtp_dealloc(m, s, x[s])
         IN  /\ k \in Memory /\ k.misused = m.misused /\ k.blame = m.blame
             /\ Held(k.heap, x, U \ {s})
             /\ m.heap \subseteq Reach(x, U) => k.heap \subseteq Reach(x, U \ {s})
  <1> DEFINE k == srtp_dealloc(m, s, x[s])
  <1>1. x[s] \in Context /\ SoundContext(x[s]) /\ Objects(s, x[s]) \subseteq m.heap
    BY DEF Held, Sessions
  <1>2. k \in Memory /\ k.blame = m.blame
    BY <1>1, DeallocType
  <1>3. k.heap = m.heap \ Objects(s, x[s]) /\ k.misused = m.misused
    BY <1>1, DeallocSound
  <1>4. /\ Held(m.heap \ Objects(s, x[s]), x, U \ {s})
        /\ m.heap \subseteq Reach(x, U)
             => m.heap \ Objects(s, x[s]) \subseteq Reach(x, U \ {s})
    BY HeldWithout
  <1> HIDE DEF k
  <1>5. QED
    BY <1>2, <1>3, <1>4 DEF k

LEMMA DeallocSessionStep == SessionsInv /\ DeallocSession => SessionsInv'
  <1> SUFFICES ASSUME SessionsInv, DeallocSession PROVE SessionsInv'
    OBVIOUS
  <1> DEFINE k == srtp_dealloc(memory, app, ctx[app])
  <1>1. /\ app # 0 /\ setMemory(k) /\ ctx' = [ctx EXCEPT ![app] = NoContext]
        /\ app' = 0 /\ converter' = converter
    BY DEF DeallocSession
  <1>2. SessionsTyped /\ app \in InUse
    BY <1>1 DEF SessionsInv, InUse
  <1>3. /\ memory \in Memory /\ memory.heap = heap /\ memory.blame = blame
        /\ memory.misused = misused
        /\ ctx[app] \in Context /\ InUse \in SUBSET (1 .. MaxObjects)
    BY <1>2, MemoryTyped
  <1>4. k \in Memory /\ k.blame = memory.blame
    BY <1>3, DeallocType
  <1>5. heap' = k.heap /\ misused' = k.misused /\ blame' = blame
    BY <1>1, <1>3, <1>4 DEF setMemory
  <1>6. SessionsTyped'
    <2>1. ctx' \in Sessions
      <3>1. NoContext \in Context
        BY NoneIs
      <3>2. QED
        BY <1>1, <1>2, <3>1 DEF SessionsTyped, Sessions
    <2>2. heap' \in SUBSET Object /\ misused' \in BOOLEAN /\ blame' \in SUBSET Blames
      BY <1>2, <1>4, <1>5 DEF Memory, SessionsTyped
    <2>3. QED
      BY <1>1, <1>2, <2>1, <2>2, SessionsAssumption DEF SessionsTyped
  <1>7. CASE "stale" \in blame
    BY <1>5, <1>6, <1>7 DEF SessionsInv
  <1>8. CASE "stale" \notin blame
    <2>1. Live
      BY <1>8 DEF SessionsInv
    <2>2. Held(memory.heap, ctx, InUse) /\ ctx \in Sessions
      BY <1>2, <1>3, <2>1 DEF Live, SessionsTyped
    <2>3. /\ k.misused = memory.misused
          /\ Held(k.heap, ctx, InUse \ {app})
          /\ memory.heap \subseteq Reach(ctx, InUse) => k.heap \subseteq Reach(ctx, InUse \ {app})
      BY <1>2, <1>3, <2>2, DeallocHeld
    <2> HIDE DEF k
    <2>4. InUse' = InUse \ {app}
      BY <1>1, <2>1 DEF InUse, Live
    <2>5. InUse \ {app} \in SUBSET (InUse \ {app}) /\ k.heap \subseteq k.heap
          /\ \A s \in InUse \ {app} : ctx'[s] = ctx[s]
      BY <1>1, <1>3, <2>2 DEF Sessions
    <2>6. /\ Held(k.heap, ctx', InUse \ {app})
          /\ Reach(ctx', InUse \ {app}) = Reach(ctx, InUse \ {app})
      BY <2>3, <2>5, HeldMore
    <2>7. Held(heap', ctx', InUse')
      BY <1>5, <2>4, <2>6
    <2>8. misused' = misused
      BY <1>3, <1>5, <2>3
    <2>9. Live'
      BY <1>1, <1>2, <2>1, <2>7, <2>8 DEF Live, SessionsTyped
    <2>10. blame' = {} => heap' \subseteq Reach(ctx', InUse')
      BY <1>3, <1>5, <2>3, <2>4, <2>6 DEF SessionsInv
    <2>11. QED
      BY <1>6, <2>9, <2>10 DEF SessionsInv
  <1>9. QED
    BY <1>7, <1>8

LEMMA DestroyStep == SessionsInv /\ Destroy => SessionsInv'
  <1> SUFFICES ASSUME SessionsInv, Destroy PROVE SessionsInv'
    OBVIOUS
  <1> DEFINE enc == converter.enc
             dec == converter.dec
             k == srtp_dealloc(memory, dec, ctx[dec])
             l == srtp_dealloc(k, enc, ctx[enc])
             own == {app} \ {0}
  <1>1. /\ converter.ready => setMemory(l)
        /\ ~converter.ready => UNCHANGED <<heap, misused, blame>>
        /\ ctx' = [id \in DOMAIN ctx |-> IF id = app THEN ctx[id] ELSE NoContext]
        /\ converter' = [ready |-> FALSE, enc |-> 0, dec |-> 0]
        /\ app' = app
    BY DEF Destroy
  <1>2. SessionsTyped
    BY DEF SessionsInv
  <1>3. /\ memory \in Memory /\ memory.heap = heap /\ memory.blame = blame
        /\ memory.misused = misused /\ InUse \in SUBSET (1 .. MaxObjects)
        /\ \A s \in InUse : ctx[s] \in Context
    BY <1>2, MemoryTyped
  <1>4. ctx' \in Sessions
    <2>1. NoContext \in Context
      BY NoneIs
    <2>2. ctx \in Sessions
      BY <1>2 DEF SessionsTyped
    <2>3. QED
      BY <1>1, <2>1, <2>2 DEF Sessions
  <1>5. InUse' = own /\ own \in SUBSET InUse /\ \A s \in own : ctx'[s] = ctx[s]
    <2>1. InUse' = own
      BY <1>1 DEF InUse
    <2>2. own \in SUBSET InUse
      BY DEF InUse
    <2>3. \A s \in own : s = app /\ s \in DOMAIN ctx
      BY <1>2, <1>3, <2>2 DEF SessionsTyped, Sessions
    <2>4. QED
      BY <1>1, <2>1, <2>2, <2>3
  <1>6. /\ app' \in 0 .. MaxObjects /\ converter'.ready = FALSE
        /\ converter' \in [ready : BOOLEAN, enc : 0 .. MaxObjects, dec : 0 .. MaxObjects]
    BY <1>1, <1>2, SessionsAssumption DEF SessionsTyped
  <1>7. CASE ~converter.ready
    <2>1. UNCHANGED <<heap, misused, blame>>
      BY <1>1, <1>7
    <2>2. SessionsTyped'
      BY <1>2, <1>4, <1>6, <2>1 DEF SessionsTyped
    <2>3. InUse = own
      BY <1>7 DEF InUse
    <2>4. Live => Live'
      <3> SUFFICES ASSUME Live PROVE Live'
        OBVIOUS
      <3>1. Held(heap, ctx, InUse) /\ heap \subseteq heap
        BY DEF Live
      <3>2. Held(heap, ctx', own)
        BY <1>5, <3>1, HeldMore
      <3>3. Held(heap', ctx', InUse')
        BY <1>5, <2>1, <3>2
      <3>4. QED
        BY <1>6, <2>1, <3>3 DEF Live
    <2>5. Reach(ctx', InUse') = Reach(ctx, InUse)
      BY <1>5, <2>3 DEF Reach
    <2>6. QED
      BY <2>1, <2>2, <2>4, <2>5 DEF SessionsInv
  <1>8. CASE converter.ready
    <2>1. enc \in InUse /\ dec \in InUse
      BY <1>8 DEF InUse
    <2>2. k \in Memory /\ k.blame = blame
      BY <1>3, <2>1, DeallocType
    <2>3. l \in Memory /\ l.blame = blame
      <3> HIDE DEF k
      <3>1. QED
        BY <1>3, <2>1, <2>2, DeallocType
    <2>4. heap' = l.heap /\ misused' = l.misused /\ blame' = blame
      BY <1>1, <1>8, <2>3 DEF setMemory
    <2>5. SessionsTyped'
      <3>1. heap' \in SUBSET Object /\ misused' \in BOOLEAN /\ blame' \in SUBSET Blames
        <4> HIDE DEF l
        <4>1. QED
          BY <1>2, <2>3, <2>4 DEF Memory, SessionsTyped
      <3>2. QED
        BY <1>4, <1>6, <3>1 DEF SessionsTyped
    <2>6. CASE "stale" \in blame
      BY <2>4, <2>5, <2>6 DEF SessionsInv
    <2>7. CASE "stale" \notin blame
      <3>1. Live
        BY <2>7 DEF SessionsInv
      <3>2. Held(memory.heap, ctx, InUse) /\ ctx \in Sessions /\ enc # dec
            /\ app \notin {enc, dec}
        BY <1>2, <1>3, <1>8, <3>1 DEF Live, SessionsTyped
      <3> DEFINE U == InUse \ {dec}
      <3>3. /\ k.misused = memory.misused /\ Held(k.heap, ctx, U)
            /\ memory.heap \subseteq Reach(ctx, InUse) => k.heap \subseteq Reach(ctx, U)
        BY <1>3, <2>1, <3>2, DeallocHeld
      <3>4. enc \in U /\ U \in SUBSET (1 .. MaxObjects)
        BY <1>3, <2>1, <3>2
      <3>5. U \ {enc} = own
        BY <1>8, <3>2 DEF InUse
      <3> HIDE DEF U, k
      <3>6. /\ l.misused = k.misused /\ Held(l.heap, ctx, U \ {enc})
            /\ k.heap \subseteq Reach(ctx, U) => l.heap \subseteq Reach(ctx, U \ {enc})
        BY <2>2, <3>2, <3>3, <3>4, DeallocHeld
      <3> HIDE DEF l
      <3>7. Held(l.heap, ctx, own)
        BY <3>5, <3>6
      <3>8. Held(l.heap, ctx', own) /\ Reach(ctx', own) = Reach(ctx, own)
        <4>1. own \in SUBSET own /\ l.heap \subseteq l.heap
          OBVIOUS
        <4> HIDE DEF own
        <4>2. QED
          BY <1>5, <3>7, <4>1, HeldMore
      <3>9. Held(heap', ctx', InUse')
        BY <1>5, <2>4, <3>8
      <3>10. misused' = misused
        BY <1>3, <2>4, <3>3, <3>6
      <3>11. Live'
        BY <1>6, <3>1, <3>9, <3>10 DEF Live
      <3>12. blame' = {} => heap' \subseteq Reach(ctx', InUse')
        BY <1>3, <1>5, <2>4, <3>3, <3>5, <3>6, <3>8 DEF SessionsInv
      <3>13. QED
        BY <2>5, <3>11, <3>12 DEF SessionsInv
    <2>8. QED
      BY <2>6, <2>7
  <1>9. QED
    BY <1>7, <1>8

LEMMA FreshSeqUnused ==
  ASSUME SessionsTyped, NEW k \in {1, 2}, Cardinality(Fresh) >= k
  PROVE  LET ids == FreshSeq(k)
         IN  /\ ids \in [1 .. k -> 1 .. MaxObjects] /\ IsInjective(ids)
             /\ \A j \in 1 .. k : /\ ids[j] \notin {app, converter.enc, converter.dec}
                                  /\ ids[j] \notin InUse /\ \A q : <<ids[j], q>> \notin heap
  <1> DEFINE ids == FreshSeq(k)
  <1>1. ids \in [1 .. k -> Fresh] /\ IsInjective(ids)
    BY FreshSeqIs
  <1> HIDE DEF ids
  <1>2. \A j \in 1 .. k : /\ ids[j] \in 1 .. MaxObjects
                          /\ ids[j] \notin {app, converter.enc, converter.dec}
                          /\ \A q : <<ids[j], q>> \notin heap
    BY <1>1, FreshIs
  <1>3. \A x : x \notin {app, converter.enc, converter.dec} => x \notin InUse
    BY DEF InUse
  <1>4. ids \in [1 .. k -> 1 .. MaxObjects]
    BY <1>1, <1>2
  <1>5. QED
    BY <1>1, <1>2, <1>3, <1>4 DEF ids

LEMMA CreateSessionStep == SessionsInv /\ CreateSession => SessionsInv'
  <1> SUFFICES ASSUME SessionsInv, CreateSession PROVE SessionsInv'
    OBVIOUS
  <1>1. app = 0 /\ converter' = converter
    BY DEF CreateSession
  <1>2. PICK policies \in {<<p>> : p \in Policies} \cup (Policies \X Policies) :
          \E n \in {Stages * (Len(policies) - 1) + e : e \in Endings} :
            /\ Cardinality(Fresh) >= Len(policies)
            /\ Created(FreshSeq(Len(policies)),
                       srtp_create(memory, FreshSeq(Len(policies)), policies, n))
    BY DEF CreateSession
  <1> DEFINE k == Len(policies)
             ids == FreshSeq(k)
  <1>3. PICK n : /\ Cardinality(Fresh) >= k
                 /\ Created(ids, srtp_create(memory, ids, policies, n))
    BY <1>2
  <1>4. policies \in Seq(Policies) /\ k \in {1, 2}
    <2>1. CASE policies \in {<<p>> : p \in Policies}
      <3>1. PICK p \in Policies : policies = <<p>>
        BY <2>1
      <3>2. <<p>> \in Seq(Policies) /\ Len(<<p>>) = 1
        OBVIOUS
      <3>3. QED
        BY <3>1, <3>2
    <2>2. CASE policies \in Policies \X Policies
      <3>1. PICK p \in Policies, q \in Policies : policies = <<p, q>>
        BY <2>2
      <3>2. QED
        BY <3>1
    <2>3. QED
      BY <2>1, <2>2
  <1>5. SessionsTyped
    BY DEF SessionsInv
  <1>6. /\ memory \in Memory /\ memory.heap = heap /\ memory.blame = blame
        /\ memory.misused = misused /\ InUse \in SUBSET (1 .. MaxObjects)
        /\ \A s \in InUse : ctx[s] \in Context
    BY <1>5, MemoryTyped
  <1> HIDE DEF k
  <1>7. /\ ids \in [1 .. k -> 1 .. MaxObjects] /\ IsInjective(ids)
        /\ \A j \in 1 .. k : /\ ids[j] \notin {app, converter.enc, converter.dec}
                             /\ ids[j] \notin InUse /\ \A q : <<ids[j], q>> \notin heap
    BY <1>3, <1>4, <1>5, FreshSeqUnused
  <1> HIDE DEF ids
  <1>8. DOMAIN ids = 1 .. k /\ 1 \in 1 .. k
    BY <1>4, <1>7
  <1>9. Unused(memory, ids)
    BY <1>6, <1>7, <1>8 DEF Unused
  <1> DEFINE r == srtp_create(memory, ids, policies, n)
             one == ids[1]
  <1>10. SoundlyCreated(memory, ids, r)
    <2>1. /\ policies \in Seq(Policies) /\ Len(policies) >= 1
          /\ ids \in [1 .. Len(policies) -> 1 .. MaxObjects]
      BY <1>4, <1>7 DEF k
    <2>2. QED
      BY <1>6, <1>7, <1>9, <2>1, CreateSound
  <1>11. Created(ids, r)
    BY <1>3
  <1> HIDE DEF r
  <1>12. /\ r.status \in {"ok", "fail"} /\ r.m \in Memory /\ r.c \in Context
         /\ r.m.misused = misused /\ blame \subseteq r.m.blame
         /\ "stale" \in r.m.blame => "stale" \in blame
         /\ heap \subseteq r.m.heap
         /\ r.status = "ok" =>
              /\ SoundContext(r.c) /\ Objects(one, r.c) \subseteq r.m.heap
              /\ \A id \in Ids(r.c) : \E j \in DOMAIN ids : id = ids[j]
              /\ r.m.blame = {} => r.m.heap \subseteq heap \cup Objects(one, r.c)
         /\ r.status # "ok" => (r.m.blame = {} => r.m.heap \subseteq heap)
    BY <1>6, <1>10 DEF SoundlyCreated
  <1>13. /\ heap' = r.m.heap /\ misused' = misused /\ blame' = r.m.blame
         /\ heap' \in SUBSET Object /\ misused' \in BOOLEAN /\ blame' \in SUBSET Blames
    BY <1>11, <1>12 DEF Created, setMemory, Memory
  <1>14. one \in 1 .. MaxObjects /\ one \notin {app, converter.enc, converter.dec}
         /\ one \notin InUse
    BY <1>7, <1>8
  <1>15. CASE r.status = "ok"
    <2>1. app' = one /\ ctx' = [ctx EXCEPT ![one] = r.c]
      BY <1>11, <1>15 DEF Created
    <2> HIDE DEF one
    <2>2. /\ ctx' \in Sessions /\ ctx'[one] = r.c
          /\ \A s \in InUse : ctx'[s] = ctx[s]
      BY <1>5, <1>6, <1>12, <1>14, <2>1 DEF SessionsTyped, Sessions
    <2>3. SessionsTyped'
      BY <1>1, <1>5, <1>13, <1>14, <2>1, <2>2 DEF SessionsTyped
    <2>4. InUse' = InUse \cup {one}
      BY <1>1, <1>14, <2>1 DEF InUse
    <2>5. ASSUME Live
          PROVE  /\ Held(heap', ctx', InUse')
                 /\ \A X : X \subseteq Reach(ctx, InUse) \cup Objects(one, r.c)
                           => X \subseteq Reach(ctx', InUse')
      <3>1. Held(heap, ctx, InUse) /\ ctx \in Sessions
        BY <1>5, <2>5 DEF Live, SessionsTyped
      <3>2. \A i \in Ids(r.c) : <<i, "str">> \notin heap
        BY <1>7, <1>8, <1>12, <1>15
      <3>3. /\ heap \subseteq r.m.heap /\ SoundContext(r.c) /\ r.c \in Context
            /\ Objects(one, r.c) \subseteq r.m.heap
        BY <1>12, <1>15
      <3>4. /\ Held(r.m.heap, ctx', InUse \cup {one})
            /\ \A X : X \subseteq Reach(ctx, InUse) \cup Objects(one, ctx'[one])
                      => X \subseteq Reach(ctx', InUse \cup {one})
        <4> DEFINE y == ctx'
                   g == r.m.heap
        <4>1. /\ heap \subseteq g /\ ctx \in Sessions
              /\ InUse \in SUBSET (1 .. MaxObjects) /\ one \notin InUse
              /\ Held(heap, ctx, InUse) /\ \A s \in InUse : y[s] = ctx[s]
              /\ y[one] \in Context /\ SoundContext(y[one])
              /\ Objects(one, y[one]) \subseteq g
              /\ \A i \in Ids(y[one]) : <<i, "str">> \notin heap
          BY <1>6, <1>14, <2>2, <3>1, <3>2, <3>3
        <4> HIDE DEF y, g
        <4>2. /\ Held(g, y, InUse \cup {one})
              /\ \A X : X \subseteq Reach(ctx, InUse) \cup Objects(one, y[one])
                        => X \subseteq Reach(y, InUse \cup {one})
          <5>1. Joins(heap, g, ctx, y, InUse, one)
            BY <4>1, Zenon DEF Joins
          <5>2. QED
            BY <5>1, HeldNew
        <4>3. QED
          BY <4>2 DEF y, g
      <3>5. QED
        BY <1>13, <2>2, <2>4, <3>4
    <2>6. Live => Live'
      <3> SUFFICES ASSUME Live PROVE Live'
        OBVIOUS
      <3>1. Held(heap', ctx', InUse')
        BY <2>5
      <3>2. QED
        BY <1>1, <1>13, <1>14, <2>1, <3>1 DEF Live
    <2>7. "stale" \notin blame' => Live'
      BY <1>12, <1>13, <2>6 DEF SessionsInv
    <2>8. blame' = {} => heap' \subseteq Reach(ctx', InUse')
      <3> SUFFICES ASSUME blame' = {} PROVE heap' \subseteq Reach(ctx', InUse')
        OBVIOUS
      <3>1. blame = {} /\ r.m.blame = {}
        BY <1>12, <1>13
      <3>2. Live /\ heap \subseteq Reach(ctx, InUse)
        BY <3>1 DEF SessionsInv
      <3>3. \A X : X \subseteq Reach(ctx, InUse) \cup Objects(one, r.c)
                     => X \subseteq Reach(ctx', InUse')
        BY <2>5, <3>2
      <3>4. QED
        BY <1>12, <1>13, <1>15, <3>1, <3>2, <3>3
    <2>9. QED
      BY <2>3, <2>7, <2>8 DEF SessionsInv
  <1>16. CASE r.status # "ok"
    <2>1. app' = app /\ ctx' = ctx
      BY <1>11, <1>16 DEF Created
    <2>2. SessionsTyped' /\ InUse' = InUse
      BY <1>1, <1>5, <1>13, <2>1 DEF SessionsTyped, InUse
    <2>3. Live => Live'
      <3> SUFFICES ASSUME Live PROVE Live'
        OBVIOUS
      <3>1. Held(heap, ctx, InUse) /\ heap \subseteq r.m.heap /\ InUse \in SUBSET InUse
        BY <1>12 DEF Live
      <3>2. Held(r.m.heap, ctx, InUse)
        BY <3>1, HeldMore
      <3>3. Held(heap', ctx', InUse')
        BY <1>13, <2>1, <2>2, <3>2
      <3>4. QED
        BY <1>1, <1>13, <2>1, <3>3 DEF Live
    <2>4. "stale" \notin blame' => Live'
      BY <1>12, <1>13, <2>3 DEF SessionsInv
    <2>5. blame' = {} => heap' \subseteq Reach(ctx', InUse')
      BY <1>12, <1>13, <1>16, <2>1, <2>2 DEF SessionsInv
    <2>6. QED
      BY <2>2, <2>4, <2>5 DEF SessionsInv
  <1>17. QED
    BY <1>15, <1>16

-----------------------------------------------------------------------------
(* RTPConverter::init.                                                     *)

\* What it is to start the session id, or not to.
Starts(m, id, n, e) ==
  /\ e.status \in {"ok", "fail"} /\ e.m \in Memory
  /\ e.m.misused = m.misused /\ m.blame \subseteq e.m.blame
  /\ "stale" \in e.m.blame => "stale" \in m.blame
  /\ m.heap \subseteq e.m.heap
  /\ \A o \in e.m.heap : o \in m.heap \/ \E p \in StreamParts \cup {"ctx"} : o = <<id, p>>
  /\ e.status = "ok" =>
       /\ n >= 0 /\ e.c \in Context
       /\ SoundContext(e.c) /\ Objects(id, e.c) \subseteq e.m.heap
       /\ \A i \in Ids(e.c) : i = id
       /\ e.m.blame = {} => e.m.heap \subseteq m.heap \cup Objects(id, e.c)
  /\ e.status # "ok" => (e.m.blame = {} => e.m.heap \subseteq m.heap)

LEMMA StartedIs ==
  ASSUME NEW m \in Memory, NEW id \in 1 .. MaxObjects, \A q : <<id, q>> \notin m.heap,
         NEW n \in Int
  PROVE  Starts(m, id, n, started(m, id, n))
  <1> DEFINE e == started(m, id, n)
             ids == <<id>>
  <1>1. CASE n < 0
    <2>1. e = [status |-> "fail", m |-> m]
      BY <1>1 DEF started
    <2>2. e.status = "fail" /\ e.m = m
      BY <2>1
    <2> HIDE DEF e
    <2>3. Starts(m, id, n, e)
      BY <2>2 DEF Starts
    <2>4. QED
      BY <2>3 DEF e
  <1>2. CASE ~(n < 0)
    <2>1. Template \in Policies
      BY DEF Template, Policies
    <2>2. <<Template>> \in Seq(Policies) /\ Len(<<Template>>) = 1
      BY <2>1
    <2>3. ids \in [1 .. 1 -> 1 .. MaxObjects] /\ DOMAIN ids = {1} /\ ids[1] = id
      OBVIOUS
    <2> HIDE DEF ids
    <2>4. IsInjective(ids)
      BY <2>3 DEF IsInjective
    <2>5. Unused(m, ids)
      BY <2>3 DEF Unused
    <2>6. e = srtp_create(m, ids, <<Template>>, n)
      BY <1>2 DEF started, ids
    <2>7. SoundlyCreated(m, ids, e)
      <3> DEFINE ps == <<Template>>
      <3>1. ps \in Seq(Policies) /\ Len(ps) >= 1 /\ ids \in [1 .. Len(ps) -> 1 .. MaxObjects]
        BY <2>2, <2>3
      <3> HIDE DEF ps
      <3>2. SoundlyCreated(m, ids, srtp_create(m, ids, ps, n))
        BY <2>4, <2>5, <3>1, CreateSound
      <3>3. QED
        BY <2>6, <3>2 DEF ps
    <2> HIDE DEF e
    <2>8. Starts(m, id, n, e)
      BY <1>2, <2>3, <2>7 DEF SoundlyCreated, Starts
    <2>9. QED
      BY <2>8 DEF e
  <1>3. QED
    BY <1>1, <1>2

LEMMA LeavesAre ==
  ASSUME NEW encStarted \in BOOLEAN, NEW enc \in BOOLEAN,
         NEW decStarted \in BOOLEAN, NEW dec \in BOOLEAN
  PROVE  LET left == initLeaves(encStarted, enc, decStarted, dec)
         IN  /\ left \in SUBSET Blames
             /\ converter.ready /\ encStarted => "second init" \in left
             /\ ~converter.ready /\ enc /\ ~dec => "half an init" \in left
             /\ converter.ready /\ encStarted /\ ~enc => "stale" \in left
             /\ converter.ready /\ decStarted /\ ~dec => "stale" \in left
  <1> DEFINE left == initLeaves(encStarted, enc, decStarted, dec)
             C(what) == CASE what = "second init"  -> converter.ready /\ encStarted
                          [] what = "half an init" -> ~converter.ready /\ enc /\ ~dec
                          [] what = "stale"        -> /\ converter.ready
                                                      /\ \/ encStarted /\ ~enc
                                                         \/ decStarted /\ ~dec
  <1>1. left = {what \in {"second init", "half an init", "stale"} : C(what)}
    BY DEF initLeaves
  <1>2. "second init" # "half an init" /\ "second init" # "stale" /\ "half an init" # "stale"
    OBVIOUS
  <1>3. /\ C("second init") = (converter.ready /\ encStarted)
        /\ C("half an init") = (~converter.ready /\ enc /\ ~dec)
        /\ C("stale") = (/\ converter.ready
                         /\ \/ encStarted /\ ~enc
                            \/ decStarted /\ ~dec)
    BY <1>2, Zenon
  <1> HIDE DEF C, left
  <1>4. left \in SUBSET Blames
    BY <1>1 DEF Blames
  <1>5. /\ C("second init") => "second init" \in left
        /\ C("half an init") => "half an init" \in left
        /\ C("stale") => "stale" \in left
    BY <1>1
  <1>6. QED
    BY <1>3, <1>4, <1>5, Zenon DEF left

\* Two numbers that are free.
TwoFree(a, b) ==
  /\ a \in 1 .. MaxObjects /\ b \in 1 .. MaxObjects /\ a # b
  /\ \A x \in {a, b} : /\ x \notin {app, converter.enc, converter.dec}
                       /\ \A q : <<x, q>> \notin heap

\* What InitLeft does to the pointers, the contexts and the memory.
LEMMA InitLeftIs ==
  ASSUME SessionsTyped, NEW ids, TwoFree(ids[1], ids[2]), NEW n \in Int, NEW k \in Int,
         NEW e, NEW d, d.m \in Memory,
         e.status = "ok" => e.c \in Context /\ n >= 0,
         d.status = "ok" => d.c \in Context /\ k >= 0, d.status = "ok" => e.status = "ok",
         InitLeft(ids, n, k, e, d), app' = app
  PROVE  /\ SessionsTyped'
         /\ heap' = d.m.heap /\ misused' = d.m.misused /\ d.m.blame \subseteq blame'
         /\ "stale" \in d.m.blame => "stale" \in blame'
         /\ converter'.ready = (converter.ready \/ d.status = "ok")
         /\ converter'.enc = IF n < 0 THEN converter.enc ELSE ids[1]
         /\ converter'.dec = IF k < 0 \/ e.status # "ok" THEN converter.dec ELSE ids[2]
         /\ e.status = "ok" => ctx'[ids[1]] = e.c
         /\ d.status = "ok" => ctx'[ids[2]] = d.c
         /\ \A s \in {app, converter'.enc, converter'.dec} \cap (1 .. MaxObjects) :
              s \notin {ids[1], ids[2]} => ctx'[s] = ctx[s]
         /\ converter.ready /\ n >= 0 => blame' # {}
         /\ ~converter.ready /\ e.status = "ok" /\ d.status # "ok" => blame' # {}
         /\ converter.ready /\ n >= 0 /\ e.status # "ok" => "stale" \in blame'
         /\ converter.ready /\ e.status = "ok" /\ k >= 0 /\ d.status # "ok"
              => "stale" \in blame'
  <1> DEFINE a == ids[1]
             b == ids[2]
             encOk == e.status = "ok"
             decOk == d.status = "ok"
             left == initLeaves(n >= 0, encOk, encOk /\ k >= 0, decOk)
             enc == IF n < 0 THEN converter.enc ELSE a
             dec == IF k < 0 \/ ~encOk THEN converter.dec ELSE b
             ready == converter.ready \/ decOk
             v == IF encOk THEN e.c ELSE NoContext
             w == IF decOk THEN d.c ELSE NoContext
             y == [id \in DOMAIN ctx |-> IF id \in {app, enc, dec} THEN ctx[id] ELSE NoContext]
             M == [d.m EXCEPT !.blame = @ \cup left]
  <1>1. /\ setMemory(M)
        /\ converter' = [ready |-> ready, enc |-> enc, dec |-> dec]
        /\ ctx' = [y EXCEPT ![a] = v, ![b] = w]
    BY DEF InitLeft
  <1>2. /\ left \in SUBSET Blames
        /\ converter.ready /\ n >= 0 => "second init" \in left
        /\ ~converter.ready /\ encOk /\ ~decOk => "half an init" \in left
        /\ converter.ready /\ n >= 0 /\ ~encOk => "stale" \in left
        /\ converter.ready /\ (encOk /\ k >= 0) /\ ~decOk => "stale" \in left
    <2>1. (n >= 0) \in BOOLEAN /\ encOk \in BOOLEAN /\ (encOk /\ k >= 0) \in BOOLEAN
          /\ decOk \in BOOLEAN
      OBVIOUS
    <2>2. QED
      BY <2>1, LeavesAre
  <1>3. /\ a \in 1 .. MaxObjects /\ b \in 1 .. MaxObjects /\ a # b
    BY DEF TwoFree
  <1>4. /\ enc \in 0 .. MaxObjects /\ dec \in 0 .. MaxObjects /\ ready \in BOOLEAN
        /\ ready => enc # 0 /\ dec # 0
    <2>1. /\ converter.enc \in 0 .. MaxObjects /\ converter.dec \in 0 .. MaxObjects
          /\ converter.ready \in BOOLEAN
          /\ converter.ready => converter.enc # 0 /\ converter.dec # 0
      BY DEF SessionsTyped
    <2>2. a # 0 /\ b # 0 /\ a \in 0 .. MaxObjects /\ b \in 0 .. MaxObjects
      BY <1>3
    <2>3. enc \in 0 .. MaxObjects /\ dec \in 0 .. MaxObjects
      <3> HIDE DEF a, b
      <3>1. QED
        BY <2>1, <2>2
    <2>4. ready \in BOOLEAN
      BY <2>1
    <2>5. converter.ready => enc # 0 /\ dec # 0
      <3> HIDE DEF a, b
      <3>1. QED
        BY <2>1, <2>2
    <2>6. decOk => enc = a /\ dec = b
      OBVIOUS
    <2>7. QED
      BY <2>2, <2>3, <2>4, <2>5, <2>6
  <1> HIDE DEF left, a, b
  <1>5. /\ heap' = d.m.heap /\ misused' = d.m.misused /\ blame' = d.m.blame \cup left
        /\ heap' \in SUBSET Object /\ misused' \in BOOLEAN /\ blame' \in SUBSET Blames
    <2>1. /\ M.heap = d.m.heap /\ M.misused = d.m.misused /\ M.blame = d.m.blame \cup left
      BY DEF Memory
    <2>2. d.m.heap \in SUBSET Object /\ d.m.misused \in BOOLEAN /\ d.m.blame \in SUBSET Blames
      BY DEF Memory
    <2> HIDE DEF M
    <2>3. QED
      BY <1>1, <1>2, <2>1, <2>2 DEF setMemory
  <1>6. v \in Context /\ w \in Context /\ NoContext \in Context
    BY NoneIs
  <1> HIDE DEF enc, dec, ready, v, w, M
  <1>7. /\ converter'.ready = ready /\ converter'.enc = enc /\ converter'.dec = dec
        /\ converter' \in [ready : BOOLEAN, enc : 0 .. MaxObjects, dec : 0 .. MaxObjects]
    BY <1>1, <1>4
  <1>8. /\ y \in Sessions
        /\ \A s \in {app, enc, dec} \cap (1 .. MaxObjects) : y[s] = ctx[s]
    <2>1. ctx \in Sessions
      BY DEF SessionsTyped
    <2>2. QED
      BY <1>6, <2>1 DEF Sessions
  <1> HIDE DEF y
  <1>9. /\ ctx' \in Sessions /\ ctx'[a] = v /\ ctx'[b] = w
        /\ \A s \in 1 .. MaxObjects : s \notin {a, b} => ctx'[s] = y[s]
    BY <1>1, <1>3, <1>6, <1>8 DEF Sessions
  <1>10. SessionsTyped'
    <2>1. app' \in 0 .. MaxObjects
      BY DEF SessionsTyped
    <2>2. QED
      BY <1>4, <1>5, <1>7, <1>9, <2>1 DEF SessionsTyped
  <1>11. \A s \in {app, converter'.enc, converter'.dec} \cap (1 .. MaxObjects) :
           s \notin {a, b} => ctx'[s] = ctx[s]
    BY <1>7, <1>8, <1>9
  <1>12. /\ encOk => ctx'[a] = e.c
         /\ decOk => ctx'[b] = d.c
    BY <1>9 DEF v, w
  <1>13. /\ converter.ready /\ n >= 0 => blame' # {}
         /\ ~converter.ready /\ encOk /\ ~decOk => blame' # {}
         /\ converter.ready /\ n >= 0 /\ ~encOk => "stale" \in blame'
         /\ converter.ready /\ encOk /\ k >= 0 /\ ~decOk => "stale" \in blame'
    BY <1>2, <1>5
  <1>14. d.m.blame \subseteq blame' /\ ("stale" \in d.m.blame => "stale" \in blame')
    BY <1>5
  <1>15. /\ converter'.enc = IF n < 0 THEN converter.enc ELSE a
         /\ converter'.dec = IF k < 0 \/ ~encOk THEN converter.dec ELSE b
         /\ converter'.ready = (converter.ready \/ decOk)
    BY <1>7 DEF enc, dec, ready
  <1>16. QED
    BY <1>5, <1>10, <1>11, <1>12, <1>13, <1>14, <1>15 DEF a, b

LEMMA InitLeftKeeps ==
  ASSUME SessionsInv, NEW ids, TwoFree(ids[1], ids[2]), NEW n \in Int, NEW k \in Int,
         NEW e, NEW d, Starts(memory, ids[1], n, e),
         e.status = "ok" => Starts(e.m, ids[2], k, d),
         e.status # "ok" => d.status = "fail" /\ d.m = e.m,
         InitLeft(ids, n, k, e, d), app' = app
  PROVE  SessionsInv'
  <1> DEFINE a == ids[1]
             b == ids[2]
             encOk == e.status = "ok"
             decOk == d.status = "ok"
             own == {app} \ {0}
  <1>1. SessionsTyped
    BY DEF SessionsInv
  <1>2. /\ memory.heap = heap /\ memory.blame = blame /\ memory.misused = misused
        /\ InUse \in SUBSET (1 .. MaxObjects)
    BY <1>1, MemoryTyped
  <1>3. /\ a \in 1 .. MaxObjects /\ b \in 1 .. MaxObjects /\ a # b
        /\ a \notin {app, converter.enc, converter.dec}
        /\ b \notin {app, converter.enc, converter.dec}
        /\ \A q : <<a, q>> \notin heap /\ <<b, q>> \notin heap
    BY DEF TwoFree
  <1>4. /\ e.m \in Memory /\ e.m.misused = misused /\ blame \subseteq e.m.blame
        /\ "stale" \in e.m.blame => "stale" \in blame
        /\ heap \subseteq e.m.heap
        /\ \A o \in e.m.heap : o \in heap \/ \E p \in StreamParts \cup {"ctx"} : o = <<a, p>>
        /\ encOk => /\ n >= 0 /\ e.c \in Context
                    /\ SoundContext(e.c) /\ Objects(a, e.c) \subseteq e.m.heap
                    /\ \A i \in Ids(e.c) : i = a
                    /\ e.m.blame = {} => e.m.heap \subseteq heap \cup Objects(a, e.c)
        /\ ~encOk => (e.m.blame = {} => e.m.heap \subseteq heap)
    BY <1>2 DEF Starts
  <1>5. encOk => /\ d.status \in {"ok", "fail"} /\ d.m \in Memory
                 /\ d.m.misused = misused /\ e.m.blame \subseteq d.m.blame
                 /\ e.m.heap \subseteq d.m.heap
                 /\ decOk => /\ k >= 0 /\ d.c \in Context
                             /\ SoundContext(d.c) /\ Objects(b, d.c) \subseteq d.m.heap
                             /\ \A i \in Ids(d.c) : i = b
                             /\ d.m.blame = {} => d.m.heap \subseteq e.m.heap \cup Objects(b, d.c)
    BY <1>4 DEF Starts
  <1>6. /\ d.m \in Memory /\ d.m.misused = misused /\ blame \subseteq d.m.blame
        /\ heap \subseteq d.m.heap /\ (decOk => encOk)
    <2>1. CASE encOk
      BY <1>4, <1>5, <2>1
    <2>2. CASE ~encOk
      <3>1. d.status = "fail" /\ d.m = e.m
        BY <2>2
      <3>2. QED
        BY <1>4, <3>1
    <2>3. QED
      BY <2>1, <2>2
  <1>7. /\ SessionsTyped'
        /\ heap' = d.m.heap /\ misused' = d.m.misused /\ d.m.blame \subseteq blame'
        /\ converter'.ready = (converter.ready \/ decOk)
        /\ converter'.enc = IF n < 0 THEN converter.enc ELSE a
        /\ converter'.dec = IF k < 0 \/ ~encOk THEN converter.dec ELSE b
        /\ encOk => ctx'[a] = e.c
        /\ decOk => ctx'[b] = d.c
        /\ \A s \in {app, converter'.enc, converter'.dec} \cap (1 .. MaxObjects) :
             s \notin {a, b} => ctx'[s] = ctx[s]
        /\ converter.ready /\ n >= 0 => blame' # {}
        /\ ~converter.ready /\ encOk /\ ~decOk => blame' # {}
        /\ converter.ready /\ n >= 0 /\ ~encOk => "stale" \in blame'
        /\ converter.ready /\ encOk /\ k >= 0 /\ ~decOk => "stale" \in blame'
    <2>1. /\ encOk => e.c \in Context /\ n >= 0
          /\ decOk => d.c \in Context /\ k >= 0
      BY <1>4, <1>5, <1>6
    <2>2. QED
      BY <1>1, <1>6, <2>1, InitLeftIs
  <1> HIDE DEF a, b
  <1>8. /\ own \in SUBSET InUse
        /\ converter.ready => InUse = own \cup {converter.enc, converter.dec}
        /\ ~converter.ready => InUse = own
        /\ InUse' = own \cup (IF converter'.ready THEN {converter'.enc, converter'.dec} ELSE {})
        /\ \A s \in own : s = app
    BY DEF InUse
  <1> HIDE DEF encOk, decOk, own
  <1>9. heap \subseteq heap' /\ misused' = misused /\ blame \subseteq blame'
    BY <1>6, <1>7
  <1>10. blame' = {} => heap \subseteq Reach(ctx, InUse)
    BY <1>9 DEF SessionsInv
  <1> SUFFICES ASSUME "stale" \notin blame'
               PROVE  Live' /\ (blame' = {} => heap' \subseteq Reach(ctx', InUse'))
    BY <1>7, Zenon DEF SessionsInv
  <1>11. Live
    BY <1>9 DEF SessionsInv
  <1>12. /\ Held(heap, ctx, InUse) /\ ~misused /\ ctx \in Sessions
         /\ converter.ready => /\ converter.enc # converter.dec
                               /\ app \notin {converter.enc, converter.dec}
    BY <1>1, <1>11 DEF Live, SessionsTyped
  <1>13. \A s \in own : ctx'[s] = ctx[s]
    BY <1>2, <1>3, <1>7, <1>8
  \* Neither is started, or only the first.
  <1>14. CASE converter'.ready = FALSE
    <2>1. ~converter.ready /\ ~decOk
      BY <1>1, <1>7, <1>14 DEF SessionsTyped
    <2>2. InUse' = own /\ InUse = own
      BY <1>8, <1>14, <2>1
    <2>3. Held(heap', ctx', own) /\ Reach(ctx', own) = Reach(ctx, own)
      BY <1>9, <1>12, <1>13, <2>2, HeldMore
    <2>4. Live'
      BY <1>9, <1>12, <1>14, <2>2, <2>3 DEF Live
    <2>5. blame' = {} => heap' \subseteq heap
      <3> SUFFICES ASSUME blame' = {} PROVE heap' \subseteq heap
        OBVIOUS
      <3>1. ~encOk
        BY <1>7, <2>1
      <3>2. d.m = e.m /\ e.m.blame = {}
        BY <1>6, <1>7, <3>1 DEF encOk
      <3>3. QED
        BY <1>4, <1>7, <3>1, <3>2
    <2>6. QED
      BY <1>10, <2>2, <2>3, <2>4, <2>5
  <1>15. CASE converter'.ready = TRUE /\ ~encOk
    <2>1. converter.ready /\ ~decOk /\ n < 0
      BY <1>1, <1>6, <1>7, <1>15 DEF SessionsTyped
    <2>2. converter'.enc = converter.enc /\ converter'.dec = converter.dec
      BY <1>7, <1>15, <2>1
    <2>3. InUse' = InUse
      BY <1>8, <1>15, <2>1, <2>2
    <2>4. \A s \in InUse : ctx'[s] = ctx[s]
      BY <1>2, <1>3, <1>7, <1>8, <2>1, <2>2
    <2>5. Held(heap', ctx', InUse) /\ Reach(ctx', InUse) = Reach(ctx, InUse)
      <3>1. InUse \in SUBSET InUse
        OBVIOUS
      <3>2. QED
        BY <1>9, <1>12, <2>4, <3>1, HeldMore
    <2>6. Live'
      <3>1. Held(heap', ctx', InUse')
        BY <2>3, <2>5
      <3>2. misused' = FALSE
        BY <1>1, <1>9, <1>12 DEF SessionsTyped
      <3>3. /\ converter'.enc # converter'.dec
            /\ app' \notin {converter'.enc, converter'.dec}
        BY <1>12, <2>1, <2>2
      <3>4. QED
        BY <3>1, <3>2, <3>3 DEF Live
    <2>7. blame' = {} => heap' \subseteq heap
      <3> SUFFICES ASSUME blame' = {} PROVE heap' \subseteq heap
        OBVIOUS
      <3>1. d.m = e.m /\ e.m.blame = {}
        BY <1>6, <1>7, <1>15 DEF encOk
      <3>2. QED
        BY <1>4, <1>7, <1>15, <3>1
    <2>8. QED
      BY <1>10, <2>3, <2>5, <2>6, <2>7
  <1>16. CASE converter'.ready = TRUE /\ encOk /\ ~decOk
    <2> DEFINE V == own \cup {converter.dec}
    <2>1. converter.ready /\ n >= 0 /\ k < 0
      <3>1. converter.ready \in BOOLEAN
        BY <1>1 DEF SessionsTyped
      <3>2. converter.ready
        BY <1>7, <1>16, <3>1
      <3>3. n >= 0
        BY <1>4, <1>16
      <3>4. ~(k >= 0)
        BY <1>7, <1>16, <3>2
      <3>5. QED
        BY <3>2, <3>3, <3>4
    <2>2. converter'.enc = a /\ converter'.dec = converter.dec /\ blame' # {}
      BY <1>7, <1>16, <2>1
    <2>3. V \in SUBSET InUse /\ InUse' = V \cup {a}
      BY <1>8, <1>16, <2>1, <2>2
    <2>4. \A s \in V : ctx'[s] = ctx[s]
      BY <1>2, <1>3, <1>7, <1>8, <2>2, <2>3
    <2>5. a \notin V /\ V \in SUBSET (1 .. MaxObjects)
      BY <1>2, <1>3, <1>8, <2>3
    <2> DEFINE y == ctx'
               g == heap'
    <2>6. Joins(heap, g, ctx, y, V, a)
      <3>1. Held(heap, ctx, V)
        <4>1. heap \subseteq heap
          OBVIOUS
        <4> HIDE DEF V
        <4>2. QED
          BY <1>12, <2>3, <4>1, HeldMore
      <3>2. y[a] \in Context /\ SoundContext(y[a]) /\ Objects(a, y[a]) \subseteq g
            /\ \A i \in Ids(y[a]) : <<i, "str">> \notin heap
        BY <1>3, <1>4, <1>5, <1>7, <1>16
      <3> HIDE DEF V
      <3>3. QED
        BY <1>9, <1>12, <2>4, <2>5, <3>1, <3>2 DEF Joins
    <2>7. Held(g, y, V \cup {a})
      <3> HIDE DEF y, g, V
      <3>1. QED
        BY <2>6, HeldNew
    <2>8. Live'
      BY <1>3, <1>9, <1>12, <2>1, <2>2, <2>3, <2>7 DEF Live
    <2>9. QED
      BY <2>2, <2>8
  <1>17. CASE converter'.ready = TRUE /\ encOk /\ decOk
    <2> DEFINE V == own \cup {a}
               f == e.m.heap
               g == heap'
               y == ctx'
    <2>1. converter'.enc = a /\ converter'.dec = b
      BY <1>4, <1>5, <1>7, <1>17
    <2>2. InUse' = V \cup {b} /\ a \notin own /\ b \notin V /\ V \in SUBSET (1 .. MaxObjects)
          /\ own \in SUBSET (1 .. MaxObjects)
      BY <1>2, <1>3, <1>8, <1>17, <2>1
    <2>3. y[a] = e.c /\ y[b] = d.c /\ y \in Sessions
      BY <1>7, <1>17 DEF SessionsTyped
    <2>4. Joins(heap, f, ctx, y, own, a)
      <3>1. Held(heap, ctx, own)
        <4>1. heap \subseteq heap
          OBVIOUS
        <4>2. QED
          BY <1>8, <1>12, <4>1, HeldMore
      <3>2. y[a] \in Context /\ SoundContext(y[a]) /\ Objects(a, y[a]) \subseteq f
            /\ \A i \in Ids(y[a]) : <<i, "str">> \notin heap
        BY <1>3, <1>4, <1>17, <2>3
      <3>3. QED
        BY <1>4, <1>12, <1>13, <2>2, <3>1, <3>2 DEF Joins
    <2>5. Held(f, y, V) /\ \A X : X \subseteq Reach(ctx, own) \cup Objects(a, y[a])
                                   => X \subseteq Reach(y, V)
      <3> HIDE DEF f, y
      <3>1. QED
        BY <2>4, HeldNew
    <2>6. Joins(f, g, y, y, V, b)
      <3>1. \A q \in StreamParts \cup {"ctx"} : <<b, q>> # <<a, q>>
        BY <1>3
      <3>2. <<b, "str">> \notin f
        <4> SUFFICES ASSUME <<b, "str">> \in f PROVE FALSE
          OBVIOUS
        <4>1. PICK p \in StreamParts \cup {"ctx"} : <<b, "str">> = <<a, p>>
          BY <1>3, <1>4
        <4>2. QED
          BY <1>3, <4>1
      <3>3. y[b] \in Context /\ SoundContext(y[b]) /\ Objects(b, y[b]) \subseteq g
            /\ \A i \in Ids(y[b]) : <<i, "str">> \notin f
        BY <1>5, <1>7, <1>17, <2>3, <3>2
      <3>4. f \subseteq g
        BY <1>5, <1>7, <1>17
      <3> HIDE DEF f, g, y, V
      <3>5. QED
        BY <2>2, <2>3, <2>5, <3>3, <3>4 DEF Joins
    <2>7. Held(g, y, V \cup {b}) /\ \A X : X \subseteq Reach(y, V) \cup Objects(b, y[b])
                                            => X \subseteq Reach(y, V \cup {b})
      <3> HIDE DEF f, g, y, V
      <3>1. QED
        BY <2>6, HeldNew
    <2>8. Live'
      BY <1>3, <1>9, <1>12, <2>1, <2>2, <2>7 DEF Live
    <2>9. blame' = {} => heap' \subseteq Reach(ctx', InUse')
      <3> SUFFICES ASSUME blame' = {} PROVE g \subseteq Reach(y, V \cup {b})
        BY <2>2
      <3>1. ~converter.ready
        BY <1>4, <1>7, <1>17
      <3>2. heap \subseteq Reach(ctx, own)
        BY <1>8, <1>10, <3>1
      <3>3. d.m.blame = {} /\ e.m.blame = {}
        BY <1>5, <1>7, <1>17
      <3>4. f \subseteq heap \cup Objects(a, y[a])
        BY <1>4, <1>17, <2>3, <3>3
      <3>5. g \subseteq f \cup Objects(b, y[b])
        BY <1>5, <1>7, <1>17, <2>3, <3>3
      <3> HIDE DEF f, g, y, V
      <3>6. f \subseteq Reach(y, V)
        BY <2>5, <3>2, <3>4
      <3>7. QED
        BY <2>7, <3>5, <3>6
    <2>10. QED
      BY <2>8, <2>9
  <1>18. converter'.ready \in BOOLEAN
    BY <1>7 DEF SessionsTyped
  <1>19. QED
    BY <1>14, <1>15, <1>16, <1>17, <1>18

LEMMA InitConverterStep == SessionsInv /\ Init_converter => SessionsInv'
  <1> SUFFICES ASSUME SessionsInv, Init_converter PROVE SessionsInv'
    OBVIOUS
  <1>1. Cardinality(Fresh) >= 2 /\ app' = app
    BY DEF Init_converter
  <1> DEFINE ids == FreshSeq(2)
  <1>2. PICK n \in Endings \cup {-1}, k \in Endings \cup {-1} :
          InitDecryption(ids, n, k, started(memory, ids[1], n))
    BY DEF Init_converter
  <1>3. n \in Int /\ k \in Int
    BY PartsAre DEF Endings, Stages
  <1>4. SessionsTyped
    BY DEF SessionsInv
  <1>5. memory \in Memory /\ memory.heap = heap
    BY <1>4, MemoryTyped
  <1>6. TwoFree(ids[1], ids[2])
    <2>1. /\ ids \in [1 .. 2 -> 1 .. MaxObjects] /\ IsInjective(ids)
          /\ \A j \in 1 .. 2 : /\ ids[j] \notin {app, converter.enc, converter.dec}
                               /\ ids[j] \notin InUse /\ \A q : <<ids[j], q>> \notin heap
      BY <1>1, <1>4, FreshSeqUnused
    <2> HIDE DEF ids
    <2>2. 1 \in 1 .. 2 /\ 2 \in 1 .. 2 /\ DOMAIN ids = 1 .. 2
      BY <2>1
    <2>3. ids[1] # ids[2]
      BY <2>1, <2>2 DEF IsInjective
    <2>4. QED
      BY <2>1, <2>2, <2>3 DEF TwoFree
  <1> HIDE DEF ids
  <1> DEFINE a == ids[1]
             b == ids[2]
             e == started(memory, a, n)
             d == IF e.status = "ok" THEN started(e.m, b, k)
                                     ELSE [status |-> "fail", m |-> e.m]
  <1>7. InitLeft(ids, n, k, e, d)
    BY <1>2 DEF InitDecryption
  <1>8. /\ a \in 1 .. MaxObjects /\ b \in 1 .. MaxObjects /\ a # b
        /\ \A q : <<a, q>> \notin heap /\ <<b, q>> \notin heap
    BY <1>6 DEF TwoFree
  <1>9. Starts(memory, a, n, e)
    <2> HIDE DEF a
    <2>1. QED
      BY <1>3, <1>5, <1>8, StartedIs
  <1> HIDE DEF a, b, e
  <1>10. /\ e.m \in Memory
         /\ \A o \in e.m.heap : o \in heap \/ \E p \in StreamParts \cup {"ctx"} : o = <<a, p>>
    BY <1>5, <1>9 DEF Starts
  <1>11. \A q : <<b, q>> \notin e.m.heap
    <2> SUFFICES ASSUME NEW q, <<b, q>> \in e.m.heap PROVE FALSE
      OBVIOUS
    <2>1. PICK p \in StreamParts \cup {"ctx"} : <<b, q>> = <<a, p>>
      BY <1>8, <1>10
    <2>2. QED
      BY <1>8, <2>1
  <1>12. Starts(e.m, b, k, started(e.m, b, k))
    BY <1>3, <1>8, <1>10, <1>11, StartedIs
  <1>13. /\ e.status = "ok" => Starts(e.m, b, k, d)
         /\ e.status # "ok" => d.status = "fail" /\ d.m = e.m
    BY <1>12
  <1> HIDE DEF d
  <1>14. QED
    BY <1>1, <1>3, <1>6, <1>7, <1>9, <1>13, InitLeftKeeps DEF a, b

-----------------------------------------------------------------------------
(* The theorems.                                                           *)

LEMMA SessionsStartHolds == SessionsStart => SessionsInv
  <1> SUFFICES ASSUME SessionsStart PROVE SessionsInv
    OBVIOUS
  <1>1. /\ heap = {} /\ misused = FALSE /\ blame = {} /\ app = 0
        /\ ctx = [id \in 1 .. MaxObjects |-> NoContext]
        /\ converter = [ready |-> FALSE, enc |-> 0, dec |-> 0]
    BY DEF SessionsStart
  <1>2. ctx \in Sessions
    BY <1>1, NoneIs DEF Sessions
  <1>3. SessionsTyped
    <2>1. 0 \in 0 .. MaxObjects
      BY SessionsAssumption
    <2>2. /\ converter.ready = FALSE
          /\ converter \in [ready : BOOLEAN, enc : 0 .. MaxObjects, dec : 0 .. MaxObjects]
      BY <1>1, <2>1
    <2>3. heap \in SUBSET Object /\ blame \in SUBSET Blames /\ misused \in BOOLEAN
      BY <1>1
    <2>4. app \in 0 .. MaxObjects
      BY <1>1, <2>1
    <2>5. QED
      BY <1>2, <2>2, <2>3, <2>4, Zenon DEF SessionsTyped
  <1>4. InUse = {}
    BY <1>1 DEF InUse
  <1>5. QED
    BY <1>1, <1>3, <1>4 DEF SessionsInv, Live, Held

LEMMA SessionsUnchanged == SessionsInv /\ UNCHANGED sessionVars => SessionsInv'
  BY DEF sessionVars, SessionsInv, SessionsTyped, Live, InUse

LEMMA SessionsInvHolds == Spec => []SessionsInv
  <1>1. Init => SessionsInv
    BY SessionsStartHolds DEF Init
  <1>2. SessionsInv /\ [Next]_<<kernelVars, sessionVars>> => SessionsInv'
    <2> SUFFICES ASSUME SessionsInv, [Next]_<<kernelVars, sessionVars>>
                 PROVE  SessionsInv'
      OBVIOUS
    <2>1. CASE UNCHANGED sessionVars
      BY <2>1, SessionsUnchanged
    <2>2. CASE CreateSession
      BY <2>2, CreateSessionStep
    <2>3. CASE AddStream
      BY <2>3, AddStreamStep
    <2>4. CASE RemoveStream
      BY <2>4, RemoveStreamStep
    <2>5. CASE DeallocSession
      BY <2>5, DeallocSessionStep
    <2>6. CASE Init_converter
      BY <2>6, InitConverterStep
    <2>7. CASE Destroy
      BY <2>7, DestroyStep
    <2>8. CASE Packet
      BY <2>8, PacketStep
    <2>9. QED
      BY <2>1, <2>2, <2>3, <2>4, <2>5, <2>6, <2>7, <2>8 DEF Next
  <1>3. QED
    BY <1>1, <1>2, PTL DEF Spec

\* The objects, the calls that lose memory, the contexts and the pointers of both
\* programs keep their types, and a converter that is ready has two sessions.
THEOREM SessionsTypes == Spec => []SessionsTyped
  <1>1. SessionsInv => SessionsTyped
    BY DEF SessionsInv
  <1>2. QED
    BY <1>1, SessionsInvHolds, PTL

LEMMA ReachableIs == Reachable = Reach(ctx, InUse)
  BY DEF Reachable, Reach, Objects, StreamsOf

\* Whatever streams srtp_add_stream adds or refuses, srtp_stream_clone makes and
\* srtp_remove_stream takes away, at whichever allocation memory runs out, and
\* whatever sessions srtp_create undoes: a session in use leads to nothing that is
\* freed, and srtp_dealloc frees nothing twice; unless RTPConverter::init has
\* failed in a converter that was ready.
THEOREM LiveSessionsAllocated == Spec => []LiveIsAllocated
  <1>1. SessionsInv => LiveIsAllocated
    <2> SUFFICES ASSUME SessionsInv, "stale" \notin blame
                 PROVE  ~misused /\ Reachable \subseteq heap
      BY DEF LiveIsAllocated
    <2>1. ~misused /\ Held(heap, ctx, InUse)
      BY DEF SessionsInv, Live
    <2>2. Reach(ctx, InUse) \subseteq heap
      BY <2>1 DEF Held, Reach
    <2>3. QED
      BY <2>1, <2>2, ReachableIs
  <1>2. QED
    BY <1>1, SessionsInvHolds, PTL

\* What srtp_create, srtp_add_stream and srtp_stream_clone have allocated belongs
\* to a session in use, so that srtp_dealloc frees it in the end, as long as none
\* of the calls has taken place that the code loses memory in.
THEOREM NothingIsLost == Spec => []NothingLost
  <1>1. SessionsInv => NothingLost
    BY ReachableIs DEF SessionsInv, NothingLost
  <1>2. QED
    BY <1>1, SessionsInvHolds, PTL
===============================================================================
