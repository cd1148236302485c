---------------------------- MODULE CryptoKernel ----------------------------
(***************************************************************************)
(* The crypto kernel of libsrtp (crypto_kernel.c, rand_source.c): the lists *)
(* of cipher types, authentication function types and debug modules, the    *)
(* random device, and whether all of them have passed their tests.  A type  *)
(* is its name, and its id is that of the standard type it stands in for.   *)
(*                                                                         *)
(* What a step of initialisation depends on outside of the kernel, memory   *)
(* and the random device, may fail at any of them.                         *)
(***************************************************************************)
EXTENDS Integers, Sequences, SequencesExt

CONSTANTS Substitute,      \* another implementation of aes_icm
          FailurePoints    \* bound: after how many steps what comes from outside
                           \* of the kernel may fail

VARIABLES kernel, device

kernelVars == <<kernel, device>>

\* The standard types, in the order in which they are loaded, and the debug
\* modules of those that have one.
CipherTypes == <<"null_cipher", "aes_icm", "aes_cbc">>
AuthTypes == <<"null_auth", "hmac">>
DebugOf == [type \in {"aes_icm", "aes_cbc", "hmac", Substitute} |-> type]

Id(type) == IF type = Substitute THEN "aes_icm" ELSE type

\* crypto_kernel_t.  Entries are put at the head of the lists.
Insecure == [state |-> "insecure", cipher_type_list |-> <<>>,
             auth_type_list |-> <<>>, debug_module_list |-> <<>>]

In(type, list) == \E i \in DOMAIN list : list[i] = type

\* The entry of a list with the id of a type: 0 if there is none.
EntryFor(type, list) == SelectInSeq(list, LAMBDA t : Id(t) = Id(type))

\* The result of an operation on the kernel.
Ok(k) == [status |-> "ok", kernel |-> k]
Fails(status, k) == [status |-> status, kernel |-> k]

crypto_kernel_load_debug_module(k, module) ==
  IF In(module, k.debug_module_list) THEN Fails("bad_param", k)
  ELSE Ok([k EXCEPT !.debug_module_list = <<module>> \o @])

\* The debug module of a type, whose loading may fail unnoticed.
loadDebugOf(k, type) ==
  IF type \in DOMAIN DebugOf
  THEN crypto_kernel_load_debug_module(k, DebugOf[type]).kernel ELSE k

\* A type that is in the list under its id may only be replaced, in place.
crypto_kernel_do_load_cipher_type(k, type, replace) ==
  LET i == EntryFor(type, k.cipher_type_list) IN
  CASE i # 0 /\ ~replace -> Fails("bad_param", k)
    [] i # 0 /\ replace ->
         Ok(loadDebugOf([k EXCEPT !.cipher_type_list[i] = type], type))
    [] i = 0 ->
         Ok(loadDebugOf([k EXCEPT !.cipher_type_list = <<type>> \o @], type))

crypto_kernel_do_load_auth_type(k, type, replace) ==
  LET i == EntryFor(type, k.auth_type_list) IN
  CASE i # 0 /\ ~replace -> Fails("bad_param", k)
    [] i # 0 /\ replace ->
         Ok(loadDebugOf([k EXCEPT !.auth_type_list[i] = type], type))
    [] i = 0 ->
         Ok(loadDebugOf([k EXCEPT !.auth_type_list = <<type>> \o @], type))

\* The steps of crypto_kernel_init.  Those on the random device and the
\* generator leave the lists alone.
Steps ==
  <<[load |-> "debug", what |-> "crypto kernel"],
    [load |-> "debug", what |-> "auth func"],
    [load |-> "debug", what |-> "cipher"],
    [load |-> "debug", what |-> "stat"],
    [load |-> "debug", what |-> "alloc"],
    [load |-> "nothing", what |-> "rand_source_init"],
    [load |-> "nothing", what |-> "stat_test_rand_source"],
    [load |-> "nothing", what |-> "ctr_prng_init"],
    [load |-> "nothing", what |-> "stat_test_ctr_prng"],
    [load |-> "cipher", what |-> CipherTypes[1]],
    [load |-> "cipher", what |-> CipherTypes[2]],
    [load |-> "cipher", what |-> CipherTypes[3]],
    [load |-> "auth", what |-> AuthTypes[1]],
    [load |-> "auth", what |-> AuthTypes[2]]>>

\* 0 stands for a start in which no step fails.
ASSUME KernelAssumption == FailurePoints \subseteq 0 .. Len(Steps)

RandSourceInit == CHOOSE i \in DOMAIN Steps : Steps[i].what = "rand_source_init"

do(k, step) ==
  CASE step.load = "debug"   -> crypto_kernel_load_debug_module(k, step.what)
    [] step.load = "nothing" -> Ok(k)
    [] step.load = "cipher"  -> crypto_kernel_do_load_cipher_type(k, step.what, FALSE)
    [] step.load = "auth"    -> crypto_kernel_do_load_auth_type(k, step.what, FALSE)

\* The result of the first n steps: they stop at the first failure.
after(r, step) == IF r.status = "ok" THEN do(r.kernel, step) ELSE r

firstSteps(k, n) ==
  LET reached[i \in 0 .. n] == IF i = 0 THEN Ok(k) ELSE after(reached[i - 1], Steps[i])
  IN  reached[n]

\* crypto_kernel_status tests everything again.  If the random source fails,
\* the kernel becomes insecure; if a cipher fails, the process ends, which no
\* standard type does.
crypto_kernel_status(k, randomFails) ==
  IF randomFails THEN Fails("algo_fail", [k EXCEPT !.state = "insecure"])
  ELSE Ok(k)

\* crypto_kernel_init when what it needs from outside fails at the step after
\* the first n, or, with n the number of all, not at all.
crypto_kernel_init(n) ==
  LET ended(r) == IF r.status = "ok" /\ n < Len(Steps) THEN Fails("fail", r.kernel)
                  ELSE IF r.status = "ok" THEN Ok([r.kernel EXCEPT !.state = "secure"])
                  ELSE r
  IN  IF kernel.state = "secure" THEN crypto_kernel_status(kernel, n < Len(Steps))
                                 ELSE ended(firstSteps(kernel, n))

\* srtp_init adds a debug module of its own, even to a kernel that has it.
withDebug(r) ==
  IF r.status = "ok" THEN crypto_kernel_load_debug_module(r.kernel, "srtp") ELSE r

srtp_init(n) == withDebug(crypto_kernel_init(n))

\* srtp_init is called.
KernelInit ==
  \E n \in FailurePoints \cup {Len(Steps)} :
    /\ kernel' = srtp_init(n).kernel
    /\ device' = IF /\ kernel.state = "insecure"
                    /\ n >= RandSourceInit
                    /\ firstSteps(kernel, RandSourceInit).status = "ok"
                 THEN "open" ELSE device

\* crypto_kernel_replace_cipher_type is called with a type that passes the test
\* of the standard one.
KernelReplace ==
  \E type \in {"aes_icm", Substitute} :
    kernel' = crypto_kernel_do_load_cipher_type(kernel, type, TRUE).kernel
  /\ UNCHANGED device

\* Plausible bug: the state is left as it was.
KernelShutdownKept ==
  /\ kernel' = [Insecure EXCEPT !.state = kernel.state]
  /\ device' = "closed"

\* srtp_shutdown.  The lists are emptied; if the device is not open, the state
\* stays as it is.
KernelShutdown ==
  /\ kernel' = [Insecure EXCEPT !.state = IF device = "open" THEN "insecure"
                                          ELSE kernel.state]
  /\ device' = "closed"

\* crypto_kernel_alloc_cipher and crypto_kernel_alloc_auth find a type.
CanAlloc == /\ kernel.state = "secure"
            /\ EntryFor("aes_icm", kernel.cipher_type_list) # 0
            /\ EntryFor("hmac", kernel.auth_type_list) # 0

KernelStart == kernel = Insecure /\ device = "closed"

-----------------------------------------------------------------------------
(* Properties.                                                             *)

\* An id leads to one entry, whatever has been loaded, replaced or shut down.
Unique(list) ==
  \A i, j \in DOMAIN list : Id(list[i]) = Id(list[j]) => i = j

\* A kernel that calls itself secure has every standard type, or a substitute
\* that has passed its test, exactly once, and the device that its tests read
\* is open.  So what KernelShutdown leaves of a kernel that was secure is never
\* a secure kernel with nothing in it.
SecureIsComplete ==
  /\ Unique(kernel.cipher_type_list) /\ Unique(kernel.auth_type_list)
  /\ kernel.state = "secure" =>
       /\ device = "open"
       /\ \A i \in DOMAIN CipherTypes :
            EntryFor(CipherTypes[i], kernel.cipher_type_list) # 0
       /\ \A i \in DOMAIN AuthTypes :
            EntryFor(AuthTypes[i], kernel.auth_type_list) # 0

=============================================================================
