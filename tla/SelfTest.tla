------------------------------ MODULE SelfTest -------------------------------
(***************************************************************************)
(* The self-tests that crypto_kernel_init runs when it loads a type of cipher *)
(* (cipher.c) and of authentication function (auth.c): known answers first,   *)
(* and for a cipher, data and keys drawn at random that must come back.  Here *)
(* for the block-chaining mode and the authentication on SHA-1.              *)
(***************************************************************************)
EXTENDS AesCbc

SELF_TEST_BUF_OCTETS == 128
SELF_TEST_TAG_BUF_OCTETS == 32

aes_cbc_test_case_0 ==
  [key |-> <<0, 1, 2, 3, 4, 5, 6, 7, 8, 9, 10, 11, 12, 13, 14, 15>>,
   idx |-> <<0, 0, 0, 0, 0, 0, 0, 0, 0, 0, 0, 0, 0, 0, 0, 0>>,
   plaintext |-> <<0, 17, 34, 51, 68, 85, 102, 119, 136, 153, 170, 187, 204, 221, 238, 255>>,
   ciphertext |-> <<105, 196, 224, 216, 106, 123, 4, 48, 216, 205, 183, 128, 112, 180, 197, 90,
                     3, 53, 237, 39, 103, 242, 109, 241, 100, 131, 46, 35, 68, 56, 112, 139>>]

aes_cbc_test_case_1 ==
  [key |-> <<43, 126, 21, 22, 40, 174, 210, 166, 171, 247, 21, 136, 9, 207, 79, 60>>,
   idx |-> <<0, 1, 2, 3, 4, 5, 6, 7, 8, 9, 10, 11, 12, 13, 14, 15>>,
   plaintext |-> <<107, 193, 190, 226, 46, 64, 159, 150, 233, 61, 126, 17, 115, 147, 23, 42,
                    174, 45, 138, 87, 30, 3, 172, 156, 158, 183, 111, 172, 69, 175, 142, 81, 48,
                    200, 28, 70, 163, 92, 228, 17, 229, 251, 193, 25, 26, 10, 82, 239, 246, 159,
                    36, 69, 223, 79, 155, 23, 173, 43, 65, 123, 230, 108, 55, 16>>,
   ciphertext |-> <<118, 73, 171, 172, 129, 25, 178, 70, 206, 233, 142, 155, 18, 233, 25, 125,
                     80, 134, 203, 155, 80, 114, 25, 238, 149, 219, 17, 58, 145, 118, 120, 178,
                     115, 190, 214, 184, 227, 193, 116, 59, 113, 22, 230, 158, 34, 34, 149, 22,
                     63, 241, 202, 161, 104, 31, 172, 9, 18, 14, 202, 48, 117, 134, 225, 167, 57,
                     52, 7, 3, 54, 208, 119, 153, 224, 196, 47, 221, 168, 223, 76, 163>>]

aes_cbc_test_case_2 ==
  [key |-> <<0, 1, 2, 3, 4, 5, 6, 7, 8, 9, 10, 11, 12, 13, 14, 15, 16, 17, 18, 19, 20, 21, 22,
              23, 24, 25, 26, 27, 28, 29, 30, 31>>,
   idx |-> <<0, 0, 0, 0, 0, 0, 0, 0, 0, 0, 0, 0, 0, 0, 0, 0>>,
   plaintext |-> <<0, 17, 34, 51, 68, 85, 102, 119, 136, 153, 170, 187, 204, 221, 238, 255>>,
   ciphertext |-> <<142, 162, 183, 202, 81, 103, 69, 191, 234, 252, 73, 144, 75, 73, 96, 137,
                     114, 114, 110, 231, 113, 57, 191, 17, 229, 64, 226, 124, 84, 101, 29, 238>>]

aes_cbc_test_case_3 ==
  [key |-> <<96, 61, 235, 16, 21, 202, 113, 190, 43, 115, 174, 240, 133, 125, 119, 129, 31, 53,
              44, 7, 59, 97, 8, 215, 45, 152, 16, 163, 9, 20, 223, 244>>,
   idx |-> <<0, 1, 2, 3, 4, 5, 6, 7, 8, 9, 10, 11, 12, 13, 14, 15>>,
   plaintext |-> <<107, 193, 190, 226, 46, 64, 159, 150, 233, 61, 126, 17, 115, 147, 23, 42,
                    174, 45, 138, 87, 30, 3, 172, 156, 158, 183, 111, 172, 69, 175, 142, 81, 48,
                    200, 28, 70, 163, 92, 228, 17, 229, 251, 193, 25, 26, 10, 82, 239, 246, 159,
                    36, 69, 223, 79, 155, 23, 173, 43, 65, 123, 230, 108, 55, 16>>,
   ciphertext |-> <<245, 140, 76, 4, 214, 229, 241, 186, 119, 158, 171, 251, 95, 123, 251, 214,
                     156, 252, 78, 150, 126, 219, 128, 141, 103, 159, 119, 123, 198, 112, 44,
                     125, 57, 242, 51, 105, 169, 217, 186, 207, 165, 48, 226, 99, 4, 35, 20, 97,
                     178, 235, 5, 226, 195, 155, 233, 252, 218, 108, 25, 7, 140, 106, 157, 27,
                     251, 152, 32, 44, 69, 178, 228, 160, 99, 196, 104, 186, 132, 57, 22, 90>>]

\* The list of tests begins with the last one.
aes_cbc_test_cases ==
  <<aes_cbc_test_case_3, aes_cbc_test_case_2, aes_cbc_test_case_1, aes_cbc_test_case_0>>

hmac_test_case_0 ==
  [key |-> [i \in 1 .. 20 |-> 11],
   data |-> <<72, 105, 32, 84, 104, 101, 114, 101>>,
   tag |-> <<182, 23, 49, 134, 85, 5, 114, 100, 226, 139, 192, 182, 251, 55, 140, 142,
             241, 70, 190, 0>>]

fromZero(s) == [i \in 0 .. Len(s) - 1 |-> s[i + 1]]

\* The octets at the beginning of a buffer.
inBuffer(octets) ==
  [i \in 1 .. SELF_TEST_BUF_OCTETS |-> IF i <= Len(octets) THEN octets[i] ELSE 0]

\* A context that has been initialised, and given its vector.
ready(c, key, dir, idx) == aes_cbc_set_iv(aes_cbc_context_init(c, fromZero(key), dir), fromZero(idx))

\* What was made of a buffer must be these octets.
judged(r, octets) ==
  IF r.status # "ok" THEN r.status
  ELSE IF SubSeq(r.data, 1, r.n) = octets THEN "ok" ELSE "algo_fail"

encryptIn(c, key, idx, octets) ==
  aes_cbc_nist_encrypt(ready(c, key, "encrypt", idx), inBuffer(octets), Len(octets))

\* Encryption and decryption in one context, which is new for each case; e is what
\* became of the plaintext.
answered(e, case) ==
  LET failed == judged(e, case.ciphertext)
      d == aes_cbc_nist_decrypt(ready(e.context, case.key, "decrypt", case.idx),
                                inBuffer(case.ciphertext), Len(case.ciphertext))
  IN  IF failed # "ok" THEN failed ELSE judged(d, case.plaintext)

knownAnswer(case, any) ==
  IF Len(case.ciphertext) > SELF_TEST_BUF_OCTETS THEN "bad_param"
  ELSE answered(encryptIn(aes_cbc_alloc(any), case.key, case.idx, case.plaintext), case)

\* One context for all trials.  The vector is that of the first case, whatever is drawn.
returned(e, d, trial) ==
  [status |-> IF e.status # "ok" THEN e.status ELSE judged(d, trial.octets), context |-> d.context]

decryptAgain(e, trial, idx) ==
  returned(e, aes_cbc_nist_decrypt(ready(e.context, trial.key, "decrypt", idx), e.data, e.n), trial)

trialIn(c, trial, idx) == decryptAgain(encryptIn(c, trial.key, idx, trial.octets), trial, idx)

\* A case, or a trial, is looked at while nothing has failed.
caseAfter(status, case, any) == IF status = "ok" THEN knownAnswer(case, any) ELSE status
trialAfter(s, trial, idx) == IF s.status = "ok" THEN trialIn(s.context, trial, idx) ELSE s

allKnown(cases, any) ==
  LET known[i \in 0 .. Len(cases)] ==
        IF i = 0 THEN "ok" ELSE caseAfter(known[i - 1], cases[i], any)
  IN  known[Len(cases)]

allTried(trials, idx, start) ==
  LET tried[i \in 0 .. Len(trials)] ==
        IF i = 0 THEN start ELSE trialAfter(tried[i - 1], trials[i], idx)
  IN  tried[Len(trials)]

\* The trials have keys as long as the first case's.
cipher_type_test(cases, trials, any) ==
  IF cases = <<>> THEN "cant_check"
  ELSE allTried(trials, cases[1].idx,
                [status |-> allKnown(cases, any), context |-> aes_cbc_alloc(any)]).status

auth_type_test(cases) ==
  LET verdict(case) ==
        IF Len(case.tag) > SELF_TEST_TAG_BUF_OCTETS THEN "bad_param"
        ELSE IF hmac_compute(hmac_init(case.key), case.data, Len(case.tag)).tag = case.tag
             THEN "ok" ELSE "algo_fail"
      failed == {i \in DOMAIN cases : verdict(cases[i]) # "ok"}
  IN  IF cases = <<>> THEN "cant_check"
      ELSE IF failed = {} THEN "ok" ELSE verdict(cases[Min(failed)])
=============================================================================
