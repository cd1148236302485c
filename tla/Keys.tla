--------------------------------- MODULE Keys ---------------------------------
(***************************************************************************)
(* The policies of libsrtp and the keys of a stream (srtp.c).  An octet of a  *)
(* derived key is the octet of key stream that it is: the counter block, which *)
(* the label determines, and the place in it.                               *)
(***************************************************************************)
EXTENDS AesIcm, FiniteSets

\* A policy; lengths are in octets.
policy(cipher, keyLen, auth, authKeyLen, tagLen, services) ==
  [cipher_type |-> cipher, cipher_key_len |-> keyLen, auth_type |-> auth,
   auth_key_len |-> authKeyLen, auth_tag_len |-> tagLen, sec_serv |-> services]

crypto_policy_set_rtp_default ==
  policy("AES_ICM", 30, "HMAC_SHA1", 20, 10, {"conf", "auth"})
crypto_policy_set_rtcp_default ==
  policy("AES_ICM", 30, "HMAC_SHA1", 20, 10, {"conf", "auth"})
crypto_policy_set_aes_cm_128_hmac_sha1_80 == crypto_policy_set_rtp_default
crypto_policy_set_aes_cm_128_hmac_sha1_32 ==
  policy("AES_ICM", 30, "HMAC_SHA1", 20, 4, {"conf", "auth"})
crypto_policy_set_aes_cm_128_null_auth ==
  policy("AES_ICM", 30, "NULL_AUTH", 0, 0, {"conf"})
crypto_policy_set_null_cipher_hmac_sha1_80 ==
  policy("NULL_CIPHER", 0, "HMAC_SHA1", 20, 10, {"auth"})
crypto_policy_set_aes_cm_256_hmac_sha1_80 ==
  policy("AES_ICM", 46, "HMAC_SHA1", 20, 10, {"conf", "auth"})
crypto_policy_set_aes_cm_256_hmac_sha1_32 ==
  policy("AES_ICM", 46, "HMAC_SHA1", 20, 4, {"conf", "auth"})

Policies ==
  {crypto_policy_set_rtp_default, crypto_policy_set_rtcp_default,
   crypto_policy_set_aes_cm_128_hmac_sha1_32, crypto_policy_set_aes_cm_128_null_auth,
   crypto_policy_set_null_cipher_hmac_sha1_80, crypto_policy_set_aes_cm_256_hmac_sha1_80,
   crypto_policy_set_aes_cm_256_hmac_sha1_32}

-----------------------------------------------------------------------------
(* The profiles of DTLS.                                                    *)

Profiles == {"aes128_cm_sha1_80", "aes128_cm_sha1_32", "aes256_cm_sha1_80",
             "aes256_cm_sha1_32", "null_sha1_80", "null_sha1_32"}
Supported == Profiles \ {"null_sha1_32"}

\* For RTP a second assignment overwrites every first one: the short tags are lost.
crypto_policy_set_from_profile_for_rtp(profile) ==
  CASE profile \in {"aes128_cm_sha1_80", "aes128_cm_sha1_32"} ->
         crypto_policy_set_aes_cm_128_hmac_sha1_80
    [] profile \in {"aes256_cm_sha1_80", "aes256_cm_sha1_32"} ->
         crypto_policy_set_aes_cm_256_hmac_sha1_80
    [] profile = "null_sha1_80" -> crypto_policy_set_null_cipher_hmac_sha1_80

crypto_policy_set_from_profile_for_rtcp(profile) ==
  CASE profile \in {"aes128_cm_sha1_80", "aes128_cm_sha1_32"} ->
         crypto_policy_set_aes_cm_128_hmac_sha1_80
    [] profile \in {"aes256_cm_sha1_80", "aes256_cm_sha1_32"} ->
         crypto_policy_set_aes_cm_256_hmac_sha1_80
    [] profile = "null_sha1_80" -> crypto_policy_set_null_cipher_hmac_sha1_80

srtp_profile_get_master_key_length(profile) ==
  CASE profile \in {"aes128_cm_sha1_80", "aes128_cm_sha1_32", "null_sha1_80"} -> 16
    [] profile \in {"aes256_cm_sha1_80", "aes256_cm_sha1_32"} -> 32
    [] OTHER -> 0

srtp_profile_get_master_salt_length(profile) == IF profile \in Supported THEN 14 ELSE 0

\* The salt is written over what is behind the key.
append_salt_to_key(key, bytes_in_key, salt, bytes_in_salt) ==
  [i \in 1 .. bytes_in_key + bytes_in_salt |->
     IF i <= bytes_in_key THEN key[i] ELSE salt[i - bytes_in_key]]

-----------------------------------------------------------------------------
(* The derivation of the keys of a stream.                                  *)

base_key_length(cipher, key_length) ==
  IF cipher # "AES_ICM" THEN key_length
  ELSE IF key_length > 16 /\ key_length < 30 THEN 16
  ELSE key_length - 14

\* Whether there is a cipher of this type for keys of this length, and how many octets
\* of them aes_icm_context_init takes for the key.
aes_icm_alloc(key_len) == key_len \in {30, 38, 46}
aes_icm_context_init(key_len) == IF key_len \in 17 .. 29 THEN 16 ELSE key_len - 14

\* The key stream from the vector with the label in it.
srtp_kdf_generate(label, length) == keystream(aes_icm_set_iv(label), length)

\* A cipher's key, its salt behind it, and the key of the authentication function.
keysOf(p, encryption, salt, msg_auth) ==
  LET base == base_key_length(p.cipher_type, p.cipher_key_len)
  IN  [cipher |-> srtp_kdf_generate(encryption, base)
                    \o srtp_kdf_generate(salt, p.cipher_key_len - base),
       auth |-> srtp_kdf_generate(msg_auth, p.auth_key_len)]

\* Plausible slip: the salt of RTCP made with the label of the other one.
srtp_stream_init_keysOneSalt(rtp, rtcp) ==
  [kdf_keylen |-> IF 46 \in {rtp.cipher_key_len, rtcp.cipher_key_len} THEN 46 ELSE 30,
   rtp |-> keysOf(rtp, "rtp_encryption", "rtp_salt", "rtp_msg_auth"),
   rtcp |-> keysOf(rtcp, "rtcp_encryption", "rtp_salt", "rtcp_msg_auth")]

\* The longest of the keys decides which cipher derives them all, AES-128 at least.
srtp_stream_init_keys(rtp, rtcp) ==
  LET longest == CHOOSE n \in {30, rtp.cipher_key_len, rtcp.cipher_key_len} :
                   \A m \in {30, rtp.cipher_key_len, rtcp.cipher_key_len} : m <= n
  IN  [kdf_keylen |-> longest,
       rtp |-> keysOf(rtp, "rtp_encryption", "rtp_salt", "rtp_msg_auth"),
       rtcp |-> keysOf(rtcp, "rtcp_encryption", "rtcp_salt", "rtcp_msg_auth")]
=============================================================================
