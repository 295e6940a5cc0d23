---------------------------- MODULE MCResponse ----------------------------
EXTENDS Response

A == INSTANCE Aes
R == INSTANCE Rijndael

MCXor(a, b) == A!Xor(a, b)
MCEncipher(key, b) ==
  A!Apply(LAMBDA k : A!AES_encrypt(b, k), A!AES_set_encrypt_key(key, 128))
MCDecipher(key, b) ==
  A!Apply(LAMBDA k : A!AES_decrypt(b, k), A!AES_set_decrypt_key(key, 128))

MCMd5(k) == [i \in 1..16 |-> (k * i * 37 + i) % 256]
MCKeys == {MCMd5(k) : k \in 0..22} \cup {NoKey}

\* A text CompressGZ refuses, one that fills a block and one of three windows
MCReplies == {<<7>>, [i \in 1..16 |-> 5 + (i \div 4)], [i \in 1..85 |-> (i * i) % 90]}

\* The tables and word operations of aes_x86core.c compute the standard cipher, for the three
\* key lengths of AES_set_encrypt_key.
CodeIsRijndael ==
  cpc = "encrypt" /\ row = 0 /\ head.kind = "none" =>
    \A bits \in {128, 192, 256} :
      \A userKey \in {[i \in 1..(bits \div 8) |-> (ekey[((i - 1) % 16) + 1] + i) % 256]} :
        \A key \in {A!AES_set_encrypt_key(userKey, bits)} :
          \A block \in {A!AES_encrypt(plain[0], key)} :
            /\ R!IsKeySchedule(key.rd_key, userKey)
            /\ block = R!Cipher(plain[0], key.rd_key)
            /\ \A inverse \in {A!AES_set_decrypt_key(userKey, bits)} :
                 A!AES_decrypt(block, inverse) = plain[0]
=============================================================================
