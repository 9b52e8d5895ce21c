--------------------------- MODULE EncryptedImage ---------------------------
(***************************************************************************)
(* The decryptor of firmware images, esp_encrypted_img.c, with RSA as      *)
(* sdkconfig:2290 has it.  An image is a header of six sections and the    *)
(* encrypted binary; HttpOta's task passes it in as it comes from the      *)
(* server, cut anywhere, and the handle keeps what a section or a cipher   *)
(* block lacks until the next call.                                        *)
(*                                                                         *)
(* A byte is its position in the image.  Sizes are smaller than the code's *)
(* and keep their order: a cipher block is as long as iv and auth, the     *)
(* sections that go through cache_buf after it was shrunk are shorter.     *)
(* RSA, AES-GCM and the heap are external: a key may fail to be            *)
(* deciphered, memory may be short, and a byte is decrypted by being put   *)
(* out.  The code for ECIES is not compiled, and nobody exports the key.   *)
(***************************************************************************)
EXTENDS Integers, Sequences

CONSTANTS
  BlockLen,      \* the cipher's block: 16
  BinarySizes    \* the sizes of the binaries

\* The cached bytes of a size have room in a block.
ASSUME ImageAssumption == BlockLen \in Nat \ {0, 1} /\ BinarySizes \subseteq Nat

\* pre_enc_bin_header, and the states of the handle
Sections == {"magic", "key", "iv", "size", "auth", "extra"}
SectionSize ==
  [magic |-> 2, key |-> 2 * BlockLen, iv |-> BlockLen, size |-> 2, auth |-> BlockLen, extra |-> 3]
NextState ==
  [magic |-> "key", key |-> "iv", iv |-> "size", size |-> "auth", auth |-> "extra",
   extra |-> "binary"]

\* Where iv and auth are in the header, and its length
IvAt == SectionSize.magic + SectionSize.key
AuthAt == IvAt + SectionSize.iv + SectionSize.size
HeaderLen == AuthAt + SectionSize.auth + SectionSize.extra

VARIABLES
  img,      \* the image: the size of its binary, and what is wrong with it
  arrived,  \* how much of it has been passed in
  handle,   \* esp_encrypted_img_handle; held: the sections that are kept
  res,      \* what the last call returned
  plain,    \* what was put out
  broken    \* history: a buffer was too short, or a block but the last not whole

imageVars == <<img, arrived, handle, res, plain, broken>>

Nothing == [s \in Sections |-> <<>>]

\* esp_encrypted_img_decrypt_start
DecryptStart ==
  [state |-> "magic", cache |-> <<>>, capacity |-> SectionSize.key, read |-> 0, held |-> Nothing]

ImageInit ==
  /\ img \in [len : BinarySizes, fault : {"none", "magic", "key", "auth"}]
  /\ arrived = 0 /\ handle = DecryptStart
  /\ res = "not finished" /\ plain = <<>> /\ broken = FALSE

Least(a, b) == IF a < b THEN a ELSE b

-----------------------------------------------------------------------------
(* A call goes through the sections, from the handle's state on.  c is the *)
(* handle h, the rest of the data, and how the call ends.                  *)

\* The next section starts with empty counters.
Enter(c, s) == [c EXCEPT !.h.state = s, !.h.read = 0, !.h.cache = <<>>]

\* decipher_gcm_key: the key is used up, and cache_buf shrinks to a block.
DecipherKey(c) ==
  IF img.fault = "key" THEN [c EXCEPT !.ret = "fail"]
  ELSE [Enter(c, NextState.key) EXCEPT !.h.capacity = BlockLen]

\* Fault: what is left of the size is taken for the beginning of auth.
CompletedSizeKept(c, s) ==
  CASE s = "magic" /\ img.fault = "magic" -> [c EXCEPT !.ret = "fail"]
    [] s = "key" -> DecipherKey(c)
    [] s = "size" -> [Enter(c, NextState[s]) EXCEPT !.h.read = c.h.read]
    [] OTHER -> Enter(c, NextState[s])

\* A section that is there and complete: it is checked.
Completed(c, s) ==
  CASE s = "magic" /\ img.fault = "magic" -> [c EXCEPT !.ret = "fail"]
    [] s = "key" -> DecipherKey(c)
    [] OTHER -> Enter(c, NextState[s])

\* read_and_cache_data, which a section that is all there does in place: iv
\* and auth have buffers of their own, and the extra
\* header is counted and dropped.
ReadAndCache(c, s) ==
  LET n == Least(Len(c.data), SectionSize[s] - c.h.read)
      got == SubSeq(c.data, 1, n)
      h == [c.h EXCEPT !.read = @ + n,
                       !.cache = IF s = "extra" THEN @ ELSE @ \o got,
                       !.held[s] = @ \o got]
      short == s \notin {"iv", "auth", "extra"} /\ Len(c.h.cache) + n > c.h.capacity
  IN [c EXCEPT !.h = h, !.broken = @ \/ short, !.data = SubSeq(@, n + 1, Len(@))]

\* A case of esp_encrypted_img_decrypt_data, which falls through to the next
Section(c, s) ==
  IF c.ret # "go" \/ c.h.state # s THEN c
  ELSE LET r == ReadAndCache(c, s) IN
       IF r.h.read = SectionSize[s] THEN Completed(r, s) ELSE [r EXCEPT !.ret = "not finished"]

Header(c) ==
  Section(Section(Section(Section(Section(Section(
    c, "magic"), "key"), "iv"), "size"), "auth"), "extra")

-----------------------------------------------------------------------------
(* process_bin                                                             *)

\* mbedtls_gcm_update for the bytes b, put out at dec_len of a buffer of
\* room bytes; the bytes come in whole units: blocks, but in the last call.
Update(c, b, dec_len, room, unit) ==
  [c EXCEPT !.out = @ \o b,
            !.broken = @ \/ dec_len # Len(c.out) \/ Len(c.out) + Len(b) > room
                         \/ Len(b) % unit # 0]

\* The binary goes on: the cached bytes first, filled up to a block, then
\* the whole blocks, and the tail is cached.
GoOn(c) ==
  LET cached == Len(c.h.cache)
      data_len == Len(c.data)
      room == ((cached + data_len) \div BlockLen) * BlockLen
      copy_len == IF cached # 0 THEN Least(BlockLen - cached, data_len) ELSE 0
      block == c.h.cache \o SubSeq(c.data, 1, copy_len)
      tail == (data_len - copy_len) % BlockLen
      first == IF cached = 0 THEN c ELSE Update(c, block, 0, room, BlockLen)
      whole == SubSeq(c.data, copy_len + 1, data_len - tail)
  IN IF cached # 0 /\ Len(block) # BlockLen
     THEN [c EXCEPT !.h.cache = block, !.ret = "not finished"]
     ELSE [(IF whole = <<>> THEN first
            ELSE Update(first, whole, IF cached # 0 THEN BlockLen ELSE 0, room, BlockLen))
            EXCEPT !.h.cache = SubSeq(c.data, data_len - tail + 1, data_len),
                   !.ret = "not finished"]

\* The last byte is here.
Finish(c) ==
  LET cached == Len(c.h.cache)
      data_len == Len(c.data)
      room == cached + data_len
      copy_len == Least(BlockLen - cached, data_len)
      block == c.h.cache \o SubSeq(c.data, 1, copy_len)
      more == SubSeq(c.data, copy_len + 1, data_len)
      first == Update(c, block, 0, room, IF more = <<>> THEN 1 ELSE BlockLen)
  IN [(IF more = <<>> THEN first ELSE Update(first, more, BlockLen, room, 1))
       EXCEPT !.h.cache = <<>>, !.ret = "ok"]

ProcessBin(c) ==
  IF c.ret # "go" THEN c
  ELSE LET r == [c EXCEPT !.h.read = @ + Len(c.data)] IN
       IF r.h.read # img.len THEN GoOn(r) ELSE Finish(r)

-----------------------------------------------------------------------------
(* The calls                                                               *)

Image == [i \in 1..(HeaderLen + img.len) |-> i]

\* esp_encrypted_img_decrypt_data with the next n bytes; a realloc may fail.
\* A failure is final: http_ota.c:110 aborts.
DecryptData(n) ==
  /\ res = "not finished"
  /\ arrived + n <= Len(Image)
  /\ LET c == [h |-> handle, data |-> SubSeq(Image, arrived + 1, arrived + n), ret |-> "go",
               out |-> <<>>, broken |-> FALSE]
         d == ProcessBin(Header(c))
     IN /\ handle' = d.h
        /\ res' \in {d.ret} \cup IF d.h.state = "magic" THEN {} ELSE {"fail"}
        /\ plain' = IF res' = "fail" THEN plain ELSE plain \o d.out
        /\ broken' = (broken \/ d.broken)
  /\ arrived' = arrived + n
  /\ UNCHANGED img

\* esp_encrypted_img_decrypt_end, when the server has no more
DecryptEnd ==
  /\ res \in {"ok", "not finished"}
  /\ res' = IF /\ handle.state = "binary"
               /\ handle.cache = <<>> /\ handle.read = img.len
               /\ img.fault # "auth"
            THEN "authentic" ELSE "ended"
  /\ UNCHANGED <<img, arrived, handle, plain, broken>>

\* esp_encrypted_img_decrypt_abort, and a new download
DecryptAbort ==
  /\ arrived' = 0 /\ handle' = DecryptStart
  /\ res' = "not finished" /\ plain' = <<>>
  /\ UNCHANGED <<img, broken>>

ImageNext ==
  \/ \E n \in 1..Len(Image) : DecryptData(n)
  \/ DecryptEnd \/ DecryptAbort

-----------------------------------------------------------------------------
(* Properties                                                              *)

(***************************************************************************)
(* However the server's answer is cut (esp_encrypted_img.c:681-941), the   *)
(* binary is put out byte by byte in order, less than a block of it is     *)
(* held back while more is to come and nothing at the end, iv and auth are *)
(* the header's own, no buffer is overrun, the cipher is fed whole blocks, *)
(* and an image is accepted only when all of it has arrived and its tag is *)
(* right.                                                                  *)
(***************************************************************************)
DecryptsHoweverCut ==
  LET binary == arrived - HeaderLen  \* what of the binary has arrived
      lost == res \in {"fail", "ended"}
  IN /\ ~broken
     /\ \A i \in DOMAIN plain : plain[i] = HeaderLen + i
     /\ ~lost /\ binary > 0 => binary - Len(plain) \in 0..(BlockLen - 1)
     /\ res \in {"ok", "authentic"} => arrived = HeaderLen + img.len /\ Len(plain) = img.len
     /\ ~lost /\ arrived = HeaderLen + img.len /\ arrived > 0 => res # "not finished"
     /\ res = "authentic" => img.fault = "none"
     /\ handle.state = "binary" =>
          /\ handle.held.iv = [i \in 1..BlockLen |-> IvAt + i]
          /\ handle.held.auth = [i \in 1..BlockLen |-> AuthAt + i]
=============================================================================
