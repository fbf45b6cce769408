------------------------------ MODULE Decrypt -------------------------------
(***************************************************************************)
(* Encrypted films, and the digest their keys are made with.               *)
(***************************************************************************)
EXTENDS Integers, Sequences, SequencesExt, Bitwise

-----------------------------------------------------------------------------
(***************************************************************************)
(* Reading an encrypted film: the file engine of stio_engine.c with its    *)
(* read plugin, which is hktv_generic_decrypt of holktv_stb.c over the RC4 *)
(* of misclib.  A word has N values (256 in the code); the file head has   *)
(* Len(FileHead) words (15) and the encrypted part of the header one word  *)
(* more than Checks (8).  One channel, one engine, its callers one by one. *)
(***************************************************************************)
CONSTANTS N,                \* number of values of a word
          FileHead, Checks,
          Reels,            \* records [lock, skip, fmt, body]: key, header byte 15, format, film
          RcKeys,           \* what md5sum makes of the keys
          Junk,             \* what memory that nobody has written may hold as an RC4 state
          Lens, Places, Repeats, MaxDecCalls

VARIABLES opened, reel, fpos,              \* the descriptor, its file and its offset
          repeat_cnt, fp_pos, read_plugin,
          new_file, hol_idx, hol_header, rc4key, md5rc4key, have_key, fmt,
          last,                        \* what the latest read has given: [rc, words]
          place,                       \* history: words given of this pass before it
          sync,                        \* history: read from its beginning with its key
          deccalls

engine == <<opened, reel, fpos, repeat_cnt, fp_pos, read_plugin>>
cipher == <<new_file, hol_idx, hol_header, rc4key, md5rc4key, have_key, fmt>>
decvars == <<engine, cipher, last, place, sync, deccalls>>

Word == 0 .. N - 1

----------------------------------------------------------------------------
(* RC4 (misclib/rc4encrypt.c). *)

Tables == [Word -> Word]
Piece(s, at, len) == SubSeq(s, at + 1, Min({at + len, Len(s)}))
Swap(d, a, b) == [d EXCEPT ![a] = d[b], ![b] = d[a]]

\* One SK_LOOP, for entry n; id1 runs through the key.
SK_LOOP(data) ==
    [s \in [d : Tables, n : 0 .. N, id1 : Nat, id2 : Word] |->
        LET id2 == (data[s.id1 + 1] + s.d[s.n] + s.id2) % N
        IN  [d |-> Swap(s.d, s.n, id2), n |-> s.n + 1, id1 |-> (s.id1 + 1) % Len(data), id2 |-> id2]]

RC4_set_key(data) ==
    LET s[n \in 0 .. N] == IF n = 0 THEN [d |-> [i \in Word |-> i], n |-> 0, id1 |-> 0, id2 |-> 0]
                           ELSE SK_LOOP(data)[s[n - 1]]
    IN  [x |-> 0, y |-> 0, d |-> s[N].d]

\* One LOOP: the next state, and the word that is combined with the data.
LOOP == [key \in [x : Word, y : Word, d : Tables] |->
            LET x == (key.x + 1) % N
                y == (key.d[x] + key.y) % N
            IN  [x |-> x, y |-> y, d |-> Swap(key.d, x, y)]]

KeyWord(key) == key.d[(key.d[key.x] + key.d[key.y]) % N]

\* The state and the words after RC4 of the words indata.
RC4(key, indata) ==
    LET k[i \in 0 .. Len(indata)] == IF i = 0 THEN key ELSE LOOP[k[i - 1]]
    IN  [key |-> k[Len(indata)], out |-> [i \in DOMAIN indata |-> KeyWord(k[i]) ^^ indata[i]]]

----------------------------------------------------------------------------
(* The header. *)

HeadWord(i, key) == FileHead[i] ^^ (((168 - i * 16) % N) ^^ key)
CheckWord(i, f) == (FileHead[i] ^^ ((i * 23) % N)) ^^ f

HLen == Len(FileHead) + 1 + 1 + Checks

\* The state after the words that the header tells to pass over.
Skipped(rckey, key) == RC4(RC4_set_key(rckey), [i \in 1 .. key + 3 |-> 0]).key

\* The file of a reel: head, skip, and encrypted format, checks and film.
Encoded(r) ==
    [i \in 1 .. Len(FileHead) |-> HeadWord(i, r.skip)] \o <<r.skip>>
        \o RC4(Skipped(r.lock, r.skip),
               <<r.fmt>> \o [i \in 1 .. Checks |-> CheckWord(i, r.fmt)] \o r.body).out

\* A reel with its file.
Filed(r) == [lock |-> r.lock, body |-> r.body, file |-> Encoded(r)]

----------------------------------------------------------------------------
(* hktv_generic_decrypt. *)

Plug == [new_file |-> new_file, idx |-> hol_idx, header |-> hol_header, key |-> rc4key, fmt |-> fmt]

PlugNew(p) == [p EXCEPT !.new_file = TRUE, !.idx = 0]

\* What follows the header in the piece that completes it.
AfterHeader(p, words) == SubSeq(words, HLen - p.idx + 1, Len(words))

Gives(p, rc, words) == [plug |-> p, rc |-> rc, words |-> words]

Decrypted(p, words) ==
    LET r == RC4(p.key, words) IN Gives([p EXCEPT !.key = r.key], Len(words), r.out)

\* The piece that completes the header.
OpensFilm(p, words) ==
    LET h == SubSeq(p.header, 1, p.idx) \o SubSeq(words, 1, HLen - p.idx)
        key == h[Len(FileHead) + 1]
        head == [p EXCEPT !.header = h, !.idx = HLen, !.new_file = FALSE]
        r == RC4(Skipped(md5rc4key, key), SubSeq(h, Len(FileHead) + 2, HLen))
        known == [head EXCEPT !.key = r.key, !.fmt = r.out[1]]
    IN  IF \E i \in 1 .. Len(FileHead) : h[i] # HeadWord(i, key) THEN Gives(head, -2, <<>>)
        ELSE IF \E i \in 1 .. Checks : r.out[i + 1] # CheckWord(i, r.out[1]) THEN Gives(known, -3, <<>>)
        ELSE Decrypted(known, AfterHeader(p, words))

decrypt(p, words) ==
    IF ~p.new_file THEN Decrypted(p, words)
    ELSE IF Len(words) + p.idx < HLen
    THEN Gives([p EXCEPT !.header = SubSeq(@, 1, p.idx) \o words, !.idx = @ + Len(words)], 0, <<>>)
    ELSE OpensFilm(p, words)

SetPlug(p) ==
    /\ new_file' = p.new_file /\ hol_idx' = p.idx /\ hol_header' = p.header
    /\ rc4key' = p.key /\ fmt' = p.fmt

----------------------------------------------------------------------------
(* The engine. *)

\* A pass begins: the plugin is told, when there is one.
Begins == SetPlug(IF read_plugin THEN PlugNew(Plug) ELSE Plug) /\ place' = 0 /\ sync' = TRUE

Silent == last' = [rc |-> 0, words |-> <<>>]

\* fio_read: the words from offset at on.
fio_read(at, len) == IF opened THEN Piece(reel.file, at, len) ELSE <<>>

\* Mutant: the plugin is not told that the film begins again.
RewindUntold == Plug

\* pub_reset at the end of the file.
Rewound == IF opened /\ read_plugin THEN PlugNew(Plug) ELSE Plug

pub_read(len) ==
    LET ahead == fio_read(fpos, len)
        again == ahead = <<>> /\ repeat_cnt # 0
        from == IF again /\ opened THEN 0 ELSE fpos
        words == IF again THEN fio_read(from, len) ELSE ahead
        given == IF read_plugin THEN decrypt(IF again THEN Rewound ELSE Plug, words)
                 ELSE Gives(Plug, Len(words), words)
        opens == read_plugin /\ given.plug.idx = HLen /\ (again \/ hol_idx < HLen)
    IN  /\ repeat_cnt' = IF again /\ repeat_cnt > 0 THEN repeat_cnt - 1 ELSE repeat_cnt
        /\ fpos' = from + Len(words)
        /\ fp_pos' = IF again THEN 0 ELSE fp_pos + Len(words)
        /\ SetPlug(given.plug)
        /\ last' = [rc |-> given.rc, words |-> given.words]
        /\ place' = IF again THEN 0 ELSE place + Len(last.words)
        /\ sync' = /\ sync \/ (again /\ opened)
                   /\ given.rc >= 0
                   /\ opens => md5rc4key = reel.lock
        /\ UNCHANGED <<opened, reel, read_plugin, md5rc4key, have_key>>

\* pub_open of a file that is there.
pub_open(r) ==
    /\ opened' = TRUE /\ reel' = Filed(r) /\ fpos' = 0 /\ fp_pos' = 0 /\ repeat_cnt' = 0
    /\ Begins /\ Silent
    /\ UNCHANGED <<read_plugin, md5rc4key, have_key>>

\* pub_open of a file that is not: the one that was open has been closed.
OpenFails ==
    /\ opened' = FALSE /\ fp_pos' = 0 /\ sync' = FALSE /\ Silent
    /\ UNCHANGED <<reel, fpos, repeat_cnt, read_plugin, cipher, place>>

\* pub_reset leaves fp_pos as it is.
pub_reset ==
    /\ opened
    /\ fpos' = 0 /\ Begins /\ Silent
    /\ UNCHANGED <<opened, reel, repeat_cnt, fp_pos, read_plugin, md5rc4key, have_key>>

\* fio_seek returns 1, which pub_seek takes for the position.
pub_seek(pos) ==
    /\ opened
    /\ fpos' = pos /\ fp_pos' = 1 /\ sync' = FALSE /\ Silent
    /\ UNCHANGED <<opened, reel, repeat_cnt, read_plugin, cipher, place>>

pub_close ==
    /\ opened
    /\ opened' = FALSE /\ sync' = FALSE /\ Silent
    /\ UNCHANGED <<reel, fpos, repeat_cnt, fp_pos, read_plugin, cipher, place>>

pub_set_repeat(r) ==
    /\ r # repeat_cnt
    /\ repeat_cnt' = r
    /\ UNCHANGED <<opened, reel, fpos, fp_pos, read_plugin, cipher, last, place, sync>>

\* hktv_set_mpeg_decrypt: a pass that has begun goes on otherwise than it began.
set_decrypt(v) ==
    /\ v # read_plugin
    /\ read_plugin' = v /\ sync' = FALSE /\ Silent
    /\ UNCHANGED <<opened, reel, fpos, repeat_cnt, fp_pos, cipher, place>>

hktv_setkey(k) ==
    /\ md5rc4key' = k /\ have_key' = TRUE
    /\ UNCHANGED <<engine, new_file, hol_idx, hol_header, rc4key, fmt, last, place, sync>>

hktv_clearkey ==
    /\ have_key' = FALSE
    /\ UNCHANGED <<engine, new_file, hol_idx, hol_header, rc4key, md5rc4key, fmt, last, place, sync>>

DecInit ==
    /\ opened = FALSE /\ reel \in {Filed(r) : r \in Reels} /\ fpos = 0 /\ repeat_cnt = 0 /\ fp_pos = 0
    /\ read_plugin = FALSE /\ new_file = FALSE /\ hol_idx = 0 /\ hol_header = <<>>
    /\ rc4key \in Junk /\ md5rc4key \in RcKeys /\ have_key = FALSE /\ fmt = 0
    /\ last = [rc |-> 0, words |-> <<>>] /\ place = 0 /\ sync = FALSE /\ deccalls = 0

DecNext ==
    /\ deccalls < MaxDecCalls /\ deccalls' = deccalls + 1
    /\ \/ \E len \in Lens : pub_read(len)
       \/ \E r \in Reels : pub_open(r)
       \/ OpenFails \/ pub_reset \/ pub_close
       \/ \E pos \in Places : pub_seek(pos)
       \/ \E r \in Repeats : pub_set_repeat(r)
       \/ \E v \in BOOLEAN : set_decrypt(v)
       \/ \E k \in RcKeys : hktv_setkey(k)
       \/ hktv_clearkey

----------------------------------------------------------------------------
\* However a film is cut into reads, across the header and around its end when
\* it is repeated, each read gives the next words of it in the clear: when it
\* has been read from its beginning and its key was there when its header was
\* complete (a key set later makes no difference).  Without decryption the
\* words are those of the file.
Plain ==
    sync => last.words = Piece(IF read_plugin THEN reel.body ELSE reel.file, place, Len(last.words))

-----------------------------------------------------------------------------
(***************************************************************************)
(* The digest of a message that comes in pieces (misclib/md5.c).  A block  *)
(* has B words (64 bytes), of which the last one ends in a length of two   *)
(* words of W bits; the lengths are in units of 2^Shift (bits in a byte).  *)
(* What md5_process_block makes of its blocks is the sequence of them: two *)
(* digests are compared as the words they are computed from.               *)
(***************************************************************************)
CONSTANTS B, W, Shift, Pieces, MaxMessage

VARIABLES hashed,           \* ctx->A .. D: the words that went into them
          total,            \* <<low, high>>
          buffer,           \* the first buflen words of ctx->buffer
          fed,              \* history: length of the message, whose n-th word is n
          finished

md5vars == <<hashed, total, buffer, fed, finished>>

Whole(n) == n - (n % B)     \* n & ~63
First(s, n) == SubSeq(s, 1, n)
After(s, n) == SubSeq(s, n + 1, Len(s))

----------------------------------------------------------------------------
ctx == [hashed |-> hashed, total |-> total, buffer |-> buffer]
SetCtx(c) == hashed' = c.hashed /\ total' = c.total /\ buffer' = c.buffer

Fresh == [hashed |-> <<>>, total |-> <<0, 0>>, buffer |-> <<>>]

\* The low word wraps, and is then less than what was added.
Count(t, n) ==
    LET low == (t[1] + n) % 2 ^ W IN <<low, (t[2] + (IF low < n THEN 1 ELSE 0)) % 2 ^ W>>

process_block(c, words) ==
    [c EXCEPT !.hashed = @ \o words, !.total = Count(@, Len(words))]

\* Mutant: a buffer that has become exactly full is forgotten.
FillKeepsLess(c, words) ==
    LET joined == c.buffer \o words
        full == IF Len(joined) >= B THEN Whole(Len(joined)) ELSE 0
        d == IF Len(joined) > B THEN process_block(c, First(joined, full)) ELSE c
    IN  [d EXCEPT !.buffer = After(joined, full)]

\* A buffer that holds something takes words; a block is processed when more follows.
Fill(c, words) ==
    LET joined == c.buffer \o words
        full == IF Len(joined) > B THEN Whole(Len(joined)) ELSE 0
        d == IF full > 0 THEN process_block(c, First(joined, full)) ELSE c
    IN  [d EXCEPT !.buffer = After(joined, full)]

process_bytes(c, words) ==
    LET left_over == Len(c.buffer)
        add == IF left_over = 0 THEN 0 ELSE Min({2 * B - left_over, Len(words)})
        d == IF left_over = 0 THEN c ELSE Fill(c, First(words, add))
        rest == After(words, add)
        direct == IF Len(rest) > B THEN Whole(Len(rest)) ELSE 0
        e == IF direct > 0 THEN process_block(d, First(rest, direct)) ELSE d
    IN  IF Len(rest) > direct THEN [e EXCEPT !.buffer = After(rest, direct)] ELSE e

\* 0x80 and zeros up to the length, which is that of the message.
finish_ctx(c) ==
    LET bytes == Len(c.buffer)
        pad == IF bytes >= B - 2 THEN B + (B - 2) - bytes ELSE (B - 2) - bytes
        t == Count(c.total, bytes)
        fillbuf == [i \in 1 .. pad |-> IF i = 1 THEN -1 ELSE 0]
        length == << (t[1] * 2 ^ Shift) % 2 ^ W,
                     ((t[2] * 2 ^ Shift) % 2 ^ W) + (t[1] \div 2 ^ (W - Shift)) >>
    IN  process_block([c EXCEPT !.total = t], c.buffer \o fillbuf \o length)

----------------------------------------------------------------------------
md5_init_ctx == SetCtx(Fresh) /\ fed' = 0 /\ finished' = FALSE

md5_process_bytes(n) ==
    /\ ~finished /\ fed + n <= MaxMessage
    /\ SetCtx(process_bytes(ctx, [i \in 1 .. n |-> fed + i]))
    /\ fed' = fed + n /\ UNCHANGED finished

md5_finish_ctx == ~finished /\ SetCtx(finish_ctx(ctx)) /\ finished' = TRUE /\ UNCHANGED fed

\* The whole message in one call.
md5sum(n) ==
    /\ SetCtx(finish_ctx(process_bytes(Fresh, [i \in 1 .. n |-> i])))
    /\ fed' = n /\ finished' = TRUE

Md5Init == hashed = <<>> /\ total = <<0, 0>> /\ buffer = <<>> /\ fed = 0 /\ finished = FALSE

Md5Next ==
    \/ md5_init_ctx
    \/ \E n \in Pieces : md5_process_bytes(n)
    \/ md5_finish_ctx
    \/ \E n \in 0 .. MaxMessage : md5sum(n)

----------------------------------------------------------------------------
\* A message with its padding, as the digest is defined: a one, zeros up to
\* two words before the end of a block, and the length.
Padded(n) ==
    LET zeros == CHOOSE z \in 0 .. B - 1 : (n + 1 + z + 2) % B = 0
        length == << (n * 2 ^ Shift) % 2 ^ W, (n \div 2 ^ (W - Shift)) % 2 ^ W >>
    IN  [i \in 1 .. n |-> i] \o <<-1>> \o [i \in 1 .. zeros |-> 0] \o length

\* However a message is cut into pieces, those that fill a block exactly and
\* those that cross several included, its digest is that of the message padded
\* as a whole, with its whole length.
Digest == finished => hashed = Padded(fed)
=============================================================================
