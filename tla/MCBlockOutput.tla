--------------------------- MODULE MCBlockOutput ---------------------------
(***************************************************************************)
(* Model of BlockOutput: requests of one to three frames.  FrameLayout     *)
(* lays the blocks out as ParseFrames does, the rest of an input is what   *)
(* the sequential decoder does with them.                                  *)
(***************************************************************************)
EXTENDS BlockOutput, FrameLayout, FiniteSetsExt

S(l, m, o) == [llen |-> l, mlen |-> m, offs |-> o]

\* The extent of a compressed block is the literals and the matches.
MatchLength(seqs) == MapThenSumSet(LAMBDA i : seqs[i].mlen, DOMAIN seqs)
Plain(t, n) == [type |-> t, size |-> n, lits |-> 0, litType |-> "raw", seqs |-> <<>>]
Cmp(t, n, seqs) ==
  [type |-> "cmp", size |-> n + MatchLength(seqs), lits |-> n, litType |-> t, seqs |-> seqs]

Frame(blocks) == [status |-> "ok", blocks |-> blocks]
Rejected == [status |-> "rejected", blocks |-> <<Plain("raw", 2), Cmp("raw", 1, <<>>)>>]
Other    == [status |-> "other", blocks |-> <<>>]

\* The sequential decoder: a sequence, a block, a frame after the other.
AddSequence(st, s, lit) ==
  LET m   == st.pos + s.llen
      now == st.content @@ [p \in st.pos .. m - 1 |-> lit[st.lit + p - st.pos]]
  IN [st EXCEPT !.pos = m + s.mlen, !.lit = @ + s.llen,
                !.content = now @@ [p \in m .. m + s.mlen - 1 |-> now[m - s.offs + ((p - m) % s.offs)]],
                !.at = Append(@, m + s.mlen), !.lits = Append(@, st.lit + s.llen)]

\* st.nth counts the blocks of each kind that came before.
AddBlock(st, block) ==
  LET i   == st.nth[block.type]
      b   == Len(st.start)
      lit == [k \in 0 .. block.lits |-> <<"cmp", i, IF block.litType = "rle" THEN 0 ELSE k>>]
      open == [pos |-> st.pos, lit |-> 0, content |-> st.content, at |-> <<st.pos>>, lits |-> <<0>>]
      after[q \in 0 .. Len(block.seqs)] ==
        IF q = 0 THEN open ELSE AddSequence(after[q - 1], block.seqs[q], lit)
      done == after[Len(block.seqs)]
      end  == st.pos + block.size
      rest == [p \in done.pos .. end - 1 |->
                 IF block.type = "cmp" THEN lit[done.lit + p - done.pos]
                                       ELSE Byte(block.type, i, p - st.pos)]
      beg  == IF block.seqs = <<>> THEN 0 ELSE Len(st.seqs)
      Points(x) == [q \in beg .. beg + Len(block.seqs) |-> x[q - beg + 1]]
  IN [st EXCEPT !.pos = end, !.content = done.content @@ rest,
                !.owner = @ @@ [p \in st.pos .. end - 1 |-> b],
                !.nth[block.type] = @ + 1,
                !.start = Append(@, st.pos), !.size = Append(@, block.size),
                !.blocks = Append(@, block),
                !.at   = IF block.type = "cmp" THEN @ @@ (i :> Points(done.at)) ELSE @,
                !.lit  = IF block.type = "cmp" THEN @ @@ (i :> Points(done.lits)) ELSE @,
                !.seqs = @ \o block.seqs,
                !.seqStart = IF block.seqs = <<>> THEN @ ELSE Append(@, Len(st.seqs)),
                !.stream = IF block.type # "cmp" THEN @
                           ELSE @ @@ (i :> IF block.seqs = <<>> THEN NoStream ELSE Len(st.seqStart))]

Decode(frames, offs) ==
  LET begin == [pos |-> 0, content |-> <<>>, owner |-> <<>>, nth |-> [t \in Kinds |-> 0],
                start |-> <<>>, size |-> <<>>, blocks |-> <<>>, frame |-> <<>>, at |-> <<>>, lit |-> <<>>,
                seqs |-> <<>>, seqStart |-> <<>>, stream |-> <<>>]
      In(f, st) ==
        LET blocks == IF frames[f].status = "ok" THEN frames[f].blocks ELSE <<>>
            after[j \in 0 .. Len(blocks)] ==
              IF j = 0 THEN [st EXCEPT !.pos = offs[f],
                                       !.frame = @ \o [k \in 1 .. Len(blocks) |-> f - 1]]
              ELSE AddBlock(after[j - 1], blocks[j])
        IN after[Len(blocks)]
      after[f \in 0 .. Len(frames)] == IF f = 0 THEN begin ELSE In(f, after[f - 1])
  IN after[Len(frames)]

Upto(n, seq) == [i \in 0 .. n - 1 |-> seq[i + 1]]
From0(seq)   == Upto(Len(seq), seq)

\* The sums of the sizes of the first blocks of a list.
Sums(list, size) ==
  LET sum[i \in 0 .. Cardinality(DOMAIN list)] ==
        IF i = 0 THEN 0 ELSE sum[i - 1] + size[list[i - 1] + 1]
  IN [i \in 0 .. Cardinality(DOMAIN list) |-> sum[i]]

\* What the kernels before leave of these frames, placed at offs.
Request(frames, offs) ==
  LET n      == Len(frames)
      ref    == Decode(frames, offs)
      starts == BlockStarts(frames)
      index  == BlockLists(frames, starts)
      cmp    == [c \in DOMAIN index["cmp"] |-> ref.blocks[index["cmp"][c] + 1]]
      sums   == [t \in {"raw", "rle"} |-> Sums(index[t], ref.size)]
      total  == Sums(From0([b \in DOMAIN ref.size |-> b - 1]), ref.size)
  IN [frameCount |-> n, Frames |-> FrameCounter(frames), blocks |-> GlobalIndex(starts[n + 1]),
      blockCount |-> starts[n + 1], blockIndex |-> index, frameOffs |-> From0(offs),
      first    |-> Upto(n, [f \in 1 .. n |-> GlobalIndex(starts[f])]),
      cmpFirst |-> Upto(n, [f \in 1 .. n |-> starts[f]["cmp"]]),
      blockSizePrefix |-> [b \in 0 .. Len(ref.size) - 1 |-> total[b + 1]],
      bytesPrefix |-> [t \in {"raw", "rle"} |-> [i \in DOMAIN index[t] |-> sums[t][i]]],
      bytes    |-> [t \in {"raw", "rle"} |-> sums[t][starts[n + 1][t]]],
      litSize  |-> [c \in DOMAIN cmp |-> cmp[c].lits], litType |-> [c \in DOMAIN cmp |-> cmp[c].litType],
      stream   |-> ref.stream, streams |-> Len(ref.seqStart), sequences |-> Len(ref.seqs),
      seqStart |-> From0(ref.seqStart), seqs |-> From0(ref.seqs),
      outSize  |-> Max(DOMAIN ref.content \cup {0}) + 1,
      ref |-> [frame |-> From0(ref.frame), start |-> From0(ref.start), owner |-> ref.owner,
               content |-> ref.content, at |-> ref.at, lit |-> ref.lit]]

\* Every pair of short sequences after a raw block, as far back as it goes.
Pairs ==
  {Request(<<Frame(<<Plain("raw", 5), Cmp("cmp", 3, <<S(l, m, o), S(k, n, d)>>)>>)>>, <<0>>) :
     l \in 0 .. 1, k \in 0 .. 2, m \in 3 .. 4, n \in 3 .. 4, o \in 1 .. 5, d \in {1, 3, 4, 6, 7, 8}}

\* Matches of several passes, odd numbers of sequences, RLE literals, blocks
\* without bytes, and blocks that reach into the blocks before.
Long ==
  {Request(<<Frame(<<Plain("rle", 3), Cmp(t, 4, seqs), Plain("raw", 0), Cmp("raw", 1, <<S(0, 4, d)>>)>>)>>,
           <<2>>) :
     t \in {"cmp", "rle"}, d \in {1, 5},
     seqs \in {<<S(1, 7, 3)>>, <<S(1, 9, 4)>>, <<S(0, 6, 1), S(2, 3, 2), S(1, 3, 9)>>}}

A == Frame(<<Cmp("cmp", 2, <<S(1, 3, 1)>>), Plain("raw", 1)>>)
B == Frame(<<Plain("rle", 2), Cmp("raw", 1, <<S(1, 3, 3)>>), Cmp("rle", 1, <<>>)>>)

\* Several frames: placed in any order, some rejected, some not of zstd.
Several ==
  {Request(<<A, B>>, <<8, 0>>), Request(<<A, Rejected, B>>, <<0, 7, 7>>),
   Request(<<Other, A, B>>, <<0, 0, 7>>), Request(<<B, Other, Other, A>>, <<7, 0, 0, 0>>),
   Request(<<Other, Rejected>>, <<0, 0>>)}

MCInputs == Pairs \cup Long \cup Several

============================================================================
