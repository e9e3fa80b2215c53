----------------------------- MODULE Client_proofs -----------------------------
(***************************************************************************)
(* Proofs about two parts of the client: Chunker, for every file, chunk    *)
(* size and length of files, and CommandQueue, for any callers and any     *)
(* number of commands; and about the four parts side by side.              *)
(***************************************************************************)
EXTENDS MCClient, Account_proofs, Watcher_proofs, FiniteSetTheorems, SequenceTheorems, TLAPS

-------------------------------------------------------------------------------
(* Base64                                                                  *)

\* A text is as long as the data and what fills it up to groups of three.
LEMMA EncodeProperties ==
  ASSUME NEW bytes \in Seq(Bytes)
  PROVE  /\ Len(Encode(bytes)) = 3 * ((Len(bytes) + 2) \div 3)
         /\ Encode(bytes) \in Seq(Bytes \cup {Pad})
         /\ \A i \in 1 .. Len(Encode(bytes)) :
              Encode(bytes)[i] = IF i <= Len(bytes) THEN bytes[i] ELSE Pad
  <1> DEFINE m == 3 * ((Len(bytes) + 2) \div 3)
             e == [i \in 1 .. m |-> IF i <= Len(bytes) THEN bytes[i] ELSE Pad]
  <1>1. m \in Nat
    OBVIOUS
  <1>2. \A i \in 1 .. m : (IF i <= Len(bytes) THEN bytes[i] ELSE Pad) \in Bytes \cup {Pad}
    OBVIOUS
  <1>3. e \in [1 .. m -> Bytes \cup {Pad}]
    BY <1>2
  <1>4. e \in Seq(Bytes \cup {Pad}) /\ Len(e) = m
    BY <1>1, <1>3
  <1>5. Encode(bytes) = e
    BY DEF Encode
  <1>6. \A i \in 1 .. m : e[i] = IF i <= Len(bytes) THEN bytes[i] ELSE Pad
    OBVIOUS
  <1> HIDE DEF e
  <1> QED
    BY <1>4, <1>5, <1>6

\* Which places of the text are filled up.
LEMMA PadPlaces ==
  ASSUME NEW bytes \in Seq(Bytes)
  PROVE  /\ Encode(bytes) \in Seq(Bytes \cup {Pad})
         /\ Len(bytes) \in Nat
         /\ (Len(bytes) + 2) \div 3 \in Nat
         /\ Len(Encode(bytes)) = 3 * ((Len(bytes) + 2) \div 3)
         /\ Len(bytes) <= Len(Encode(bytes)) /\ Len(Encode(bytes)) <= Len(bytes) + 2
         /\ \A i \in 1 .. Len(Encode(bytes)) : Encode(bytes)[i] = Pad <=> i > Len(bytes)
  <1>1. /\ Encode(bytes) \in Seq(Bytes \cup {Pad})
        /\ Len(bytes) \in Nat /\ (Len(bytes) + 2) \div 3 \in Nat
        /\ Len(Encode(bytes)) = 3 * ((Len(bytes) + 2) \div 3)
        /\ Len(bytes) <= Len(Encode(bytes)) /\ Len(Encode(bytes)) <= Len(bytes) + 2
    BY EncodeProperties
  <1>2. ASSUME NEW i \in 1 .. Len(Encode(bytes))
        PROVE  Encode(bytes)[i] = Pad <=> i > Len(bytes)
    <2>1. i <= Len(bytes) => bytes[i] \in Bytes
      BY <1>1
    <2> QED
      BY <2>1, <1>1, EncodeProperties, PadAssumption
  <1> QED
    BY <1>1, <1>2

\* What calcDecodeLength finds at the end is what was filled up.
LEMMA PaddingFills ==
  ASSUME NEW bytes \in Seq(Bytes)
  PROVE  Padding(Encode(bytes)) = Len(Encode(bytes)) - Len(bytes)
  <1> DEFINE text == Encode(bytes)
             n == Len(bytes)
  <1>1. /\ Len(text) \in Nat /\ n \in Nat /\ n <= Len(text) /\ Len(text) <= n + 2
        /\ Len(text) = 3 * ((n + 2) \div 3)
        /\ \A i \in 1 .. Len(text) : text[i] = Pad <=> i > n
    BY PadPlaces
  <1>2. Len(text) # 0 => Len(text) > 2
    BY <1>1
  <1> SUFFICES Padding(text) = Len(text) - n
    OBVIOUS
  <1> HIDE DEF text, n
  <1>3. CASE Len(text) = 0
    BY <1>1, <1>3, LengthByteAssumption DEF Padding, Char
  <1>4. CASE Len(text) # 0
    <2>1. /\ Char(text, Len(text)) = Pad <=> n < Len(text)
          /\ Char(text, Len(text) - 1) = Pad <=> n < Len(text) - 1
      BY <1>1, <1>2, <1>4 DEF Char
    <2> QED
      BY <2>1, <1>1 DEF Padding
  <1> QED
    BY <1>3, <1>4

\* Base64Decode undoes Base64Encode.
LEMMA RoundTrip ==
  ASSUME NEW bytes \in Seq(Bytes)
  PROVE  Decode(Encode(bytes)) = bytes
  <1> DEFINE text == Encode(bytes)
             n == Len(bytes)
             Data == {j \in 1 .. Len(text) : \A k \in 1 .. j : text[k] # Pad}
  <1>1. /\ Len(text) \in Nat /\ n \in Nat /\ n <= Len(text)
        /\ \A i \in 1 .. Len(text) : text[i] = Pad <=> i > n
    BY PadPlaces
  <1>2. \A i \in 1 .. n : text[i] = bytes[i]
    BY <1>1, EncodeProperties
  <1>3. Decode(text) = [i \in Data |-> text[i]]
    BY DEF Decode
  <1> HIDE DEF text
  <1>4. Data = 1 .. n
    BY <1>1
  <1>5. bytes = [i \in 1 .. n |-> bytes[i]]
    OBVIOUS
  <1> HIDE DEF Data, n
  <1>6. [i \in Data |-> text[i]] = [i \in 1 .. n |-> bytes[i]]
    BY <1>2, <1>4
  <1> QED
    BY <1>3, <1>5, <1>6 DEF text

\* The buffer has exactly the size of the data.
LEMMA BufferExact ==
  ASSUME NEW bytes \in Seq(Bytes)
  PROVE  BufferSize(Encode(bytes)) = Len(bytes)
  <1> DEFINE m == Len(Encode(bytes))
             k == (Len(bytes) + 2) \div 3
  <1>1. m = 3 * k /\ k \in Nat /\ Len(bytes) \in Nat
    BY EncodeProperties
  <1>2. Padding(Encode(bytes)) = m - Len(bytes)
    BY PaddingFills
  <1>3. m \div 3 = k
    BY <1>1
  <1>4. (Characters(Encode(bytes)) * 3) \div 4 = m
    BY <1>1, <1>3 DEF Characters
  <1> QED
    BY <1>1, <1>2, <1>4 DEF BufferSize
-------------------------------------------------------------------------------
(* The chunks are a file's bytes, one after the other                      *)

\* Where chunk i begins.
Start(i) == (i - 1) * ChunkSize

\* What division makes of a beginning and a rest.
LEMMA Quotient ==
  ASSUME NEW C \in Nat \ {0}, NEW q \in Nat, NEW s \in Nat, s < C
  PROVE  (q * C + s) \div C = q
  OBVIOUS

LEMMA StartNext ==
  /\ Start(1) = 0
  /\ \A i \in Nat \ {0} : Start(i) \in Nat /\ Start(i + 1) = Start(i) + ChunkSize
  BY ChunkSizeAssumption, SMT DEF Start

\* Each chunk holds the bytes from its place on, and only the last one may be
\* shorter.
ChunksCut ==
  \A i \in 1 .. Len(chunks) :
    /\ Start(i) + chunks[i].size <= Len(file)
    /\ chunks[i].data = SubSeq(file, Start(i) + 1, Start(i) + chunks[i].size)
    /\ i < Len(chunks) \/ ~ eof => chunks[i].size = ChunkSize

\* How far the file was read.
ReadSoFar ==
  /\ ~ eof => pos = Start(Len(chunks) + 1)
  /\ eof => /\ Len(chunks) > 0 /\ pos = Len(file)
            /\ Start(Len(chunks)) + chunks[Len(chunks)].size = pos
            /\ chunks[Len(chunks)].size < ChunkSize
  /\ ~ opened => ~ eof /\ chunks = <<>>

\* What was merged is a beginning of the file.
MergedSoFar ==
  /\ merged > 0 => Chunked
  /\ out = IF merged = 0 THEN <<>>
           ELSE SubSeq(file, 1, Start(merged) + chunks[merged].size)

ChunkerInv == ChunkerTypeOK /\ ChunksCut /\ ReadSoFar /\ MergedSoFar

Chunk == [size: 0 .. ChunkSize, data: Seq(Bytes)]

\* What is known of one chunk.
LEMMA OneChunk ==
  ASSUME ChunkerTypeOK, NEW i \in 1 .. Len(chunks)
  PROVE  /\ chunks[i] \in Chunk /\ chunks[i].size \in Nat
         /\ chunks[i].data \in Seq(Bytes) /\ Len(chunks[i].data) = chunks[i].size
  <1>1. chunks \in Seq(Chunk) /\ Len(chunks[i].data) = chunks[i].size
    BY DEF ChunkerTypeOK, Chunk
  <1>2. chunks[i] \in Chunk
    BY <1>1
  <1> QED
    BY <1>1, <1>2, ChunkSizeAssumption DEF Chunk

LEMMA ChunkerInvInit == ChunkerInit => ChunkerInv
  <1> SUFFICES ASSUME ChunkerInit PROVE ChunkerInv
    OBVIOUS
  <1>1. PICK n \in 0 .. MaxLength : file \in [1 .. n -> Bytes]
    BY DEF ChunkerInit
  <1>2. file \in Seq(Bytes)
    BY <1>1, MaxLengthAssumption
  <1>3. /\ opened \in BOOLEAN /\ eof = FALSE /\ pos = 0 /\ merged = 0
        /\ out = <<>> /\ chunks = <<>> /\ Len(chunks) = 0
    BY DEF ChunkerInit
  <1>4. ChunkerTypeOK
    <2>1. /\ out \in Seq(Bytes) /\ merged \in 0 .. Len(chunks) /\ pos \in 0 .. Len(file)
          /\ chunks \in Seq([size: 0 .. ChunkSize, data: Seq(Bytes)])
      BY <1>2, <1>3
    <2>2. \A i \in 1 .. Len(chunks) : Len(chunks[i].data) = chunks[i].size
      BY <1>3
    <2> QED
      BY <1>2, <1>3, <2>1, <2>2 DEF ChunkerTypeOK
  <1>5. ChunksCut
    BY <1>3 DEF ChunksCut
  <1>6. ReadSoFar
    BY <1>3, StartNext DEF ReadSoFar
  <1>7. MergedSoFar
    BY <1>3 DEF MergedSoFar
  <1> QED
    BY <1>4, <1>5, <1>6, <1>7 DEF ChunkerInv

\* What a read adds.
LEMMA ReadAdds ==
  ASSUME ChunkerInv, ReadChunk
  PROVE  \E n \in 0 .. ChunkSize, bytes \in Seq(Bytes) :
           /\ chunks' = Append(chunks, [size |-> n, data |-> bytes])
           /\ bytes = SubSeq(file, pos + 1, pos + n) /\ Len(bytes) = n
           /\ pos' = pos + n /\ pos + n <= Len(file)
           /\ eof' \in BOOLEAN /\ (eof' <=> n < ChunkSize)
           /\ n < ChunkSize => pos + n = Len(file)
           /\ ~ eof /\ opened /\ UNCHANGED <<file, opened, merged, out>>
  <1> DEFINE n == Least(ChunkSize, Len(file) - pos)
             bytes == SubSeq(file, pos + 1, pos + n)
  <1>1. file \in Seq(Bytes) /\ pos \in 0 .. Len(file) /\ Len(file) \in Nat
    BY DEF ChunkerInv, ChunkerTypeOK
  <1>2. n \in 0 .. ChunkSize /\ pos + n <= Len(file) /\ (n < ChunkSize => pos + n = Len(file))
    BY <1>1, ChunkSizeAssumption DEF Least
  <1>3. \A i \in pos + 1 .. pos + n : file[i] \in Bytes
    BY <1>1, <1>2
  <1>4. bytes \in Seq(Bytes) /\ Len(bytes) = n
    <2> HIDE DEF n
    <2>1. Len(bytes) = IF pos + 1 <= pos + n THEN (pos + n) - (pos + 1) + 1 ELSE 0
      BY <1>1, <1>2, <1>3, SubSeqProperties
    <2>2. bytes \in Seq(Bytes)
      BY <1>1, <1>2, <1>3, SubSeqProperties
    <2> QED
      BY <2>1, <2>2, <1>1, <1>2
  <1>5. /\ chunks' = Append(chunks, [size |-> n, data |-> bytes])
        /\ pos' = pos + n /\ eof' = (n < ChunkSize)
        /\ ~ eof /\ opened /\ UNCHANGED <<file, opened, merged, out>>
    BY DEF ReadChunk, CreateChunk
  <1> HIDE DEF n
  <1>7. eof' \in BOOLEAN /\ (eof' <=> n < ChunkSize)
    <2>1. (n < ChunkSize) \in BOOLEAN
      OBVIOUS
    <2> QED
      BY <2>1, <1>5, AsFormula, Zenon
  <1> HIDE DEF bytes
  <1>6. bytes = SubSeq(file, pos + 1, pos + n)
    BY DEF bytes
  <1> QED
    BY <1>2, <1>4, <1>5, <1>6, <1>7, Zenon

LEMMA ReadKeepsInv ==
  ASSUME ChunkerInv, ReadChunk
  PROVE  ChunkerInv'
  <1>1. PICK n \in 0 .. ChunkSize, bytes \in Seq(Bytes) :
           /\ chunks' = Append(chunks, [size |-> n, data |-> bytes])
           /\ bytes = SubSeq(file, pos + 1, pos + n) /\ Len(bytes) = n
           /\ pos' = pos + n /\ pos + n <= Len(file)
           /\ eof' \in BOOLEAN /\ (eof' <=> n < ChunkSize)
           /\ n < ChunkSize => pos + n = Len(file)
           /\ ~ eof /\ opened /\ UNCHANGED <<file, opened, merged, out>>
    BY ReadAdds
  <1> DEFINE c == [size |-> n, data |-> bytes]
             l == Len(chunks)
  <1>2. /\ chunks \in Seq(Chunk) /\ c \in Chunk
        /\ l \in Nat /\ pos \in Nat /\ Len(file) \in Nat
    <2>1. chunks \in Seq(Chunk) /\ pos \in Nat /\ Len(file) \in Nat
      BY DEF ChunkerInv, ChunkerTypeOK, Chunk
    <2>2. c \in Chunk
      BY DEF Chunk
    <2> QED
      BY <2>1, <2>2
  <1>3. merged = 0
    BY <1>1, <1>2 DEF ChunkerInv, ChunkerTypeOK, MergedSoFar, Chunked
  <1>4. c.size = n /\ c.data = bytes
    OBVIOUS
  <1> HIDE DEF c
  <1>5. /\ chunks' \in Seq(Chunk)
        /\ Len(chunks') = l + 1 /\ chunks'[l + 1] = c
        /\ \A i \in 1 .. l : chunks'[i] = chunks[i]
    <2>1. chunks' = Append(chunks, c)
      BY <1>1 DEF c
    <2> QED
      BY <2>1, <1>2, AppendProperties
  <1>6. ChunkerTypeOK'
    <2>0. /\ file' \in Seq(Bytes) /\ out' \in Seq(Bytes)
          /\ opened' \in BOOLEAN /\ eof' \in BOOLEAN
          /\ pos' \in 0 .. Len(file') /\ merged' \in 0 .. Len(chunks')
      <3>1. file \in Seq(Bytes) /\ out \in Seq(Bytes) /\ n \in Nat
        BY ChunkSizeAssumption DEF ChunkerInv, ChunkerTypeOK
      <3>2. pos' \in 0 .. Len(file)
        BY <3>1, <1>1, <1>2
      <3>3. merged' = 0 /\ Len(chunks') = l + 1
        BY <1>1, <1>3, <1>5
      <3> HIDE DEF l
      <3>4. merged' \in 0 .. Len(chunks')
        BY <3>3, <1>2
      <3>5. file' = file /\ out' = out /\ opened' \in BOOLEAN /\ eof' \in BOOLEAN
        BY <1>1
      <3> QED
        BY <3>1, <3>2, <3>4, <3>5
    <2>1. \A i \in 1 .. Len(chunks') : Len(chunks'[i].data) = chunks'[i].size
      <3>1. \A i \in 1 .. l : Len(chunks[i].data) = chunks[i].size
        BY DEF ChunkerInv, ChunkerTypeOK
      <3>2. Len(c.data) = c.size
        BY <1>1, <1>4
      <3> HIDE DEF l
      <3>3. ASSUME NEW i \in 1 .. l + 1 PROVE i \in 1 .. l \/ i = l + 1
        BY <1>2
      <3> QED
        BY <1>5, <3>1, <3>2, <3>3
    <2> QED
      BY <2>0, <2>1, <1>5 DEF ChunkerTypeOK, Chunk
  <1>7. pos = Start(l + 1)
    BY <1>1 DEF ChunkerInv, ReadSoFar
  <1>8. ChunksCut'
    <2> SUFFICES ASSUME NEW i \in 1 .. l + 1
                 PROVE  /\ Start(i) + chunks'[i].size <= Len(file)
                        /\ chunks'[i].data = SubSeq(file, Start(i) + 1, Start(i) + chunks'[i].size)
                        /\ i < l + 1 \/ ~ eof' => chunks'[i].size = ChunkSize
      BY <1>1, <1>5 DEF ChunksCut
    <2>1. CASE i \in 1 .. l
      BY <2>1, <1>1, <1>5 DEF ChunkerInv, ChunksCut
    <2>2. CASE i = l + 1
      <3>1. chunks'[i].size = n /\ chunks'[i].data = bytes /\ Start(i) = pos
        BY <2>2, <1>4, <1>5, <1>7
      <3>2. ~ eof' => n = ChunkSize
        BY <1>1, ChunkSizeAssumption
      <3>3. ~ (i < l + 1)
        BY <2>2, <1>2
      <3>4. n \in Nat /\ Start(i) + n <= Len(file)
        BY <3>1, <1>1, <1>2, ChunkSizeAssumption
      <3>5. bytes = SubSeq(file, Start(i) + 1, Start(i) + n)
        BY <3>1, <1>1
      <3> QED
        BY <3>1, <3>2, <3>3, <3>4, <3>5
    <2> QED
      BY <2>1, <2>2, <1>2
  <1>9. ReadSoFar'
    <2>1. ~ eof' => n = ChunkSize
      BY <1>1, ChunkSizeAssumption
    <2>2. Start(l + 2) = Start(l + 1) + ChunkSize
      BY StartNext, <1>2
    <2>3. n < ChunkSize => pos' = Len(file)
      BY <1>1
    <2>4. Start(l + 1) + chunks'[l + 1].size = pos'
      BY <1>1, <1>4, <1>5, <1>7
    <2>5. Len(chunks') = l + 1 /\ (l + 1) + 1 = l + 2 /\ l + 1 > 0
      BY <1>2, <1>5
    <2>6. pos' = pos + n /\ file' = file /\ (eof' <=> n < ChunkSize)
      BY <1>1
    <2>7. ~ eof' => pos' = Start(Len(chunks') + 1)
      BY <2>1, <2>2, <2>5, <2>6, <1>7
    <2>8. eof' => /\ Len(chunks') > 0 /\ pos' = Len(file')
                  /\ Start(Len(chunks')) + chunks'[Len(chunks')].size = pos'
                  /\ chunks'[Len(chunks')].size < ChunkSize
      BY <2>3, <2>4, <2>5, <2>6, <1>4, <1>5
    <2>9. opened'
      BY <1>1
    <2> QED
      BY <2>7, <2>8, <2>9 DEF ReadSoFar
  <1>10. MergedSoFar'
    BY <1>1, <1>3 DEF ChunkerInv, MergedSoFar
  <1> QED
    BY <1>6, <1>8, <1>9, <1>10 DEF ChunkerInv

\* A chunk comes out of JSON as it was put in.
LEMMA ChunkSurvives ==
  ASSUME NEW c \in Chunk, c.data \in Seq(Bytes), Len(c.data) = c.size
  PROVE  /\ Deserialize(Serialize(c)).size = c.size
         /\ Deserialize(Serialize(c)).data = c.data
  <1>1. c.data \in Seq(Bytes) /\ SubSeq(c.data, 1, c.size) = c.data
    BY SubSeqFull
  <1>2. Decode(Encode(SubSeq(c.data, 1, c.size))) = c.data
    BY <1>1, RoundTrip
  <1> QED
    BY <1>2 DEF Serialize, Deserialize, CreateChunk

LEMMA MergeKeepsInv ==
  ASSUME ChunkerInv, MergeChunk
  PROVE  ChunkerInv'
  <1> DEFINE k == merged + 1
             c == chunks[k]
             from == Start(k)
  <1>1. /\ merged \in Nat /\ k \in 1 .. Len(chunks) /\ merged' = k
        /\ UNCHANGED <<file, opened, pos, eof, chunks>> /\ Chunked
        /\ file \in Seq(Bytes) /\ out \in Seq(Bytes)
    BY DEF ChunkerInv, ChunkerTypeOK, MergeChunk
  <1>2. /\ c \in Chunk /\ Len(c.data) = c.size /\ c.data \in Seq(Bytes)
        /\ c.size \in Nat /\ from \in Nat /\ Len(file) \in Nat
        /\ from + c.size <= Len(file)
        /\ c.data = SubSeq(file, from + 1, from + c.size)
    <2>1. c \in Chunk /\ Len(c.data) = c.size /\ c.size \in Nat /\ c.data \in Seq(Bytes)
      BY <1>1, OneChunk DEF ChunkerInv
    <2>2. from \in Nat /\ Len(file) \in Nat
      <3>1. merged + 1 \in Nat \ {0}
        BY <1>1
      <3>2. Start(merged + 1) \in Nat
        BY <3>1, StartNext, Zenon
      <3>3. Len(file) \in Nat
        BY <1>1
      <3> QED
        BY <3>2, <3>3
    <2>3. from + c.size <= Len(file) /\ c.data = SubSeq(file, from + 1, from + c.size)
      <3>1. \A i \in 1 .. Len(chunks) :
              /\ Start(i) + chunks[i].size <= Len(file)
              /\ chunks[i].data = SubSeq(file, Start(i) + 1, Start(i) + chunks[i].size)
        BY DEF ChunkerInv, ChunksCut
      <3> QED
        BY <1>1, <3>1, Zenon
    <2> QED
      BY <2>1, <2>2, <2>3
  <1>3. out' = out \o c.data
    <2>1. out' = out \o SubSeq(Deserialize(Serialize(c)).data, 1, Deserialize(Serialize(c)).size)
      BY DEF MergeChunk
    <2>2. SubSeq(c.data, 1, c.size) = c.data
      BY <1>2, SubSeqFull
    <2> QED
      BY <2>1, <2>2, <1>2, ChunkSurvives
  <1>4. out = SubSeq(file, 1, from)
    <2>1. CASE merged = 0
      <3>1. from = 0 /\ out = <<>>
        BY <2>1, StartNext DEF ChunkerInv, MergedSoFar
      <3> QED
        BY <3>1, SubSeqEmpty
    <2>2. CASE merged # 0
      <3>1. merged \in 1 .. Len(chunks) /\ merged < Len(chunks)
        BY <2>2, <1>1
      <3>2. chunks[merged].size = ChunkSize
        BY <3>1 DEF ChunkerInv, ChunksCut
      <3>3. from = Start(merged) + ChunkSize
        BY <3>1, StartNext
      <3>4. out = SubSeq(file, 1, Start(merged) + chunks[merged].size)
        BY <2>2 DEF ChunkerInv, MergedSoFar
      <3> QED
        BY <3>2, <3>3, <3>4, Zenon
    <2> QED
      BY <2>1, <2>2
  <1>5. out' = SubSeq(file, 1, from + c.size)
    <2> HIDE DEF c, from
    <2>1. SubSeq(file, 1, from) \o SubSeq(file, from + 1, from + c.size)
            = SubSeq(file, 1, from + c.size)
      <3>1. /\ 1 \in 1 .. Len(file) + 1 /\ from \in 1 - 1 .. Len(file)
            /\ from + c.size \in from .. Len(file)
        <4> DEFINE s == c.size
                   n == Len(file)
        <4>1. from \in Nat /\ s \in Nat /\ n \in Nat /\ from + s <= n
          BY <1>2
        <4> HIDE DEF s, n
        <4>2. 1 \in 1 .. n + 1 /\ from \in 1 - 1 .. n /\ from + s \in from .. n
          BY <4>1
        <4> QED
          BY <4>2 DEF s, n
      <3> QED
        BY <3>1, <1>1, ConcatAdjacentSubSeq
    <2> QED
      BY <2>1, <1>2, <1>3, <1>4
  <1>6. out' \in Seq(Bytes)
    BY <1>1, <1>2, <1>3, ConcatProperties
  <1>7. ChunkerTypeOK'
    BY <1>1, <1>6 DEF ChunkerInv, ChunkerTypeOK
  <1>8. MergedSoFar'
    <2>1. merged' > 0 /\ merged' # 0 /\ Chunked'
      BY <1>1 DEF Chunked
    <2>2. out' = SubSeq(file', 1, Start(merged') + chunks'[merged'].size)
      BY <1>1, <1>5
    <2> QED
      BY <2>1, <2>2 DEF MergedSoFar
  <1>9. ChunksCut' /\ ReadSoFar'
    BY <1>1 DEF ChunkerInv, ChunksCut, ReadSoFar
  <1> QED
    BY <1>7, <1>8, <1>9 DEF ChunkerInv

\* The inductive invariant of cutting and merging (Chunker::ChunkFile,
\* Chunker::MergeFile).
THEOREM ChunkerInvariant == ChunkerSpec => []ChunkerInv
  <1>1. ChunkerInv /\ [ChunkerNext]_chunkerVars => ChunkerInv'
    <2> SUFFICES ASSUME ChunkerInv, [ChunkerNext]_chunkerVars PROVE ChunkerInv'
      OBVIOUS
    <2>1. CASE UNCHANGED chunkerVars
      BY <2>1 DEF chunkerVars, ChunkerInv, ChunkerTypeOK, ChunksCut, ReadSoFar, MergedSoFar, Chunked
    <2> QED
      BY <2>1, ReadKeepsInv, MergeKeepsInv DEF ChunkerNext
  <1> QED
    BY <1>1, ChunkerInvInit, PTL DEF ChunkerSpec

\* Whatever the file, the size of a chunk and the bytes: what is merged of all
\* the chunks is the file (Chunker::ChunkFile, Chunker::MergeFile,
\* SerializerChunk).
THEOREM FileIsRestored == ChunkerSpec => []Restored
  <1>1. ChunkerInv => Restored
    <2> SUFFICES ASSUME ChunkerInv, eof, merged = Len(chunks) PROVE out = file
      BY DEF Restored
    <2>1. merged > 0 /\ file \in Seq(Bytes)
      BY DEF ChunkerInv, ReadSoFar, ChunkerTypeOK
    <2>2. Start(merged) + chunks[merged].size = Len(file)
      BY DEF ChunkerInv, ReadSoFar
    <2>3. out = SubSeq(file, 1, Len(file))
      BY <2>1, <2>2 DEF ChunkerInv, MergedSoFar
    <2> QED
      BY <2>1, <2>3, SubSeqFull
  <1> QED
    BY <1>1, ChunkerInvariant, PTL

\* A file has one chunk more than it fills (Chunker::ChunkFile).
THEOREM LastIsShorter == ChunkerSpec => []OneNotFull
  <1>1. ChunkerInv => OneNotFull
    <2> SUFFICES ASSUME ChunkerInv, Chunked
                 PROVE  Len(chunks) = IF opened THEN (Len(file) \div ChunkSize) + 1 ELSE 0
      BY DEF OneNotFull
    <2>1. CASE ~ opened
      BY <2>1 DEF ChunkerInv, ReadSoFar
    <2>2. CASE opened
      <3> DEFINE l == Len(chunks)
                 s == chunks[l].size
      <3>1. eof /\ chunks \in Seq(Chunk)
        BY <2>2 DEF Chunked, ChunkerInv, ChunkerTypeOK, Chunk
      <3>2. l \in Nat /\ l > 0 /\ l \in 1 .. l
        BY <3>1 DEF ChunkerInv, ReadSoFar
      <3>3. s \in Nat
        BY <3>2, OneChunk DEF ChunkerInv
      <3>4. s < ChunkSize /\ Len(file) = (l - 1) * ChunkSize + s
        BY <3>1 DEF ChunkerInv, ReadSoFar, Start
      <3> HIDE DEF l, s
      <3>5. Len(file) \div ChunkSize = l - 1
        BY <3>2, <3>3, <3>4, Quotient, ChunkSizeAssumption
      <3> QED
        BY <2>2, <3>2, <3>5 DEF l
    <2> QED
      BY <2>1, <2>2
  <1> QED
    BY <1>1, ChunkerInvariant, PTL

\* For every chunk, what BIO_read takes out of its text fits the buffer whose
\* size calcDecodeLength gets from the text's end (Base64Decode).
THEOREM DecodedFits == ChunkerSpec => []BufferFits
  <1>1. ChunkerInv => BufferFits
    <2> SUFFICES ASSUME ChunkerInv, NEW i \in 1 .. Len(chunks)
                 PROVE  Len(Decode(Serialize(chunks[i]).text))
                             <= BufferSize(Serialize(chunks[i]).text)
      BY DEF BufferFits
    <2> DEFINE bytes == SubSeq(chunks[i].data, 1, chunks[i].size)
    <2>1. bytes \in Seq(Bytes)
      BY SubSeqFull, OneChunk DEF ChunkerInv
    <2>2. Serialize(chunks[i]).text = Encode(bytes)
      BY DEF Serialize
    <2> HIDE DEF bytes
    <2>3. Len(bytes) \in Nat /\ Decode(Encode(bytes)) = bytes /\ BufferSize(Encode(bytes)) = Len(bytes)
      BY <2>1, RoundTrip, BufferExact
    <2> QED
      BY <2>2, <2>3
  <1> QED
    BY <1>1, ChunkerInvariant, PTL

-------------------------------------------------------------------------------
(* The command queue: its types, and the order of its commands             *)

WorkerPlaces == {"start", "check", "front", "pop", "do", "end", "gone"}

WorkerStates == [at: WorkerPlaces, cmd: Nat]

QueueTypes ==
  /\ commands \in Seq(Nat) /\ ran \in Seq(Nat) /\ queued \in Nat
  /\ working \in BOOLEAN /\ late \in BOOLEAN /\ broken \in BOOLEAN
  /\ workers \in Seq(WorkerStates)

\* There is one worker that has not gone, and the flag tells of it once it runs.
OneWorker ==
  /\ \A t, u \in DOMAIN workers : t = u \/ workers[t].at = "gone" \/ workers[u].at = "gone"
  /\ \A t \in DOMAIN workers : workers[t].at \in WorkerPlaces \ {"start", "gone"} => working

\* The queue holds the commands after those that ran, in order.
Ordered ==
  /\ queued = Len(ran) + Len(commands)
  /\ \A i \in 1 .. Len(commands) : commands[i] = Len(ran) + i

\* A worker that has seen a command finds it.
Holds ==
  \A t \in DOMAIN workers :
    /\ workers[t].at \in {"front", "pop"} => commands # <<>>
    /\ workers[t].at = "pop" => workers[t].cmd = Len(ran) + 1

QueueInv ==
  /\ QueueTypes
  /\ ~ late => OneWorker /\ Ordered /\ Holds /\ ~ broken

-------------------------------------------------------------------------------
LEMMA QueueInvInit == QueueInit => QueueInv
  <1> SUFFICES ASSUME QueueInit PROVE QueueInv
    OBVIOUS
  <1>1. /\ commands = <<>> /\ ran = <<>> /\ workers = <<>> /\ queued = 0
        /\ Len(commands) = 0 /\ Len(ran) = 0 /\ DOMAIN workers = {}
    BY DEF QueueInit
  <1>2. QueueTypes
    <2>1. commands \in Seq(Nat) /\ ran \in Seq(Nat) /\ workers \in Seq(WorkerStates)
      <3>1. \A S : <<>> \in Seq(S)
        OBVIOUS
      <3> QED
        BY <1>1, <3>1, Zenon
    <2>2. working = FALSE /\ late = FALSE /\ broken = FALSE
      BY DEF QueueInit
    <2>3. queued \in Nat
      BY <1>1
    <2> QED
      BY <2>1, <2>2, <2>3 DEF QueueTypes
  <1>3. OneWorker /\ Ordered /\ Holds
    BY <1>1 DEF OneWorker, Ordered, Holds
  <1> QED
    BY <1>2, <1>3 DEF QueueInit, QueueInv

LEMMA OneState ==
  ASSUME QueueTypes, NEW t \in DOMAIN workers
  PROVE  workers[t] \in WorkerStates /\ workers[t].at \in WorkerPlaces /\ workers[t].cmd \in Nat
  <1>1. workers[t] \in WorkerStates
    BY DEF QueueTypes
  <1> QED
    BY <1>1 DEF WorkerStates

\* One worker's record is changed.
LEMMA OneChanges ==
  ASSUME QueueTypes, NEW t \in DOMAIN workers, NEW r \in WorkerStates,
         workers' = [workers EXCEPT ![t] = r]
  PROVE  /\ workers' \in Seq(WorkerStates)
         /\ DOMAIN workers' = DOMAIN workers
         /\ workers'[t] = r
         /\ \A u \in DOMAIN workers \ {t} : workers'[u] = workers[u]
  <1>1. workers \in Seq(WorkerStates) /\ t \in 1 .. Len(workers)
    BY DEF QueueTypes
  <1>2. workers' \in Seq(WorkerStates) /\ Len(workers') = Len(workers)
    BY <1>1, ExceptSeq
  <1> QED
    BY <1>1, <1>2, ExceptSeq

LEMMA WorkerMoved ==
  ASSUME QueueTypes, NEW t \in DOMAIN workers, NEW from, NEW to \in WorkerPlaces, Moves(t, from, to)
  PROVE  /\ ~ broken /\ workers[t].at = from
         /\ workers' \in Seq(WorkerStates)
         /\ DOMAIN workers' = DOMAIN workers
         /\ workers'[t].at = to /\ workers'[t].cmd = workers[t].cmd
         /\ \A u \in DOMAIN workers \ {t} : workers'[u] = workers[u]
  <1> DEFINE r == [workers[t] EXCEPT !.at = to]
  <1>1. workers[t] \in WorkerStates
    BY DEF QueueTypes
  <1>2. r \in WorkerStates /\ r.at = to /\ r.cmd = workers[t].cmd
    BY <1>1 DEF WorkerStates
  <1>3. workers' = [workers EXCEPT ![t] = r] /\ ~ broken /\ workers[t].at = from
    BY DEF Moves
  <1> HIDE DEF r
  <1> QED
    BY <1>2, <1>3, OneChanges

-------------------------------------------------------------------------------
(* Every step keeps the invariant                                          *)

LEMMA EmplaceKeeps ==
  ASSUME QueueInv, NEW c \in Callers, Emplace(c)
  PROVE  QueueInv'
  <1>1. /\ commands' = Append(commands, queued + 1) /\ queued' = queued + 1
        /\ UNCHANGED <<working, workers, ran, late, broken>>
    BY DEF Emplace
  <1>2. /\ commands \in Seq(Nat) /\ ran \in Seq(Nat) /\ queued \in Nat
        /\ Len(commands) \in Nat /\ Len(ran) \in Nat /\ queued + 1 \in Nat
    BY DEF QueueInv, QueueTypes
  <1>3. /\ commands' \in Seq(Nat) /\ commands' # <<>> /\ Len(commands') = Len(commands) + 1
        /\ \A i \in 1 .. Len(commands) : commands'[i] = commands[i]
        /\ commands'[Len(commands) + 1] = queued + 1
    BY <1>1, <1>2, AppendProperties
  <1>4. QueueTypes'
    BY <1>1, <1>2, <1>3 DEF QueueInv, QueueTypes
  <1>5. ASSUME ~ late PROVE OneWorker' /\ Ordered' /\ Holds' /\ ~ broken'
    <2>1. OneWorker /\ Ordered /\ Holds /\ ~ broken
      BY <1>5 DEF QueueInv
    <2>2. Ordered'
      <3>1. queued = Len(ran) + Len(commands)
        BY <2>1 DEF Ordered
      <3>2. ASSUME NEW i \in 1 .. Len(commands') PROVE commands'[i] = Len(ran') + i
        <4>1. CASE i \in 1 .. Len(commands)
          BY <4>1, <2>1, <1>1, <1>3 DEF Ordered
        <4>2. CASE i = Len(commands) + 1
          BY <4>2, <3>1, <1>1, <1>2, <1>3
        <4> QED
          BY <4>1, <4>2, <1>2, <1>3
      <3>3. queued' = Len(ran') + Len(commands')
        BY <3>1, <1>1, <1>2, <1>3
      <3> QED
        BY <3>2, <3>3 DEF Ordered
    <2> QED
      BY <2>1, <2>2, <1>1, <1>3 DEF OneWorker, Holds
  <1> QED
    BY <1>1, <1>4, <1>5 DEF QueueInv

LEMMA RunWorkerKeeps ==
  ASSUME QueueInv, NEW c \in Callers, RunWorker(c)
  PROVE  QueueInv'
  <1>1. UNCHANGED <<commands, working, queued, ran, broken>>
    BY DEF RunWorker
  <1>2. CASE UNCHANGED <<workers, late>>
    BY <1>1, <1>2 DEF QueueInv, QueueTypes, OneWorker, Ordered, Holds
  <1>3. CASE ~ working /\ NewWorker
    <2> DEFINE r == [at |-> "start", cmd |-> 0]
               l == Len(workers)
    <2>1. workers \in Seq(WorkerStates) /\ r \in WorkerStates /\ l \in Nat /\ r.at = "start"
      BY DEF QueueInv, QueueTypes, WorkerStates, WorkerPlaces
    <2>2. workers' = Append(workers, r)
      BY <1>3 DEF NewWorker
    <2>3. late' \in BOOLEAN /\ (late' <=> (late \/ SomeWorker({"start"})))
      <3>1. (late \/ SomeWorker({"start"})) \in BOOLEAN
        OBVIOUS
      <3> QED
        BY <1>3, <3>1, Zenon DEF NewWorker
    <2> HIDE DEF r
    <2>4. /\ workers' \in Seq(WorkerStates) /\ Len(workers') = l + 1
          /\ \A i \in 1 .. l : workers'[i] = workers[i]
          /\ workers'[l + 1] = r
      BY <2>1, <2>2, AppendProperties
    <2>5. /\ DOMAIN workers' = 1 .. l + 1 /\ DOMAIN workers = 1 .. l
          /\ \A u \in DOMAIN workers' : u \in DOMAIN workers \/ u = l + 1
          /\ workers'[l + 1].at = "start"
      BY <2>1, <2>4
    <2>6. QueueTypes'
      BY <1>1, <2>3, <2>4 DEF QueueInv, QueueTypes
    <2>7. ASSUME ~ late' PROVE OneWorker' /\ Ordered' /\ Holds' /\ ~ broken'
      <3>1. OneWorker /\ Ordered /\ Holds /\ ~ broken
        BY <2>3, <2>7 DEF QueueInv
      <3>2. \A u \in DOMAIN workers : workers[u].at = "gone"
        <4> SUFFICES ASSUME NEW u \in DOMAIN workers PROVE workers[u].at = "gone"
          OBVIOUS
        <4>1. workers[u].at \in WorkerPlaces
          BY OneState DEF QueueInv
        <4>2. workers[u].at # "start"
          BY <2>3, <2>7 DEF SomeWorker
        <4> QED
          BY <4>1, <4>2, <3>1, <1>3 DEF OneWorker
      <3>3. OneWorker'
        BY <3>2, <2>4, <2>5 DEF OneWorker
      <3>4. Holds'
        BY <3>2, <2>4, <2>5 DEF Holds
      <3> QED
        BY <3>1, <3>3, <3>4, <1>1 DEF Ordered
    <2> QED
      BY <2>6, <2>7 DEF QueueInv
  <1> QED
    BY <1>2, <1>3 DEF RunWorker

LEMMA SetWorkingKeeps ==
  ASSUME QueueInv, NEW t \in DOMAIN workers, SetWorking(t)
  PROVE  QueueInv'
  <1>1. /\ ~ broken /\ workers[t].at = "start" /\ workers' \in Seq(WorkerStates)
        /\ DOMAIN workers' = DOMAIN workers /\ workers'[t].at = "check"
        /\ \A u \in DOMAIN workers \ {t} : workers'[u] = workers[u]
        /\ working' = TRUE /\ UNCHANGED <<commands, queued, ran, late, broken>>
    BY WorkerMoved DEF SetWorking, WorkerPlaces, queueHistory, QueueInv
  <1> QED
    BY <1>1 DEF QueueInv, QueueTypes, OneWorker, Ordered, Holds

LEMMA CheckEmptyKeeps ==
  ASSUME QueueInv, NEW t \in DOMAIN workers, CheckEmpty(t)
  PROVE  QueueInv'
  <1> DEFINE to == IF commands = <<>> THEN "end" ELSE "front"
  <1>1. /\ ~ broken /\ workers[t].at = "check" /\ workers' \in Seq(WorkerStates)
        /\ DOMAIN workers' = DOMAIN workers /\ workers'[t].at = to
        /\ \A u \in DOMAIN workers \ {t} : workers'[u] = workers[u]
        /\ UNCHANGED <<commands, working, queued, ran, late, broken>>
    BY WorkerMoved DEF CheckEmpty, WorkerPlaces, queueHistory, QueueInv
  <1>2. ASSUME ~ late PROVE OneWorker' /\ Ordered' /\ Holds' /\ ~ broken'
    <2>1. OneWorker /\ Ordered /\ Holds
      BY <1>2 DEF QueueInv
    <2>2. OneWorker'
      BY <2>1, <1>1 DEF OneWorker, WorkerPlaces
    <2>3. Holds'
      BY <2>1, <1>1 DEF Holds
    <2> QED
      BY <2>1, <2>2, <2>3, <1>1 DEF Ordered
  <1>3. QueueTypes'
    BY <1>1 DEF QueueInv, QueueTypes
  <1> QED
    BY <1>1, <1>2, <1>3 DEF QueueInv

LEMMA ReadFrontKeeps ==
  ASSUME QueueInv, NEW t \in DOMAIN workers, ReadFront(t)
  PROVE  QueueInv'
  <1>1. ~ broken /\ UNCHANGED <<commands, working, queued, ran, late>>
    BY DEF ReadFront, queueHistory
  <1>2. CASE commands # <<>>
    <2> DEFINE r == [at |-> "pop", cmd |-> Head(commands)]
    <2>1. /\ workers[t].at = "front" /\ workers' = [workers EXCEPT ![t] = r]
          /\ broken' = broken
      BY <1>2 DEF ReadFront
    <2>2. commands \in Seq(Nat) /\ Head(commands) = commands[1] /\ Head(commands) \in Nat
          /\ 1 \in 1 .. Len(commands)
      BY <1>2 DEF QueueInv, QueueTypes
    <2>3. r \in WorkerStates /\ r.at = "pop" /\ r.cmd = commands[1]
      BY <2>2 DEF WorkerStates, WorkerPlaces
    <2> HIDE DEF r
    <2>4. /\ workers' \in Seq(WorkerStates) /\ DOMAIN workers' = DOMAIN workers
          /\ workers'[t] = r /\ \A u \in DOMAIN workers \ {t} : workers'[u] = workers[u]
      BY <2>1, <2>3, OneChanges DEF QueueInv
    <2>5. ASSUME ~ late PROVE OneWorker' /\ Ordered' /\ Holds' /\ ~ broken'
      <3>1. OneWorker /\ Ordered /\ Holds
        BY <2>5 DEF QueueInv
      <3>2. r.cmd = Len(ran) + 1
        BY <3>1, <2>2, <2>3 DEF Ordered
      <3>3. OneWorker'
        BY <3>1, <1>1, <2>1, <2>3, <2>4 DEF OneWorker, WorkerPlaces
      <3>4. Holds'
        BY <3>1, <3>2, <1>1, <1>2, <2>3, <2>4 DEF Holds
      <3> QED
        BY <3>1, <3>3, <3>4, <1>1, <2>1 DEF Ordered
    <2> QED
      BY <1>1, <2>1, <2>4, <2>5 DEF QueueInv, QueueTypes
  <1>3. CASE commands = <<>>
    <2>1. /\ workers[t].at = "front" /\ workers' \in Seq(WorkerStates) /\ broken' = TRUE
      BY <1>3, WorkerMoved DEF ReadFront, QueueInv, WorkerPlaces
    <2>2. late
      BY <2>1, <1>3 DEF QueueInv, Holds
    <2> QED
      BY <1>1, <2>1, <2>2 DEF QueueInv, QueueTypes
  <1> QED
    BY <1>2, <1>3

LEMMA PopFrontKeeps ==
  ASSUME QueueInv, NEW t \in DOMAIN workers, PopFront(t)
  PROVE  QueueInv'
  <1>1. UNCHANGED <<working, queued, late>>
    BY DEF PopFront
  <1>2. CASE commands # <<>>
    <2>1. /\ ~ broken /\ workers[t].at = "pop" /\ workers' \in Seq(WorkerStates)
          /\ DOMAIN workers' = DOMAIN workers /\ workers'[t].at = "do"
          /\ \A u \in DOMAIN workers \ {t} : workers'[u] = workers[u]
          /\ commands' = Tail(commands) /\ ran' = Append(ran, workers[t].cmd)
          /\ broken' = broken
      BY <1>2, WorkerMoved DEF PopFront, QueueInv, WorkerPlaces
    <2>2. /\ commands \in Seq(Nat) /\ ran \in Seq(Nat) /\ workers[t].cmd \in Nat
          /\ Len(ran) \in Nat /\ Len(commands) \in Nat
      BY OneState DEF QueueInv, QueueTypes
    <2>3. /\ commands' \in Seq(Nat) /\ Len(commands') = Len(commands) - 1
          /\ \A i \in 1 .. Len(commands') : commands'[i] = commands[i + 1]
      BY <1>2, <2>1, <2>2, HeadTailProperties
    <2>4. ran' \in Seq(Nat) /\ Len(ran') = Len(ran) + 1
      BY <2>1, <2>2, AppendProperties
    <2>5. ASSUME ~ late PROVE OneWorker' /\ Ordered' /\ Holds' /\ ~ broken'
      <3>1. OneWorker /\ Ordered /\ Holds
        BY <2>5 DEF QueueInv
      <3>2. OneWorker'
        BY <3>1, <1>1, <2>1 DEF OneWorker, WorkerPlaces
      <3>3. Ordered'
        <4> DEFINE n == Len(ran)
        <4>1. /\ queued = n + Len(commands) /\ \A i \in 1 .. Len(commands) : commands[i] = n + i
              /\ n \in Nat /\ Len(ran') = n + 1 /\ queued' = queued
          BY <3>1, <1>1, <2>2, <2>4 DEF Ordered
        <4> HIDE DEF n
        <4>2. queued' = Len(ran') + Len(commands')
          BY <4>1, <2>2, <2>3
        <4>3. ASSUME NEW i \in 1 .. Len(commands') PROVE commands'[i] = Len(ran') + i
          <5>1. i \in Nat /\ i + 1 \in 1 .. Len(commands)
            BY <2>2, <2>3
          <5>2. commands'[i] = n + (i + 1)
            BY <5>1, <4>1, <2>3
          <5> QED
            BY <5>1, <5>2, <4>1
        <4> QED
          BY <4>2, <4>3 DEF Ordered
      <3>4. \A u \in DOMAIN workers \ {t} : workers[u].at = "gone"
        BY <3>1, <2>1 DEF OneWorker
      <3>5. Holds'
        BY <3>4, <2>1 DEF Holds
      <3> QED
        BY <3>2, <3>3, <3>5, <2>1
    <2> QED
      BY <1>1, <2>1, <2>3, <2>4, <2>5 DEF QueueInv, QueueTypes
  <1>3. CASE commands = <<>>
    <2>1. /\ workers[t].at = "pop" /\ workers' \in Seq(WorkerStates) /\ broken' = TRUE
          /\ UNCHANGED <<commands, ran>>
      BY <1>3, WorkerMoved DEF PopFront, QueueInv, WorkerPlaces
    <2>2. late
      BY <2>1, <1>3 DEF QueueInv, Holds
    <2> QED
      BY <1>1, <2>1, <2>2 DEF QueueInv, QueueTypes
  <1> QED
    BY <1>2, <1>3

LEMMA DoneKeeps ==
  ASSUME QueueInv, NEW t \in DOMAIN workers, Done(t)
  PROVE  QueueInv'
  <1> DEFINE r == [at |-> "check", cmd |-> 0]
  <1>1. /\ workers[t].at = "do" /\ workers' = [workers EXCEPT ![t] = r]
        /\ UNCHANGED <<commands, working, queued, ran, late, broken>>
    BY DEF Done, queueHistory
  <1>2. r \in WorkerStates /\ r.at = "check"
    BY DEF WorkerStates, WorkerPlaces
  <1> HIDE DEF r
  <1>3. /\ workers' \in Seq(WorkerStates) /\ DOMAIN workers' = DOMAIN workers
        /\ workers'[t] = r /\ \A u \in DOMAIN workers \ {t} : workers'[u] = workers[u]
    BY <1>1, <1>2, OneChanges DEF QueueInv
  <1> QED
    BY <1>1, <1>2, <1>3 DEF QueueInv, QueueTypes, OneWorker, Ordered, Holds, WorkerPlaces

LEMMA ClearWorkingKeeps ==
  ASSUME QueueInv, NEW t \in DOMAIN workers, ClearWorking(t)
  PROVE  QueueInv'
  <1>1. /\ ~ broken /\ workers[t].at = "end" /\ workers' \in Seq(WorkerStates)
        /\ DOMAIN workers' = DOMAIN workers /\ workers'[t].at = "gone"
        /\ \A u \in DOMAIN workers \ {t} : workers'[u] = workers[u]
        /\ working' = FALSE /\ UNCHANGED <<commands, queued, ran, late, broken>>
    BY WorkerMoved DEF ClearWorking, WorkerPlaces, queueHistory, QueueInv
  <1>2. ASSUME ~ late PROVE OneWorker' /\ Ordered' /\ Holds' /\ ~ broken'
    <2>1. OneWorker /\ Ordered /\ Holds
      BY <1>2 DEF QueueInv
    <2>2. OneWorker'
      BY <2>1, <1>1 DEF OneWorker, WorkerPlaces
    <2>3. Holds'
      BY <2>1, <1>1 DEF Holds
    <2> QED
      BY <2>1, <2>2, <2>3, <1>1 DEF Ordered
  <1>3. QueueTypes'
    BY <1>1 DEF QueueInv, QueueTypes
  <1> QED
    BY <1>1, <1>2, <1>3 DEF QueueInv

LEMMA StepKeeps ==
  ASSUME QueueInv, [QueueNext]_queueVars
  PROVE  QueueInv'
  <1>1. CASE UNCHANGED queueVars
    BY <1>1 DEF queueVars, queueHistory, QueueInv, QueueTypes, OneWorker, Ordered, Holds
  <1>2. ASSUME NEW c \in Callers, Emplace(c) \/ RunWorker(c) PROVE QueueInv'
    BY <1>2, EmplaceKeeps, RunWorkerKeeps
  <1>3. ASSUME NEW t \in DOMAIN workers, Works(t) PROVE QueueInv'
    BY <1>3, SetWorkingKeeps, CheckEmptyKeeps, ReadFrontKeeps, PopFrontKeeps, DoneKeeps,
       ClearWorkingKeeps DEF Works
  <1> QED
    BY <1>1, <1>2, <1>3 DEF QueueNext

-------------------------------------------------------------------------------
(* Every step is one of the executor's                                     *)

\* The commands under way, when the workers' states are known.
LEMMA RunningSame ==
  ASSUME DOMAIN workers' = DOMAIN workers,
         \A u \in DOMAIN workers : workers[u].at = "do" <=> workers'[u].at = "do",
         \A u \in DOMAIN workers : workers[u].at = "do" => workers'[u].cmd = workers[u].cmd
  PROVE  Running' = Running
  BY DEF Running

LEMMA StepExecutes ==
  ASSUME QueueInv, [QueueNext]_queueVars, ~ late'
  PROVE  Executor!Next \/ UNCHANGED Executor!vars
  <1> USE DEF Executor!vars
  <1>1. CASE UNCHANGED queueVars
    <2>1. Running' = Running
      BY <1>1 DEF queueVars, Running
    <2> QED
      BY <1>1, <2>1 DEF queueVars, queueHistory
  <1>2. ASSUME NEW c \in Callers, Emplace(c) PROVE Executor!Next
    <2>1. queued' = queued + 1 /\ ran' = ran /\ workers' = workers
      BY <1>2 DEF Emplace
    <2>2. Running' = Running
      BY <2>1 DEF Running
    <2> QED
      BY <2>1, <2>2 DEF Executor!Next, Executor!Queue
  <1>3. ASSUME NEW c \in Callers, RunWorker(c) PROVE UNCHANGED Executor!vars
    <2>1. UNCHANGED <<queued, ran>>
      BY <1>3 DEF RunWorker
    <2>2. CASE UNCHANGED workers
      BY <2>1, <2>2 DEF Running
    <2>3. CASE NewWorker
      <3> DEFINE r == [at |-> "start", cmd |-> 0]
                 l == Len(workers)
      <3>1. workers \in Seq(WorkerStates) /\ r \in WorkerStates /\ l \in Nat /\ r.at = "start"
        BY DEF QueueInv, QueueTypes, WorkerStates, WorkerPlaces
      <3>2. workers' = Append(workers, r)
        BY <2>3 DEF NewWorker
      <3> HIDE DEF r
      <3>3. /\ workers' \in Seq(WorkerStates) /\ Len(workers') = l + 1
            /\ \A i \in 1 .. l : workers'[i] = workers[i]
            /\ workers'[l + 1] = r
        BY <3>1, <3>2, AppendProperties
      <3>4. /\ DOMAIN workers \subseteq DOMAIN workers'
            /\ \A u \in DOMAIN workers : workers'[u] = workers[u]
            /\ \A u \in DOMAIN workers' \ DOMAIN workers : workers'[u].at = "start"
        BY <3>1, <3>3
      <3>5. Running' = Running
        BY <3>4 DEF Running
      <3> QED
        BY <2>1, <3>5
    <2> QED
      BY <1>3, <2>2, <2>3 DEF RunWorker
  <1>4. ASSUME NEW t \in DOMAIN workers, SetWorking(t) \/ CheckEmpty(t) \/ ClearWorking(t)
        PROVE  UNCHANGED Executor!vars
    <2>1. \E from \in WorkerPlaces \ {"do"}, to \in WorkerPlaces \ {"do"} : Moves(t, from, to)
      BY <1>4 DEF SetWorking, CheckEmpty, ClearWorking, WorkerPlaces
    <2>2. PICK from \in WorkerPlaces \ {"do"}, to \in WorkerPlaces \ {"do"} : Moves(t, from, to)
      BY <2>1
    <2>3. /\ workers[t].at = from /\ DOMAIN workers' = DOMAIN workers /\ workers'[t].at = to
          /\ \A u \in DOMAIN workers \ {t} : workers'[u] = workers[u]
      BY <2>2, WorkerMoved DEF QueueInv
    <2>4. Running' = Running
      BY <2>3, RunningSame
    <2> QED
      BY <1>4, <2>4 DEF SetWorking, CheckEmpty, ClearWorking, queueHistory
  <1>5. ASSUME NEW t \in DOMAIN workers, ReadFront(t) PROVE UNCHANGED Executor!vars
    <2>1. late' = late /\ UNCHANGED <<queued, ran>>
      BY <1>5 DEF ReadFront, queueHistory
    <2>2. commands # <<>>
      BY <1>5, <2>1 DEF ReadFront, Moves, QueueInv, Holds
    <2> DEFINE r == [at |-> "pop", cmd |-> Head(commands)]
    <2>3. workers[t].at = "front" /\ workers' = [workers EXCEPT ![t] = r]
      BY <1>5, <2>2 DEF ReadFront
    <2>4. r \in WorkerStates /\ r.at = "pop"
      BY <2>2 DEF QueueInv, QueueTypes, WorkerStates, WorkerPlaces
    <2> HIDE DEF r
    <2>5. /\ DOMAIN workers' = DOMAIN workers /\ workers'[t] = r
          /\ \A u \in DOMAIN workers \ {t} : workers'[u] = workers[u]
      BY <2>3, <2>4, OneChanges DEF QueueInv
    <2>6. Running' = Running
      BY <2>3, <2>4, <2>5, RunningSame
    <2> QED
      BY <2>1, <2>6
  <1>6. ASSUME NEW t \in DOMAIN workers, PopFront(t) PROVE Executor!Next
    <2>1. late' = late /\ queued' = queued
      BY <1>6 DEF PopFront
    <2>2. OneWorker /\ Ordered /\ Holds
      BY <2>1 DEF QueueInv
    <2>3. commands # <<>>
      BY <1>6, <2>2 DEF PopFront, Moves, Holds
    <2>4. /\ workers[t].at = "pop" /\ DOMAIN workers' = DOMAIN workers
          /\ workers'[t].at = "do" /\ workers'[t].cmd = workers[t].cmd
          /\ \A u \in DOMAIN workers \ {t} : workers'[u] = workers[u]
          /\ ran' = Append(ran, workers[t].cmd)
      BY <1>6, <2>3, WorkerMoved DEF PopFront, QueueInv, WorkerPlaces
    <2>5. workers[t].cmd = Len(ran) + 1
      BY <2>2, <2>4 DEF Holds
    <2>6. \A u \in DOMAIN workers \ {t} : workers[u].at = "gone"
      BY <2>2, <2>4 DEF OneWorker
    <2>7. Running = {} /\ Running' = {Len(ran) + 1}
      BY <2>4, <2>5, <2>6 DEF Running
    <2>8. Len(ran) + 1 <= queued
      BY <2>2, <2>3 DEF QueueInv, QueueTypes, Ordered
    <2> QED
      BY <2>1, <2>4, <2>5, <2>7, <2>8 DEF Executor!Next, Executor!Begin
  <1>7. ASSUME NEW t \in DOMAIN workers, Done(t) PROVE Executor!Next
    <2> DEFINE r == [at |-> "check", cmd |-> 0]
    <2>1. /\ workers[t].at = "do" /\ workers' = [workers EXCEPT ![t] = r]
          /\ UNCHANGED <<queued, ran, late>>
      BY <1>7 DEF Done, queueHistory
    <2>2. OneWorker
      BY <2>1 DEF QueueInv
    <2>3. r \in WorkerStates /\ r.at = "check"
      BY DEF WorkerStates, WorkerPlaces
    <2> HIDE DEF r
    <2>4. /\ DOMAIN workers' = DOMAIN workers /\ workers'[t] = r
          /\ \A u \in DOMAIN workers \ {t} : workers'[u] = workers[u]
      BY <2>1, <2>3, OneChanges DEF QueueInv
    <2>5. \A u \in DOMAIN workers \ {t} : workers[u].at = "gone"
      BY <2>1, <2>2 DEF OneWorker
    <2>6. Running # {} /\ Running' = {}
      BY <2>1, <2>3, <2>4, <2>5 DEF Running
    <2> QED
      BY <2>1, <2>6 DEF Executor!Next, Executor!End
  <1> QED
    BY <1>1, <1>2, <1>3, <1>4, <1>5, <1>6, <1>7 DEF QueueNext, Works

-------------------------------------------------------------------------------
(* Types and bounds                                                        *)

\* The callers whose call has a command to queue, and those about to call runWorker.
Owing == {c \in Callers : caller[c].left = 1}
Starting == {c \in Callers : caller[c].at = "run"}

\* Each command was counted when its call began, and is followed by one runWorker,
\* which starts one worker at most.
Counted ==
  /\ queued + Cardinality(Owing) <= MaxCommands
  /\ Len(workers) + Cardinality(Starting) <= queued

QueueCounts == QueueTypes /\ QueueTypeOK /\ Counted

CallerStates == [at: {"idle", "run"}, left: {0, 1}]

LEMMA Counting ==
  ASSUME NEW S \in SUBSET Callers
  PROVE  /\ IsFiniteSet(S) /\ Cardinality(S) \in Nat
         /\ \A c \in S : Cardinality(S) # 0
  <1>1. IsFiniteSet(S)
    BY CallersAssumption, FS_Subset
  <1> QED
    BY <1>1, FS_CardinalityType, FS_EmptySet

\* One caller's record is changed.
LEMMA OneCaller ==
  ASSUME caller \in [Callers -> CallerStates], NEW c \in Callers, NEW r \in CallerStates,
         caller' = [caller EXCEPT ![c] = r]
  PROVE  /\ caller' \in [Callers -> CallerStates]
         /\ Owing' = IF r.left = 1 THEN Owing \cup {c} ELSE Owing \ {c}
         /\ Starting' = IF r.at = "run" THEN Starting \cup {c} ELSE Starting \ {c}
  <1>1. caller'[c] = r /\ \A e \in Callers \ {c} : caller'[e] = caller[e]
    OBVIOUS
  <1>2. caller' \in [Callers -> CallerStates]
    OBVIOUS
  <1>3. Owing' = IF r.left = 1 THEN Owing \cup {c} ELSE Owing \ {c}
    BY <1>1 DEF Owing
  <1>4. Starting' = IF r.at = "run" THEN Starting \cup {c} ELSE Starting \ {c}
    BY <1>1 DEF Starting
  <1> QED
    BY <1>2, <1>3, <1>4

LEMMA CountsInit == QueueInit => QueueCounts
  <1> SUFFICES ASSUME QueueInit PROVE QueueCounts
    OBVIOUS
  <1>1. QueueTypes
    BY QueueInvInit DEF QueueInv
  <1>2. /\ queued = 0 /\ workers = <<>> /\ commands = <<>> /\ ran = <<>>
        /\ Len(workers) = 0 /\ DOMAIN workers = {}
        /\ ~ working /\ ~ late /\ ~ unseen /\ ~ broken
    BY DEF QueueInit
  <1>3. \A c \in Callers : caller[c].at = "idle" /\ caller[c].left = 0
    BY DEF QueueInit
  <1>4. Owing = {} /\ Starting = {}
    BY <1>3 DEF Owing, Starting
  <1>5. Counted
    BY <1>2, <1>4, FS_EmptySet, CommandsAssumption DEF Counted
  <1>6. caller \in [Callers -> CallerStates]
    BY DEF QueueInit, CallerStates
  <1>7. commands \in Seq(1 .. queued) /\ ran \in Seq(1 .. queued)
    <2>1. \A S : <<>> \in Seq(S)
      OBVIOUS
    <2> QED
      BY <1>2, <2>1, Zenon
  <1>8. {working, late, unseen, broken} \subseteq BOOLEAN
    BY DEF QueueInit
  <1>9. queued \in 0 .. MaxCommands /\ Len(workers) <= queued
    BY <1>2, CommandsAssumption
  <1> QED
    BY <1>1, <1>2, <1>5, <1>6, <1>7, <1>8, <1>9 DEF QueueCounts, QueueTypeOK, CallerStates

\* What QueueTypeOK says of a worker.
WorkerOK(w, n) ==
  /\ w.at \in WorkerPlaces /\ w.cmd \in 0 .. n
  /\ w.at \in {"pop", "do"} => w.cmd # 0

\* A sequence of numbers up to a bound is one of those up to a larger one.
LEMMA LargerBound ==
  ASSUME NEW m \in Nat, NEW n \in Nat, m <= n, NEW s \in Seq(1 .. m)
  PROVE  s \in Seq(1 .. n)
  <1>1. 1 .. m \subseteq 1 .. n
    OBVIOUS
  <1> QED
    BY <1>1

LEMMA EmplaceCounts ==
  ASSUME QueueCounts, QueueTypes', NEW c \in Callers, Emplace(c)
  PROVE  QueueCounts'
  <1>1. /\ caller[c].at = "idle" /\ commands' = Append(commands, queued + 1)
        /\ queued' = queued + 1
        /\ UNCHANGED <<working, workers, ran, late, unseen, broken>>
    BY DEF Emplace
  <1>2. PICK left \in {0, 1} :
          /\ left = 1 => caller[c].left = 0
          /\ caller[c].left = 1 \/ queued + Due + left < MaxCommands
          /\ caller' = [caller EXCEPT ![c] = [at |-> "run", left |-> left]]
    BY DEF Emplace
  <1> DEFINE r == [at |-> "run", left |-> left]
  <1>3. r \in CallerStates /\ r.at = "run" /\ r.left = left
    BY DEF CallerStates
  <1>4. caller' = [caller EXCEPT ![c] = r] /\ caller \in [Callers -> CallerStates]
    BY <1>2 DEF QueueCounts, QueueTypeOK, CallerStates
  <1> HIDE DEF r
  <1>5. /\ caller' \in [Callers -> CallerStates]
        /\ Owing' = IF left = 1 THEN Owing \cup {c} ELSE Owing \ {c}
        /\ Starting' = Starting \cup {c}
    BY <1>3, <1>4, OneCaller
  <1>6. /\ IsFiniteSet(Owing) /\ IsFiniteSet(Starting)
        /\ Cardinality(Owing) \in Nat /\ Cardinality(Starting) \in Nat
        /\ (c \in Owing => Cardinality(Owing) # 0)
    <2>1. Owing \in SUBSET Callers /\ Starting \in SUBSET Callers
      BY DEF Owing, Starting
    <2> QED
      BY <2>1, Counting
  <1>7. /\ c \in Owing <=> caller[c].left = 1
        /\ c \notin Starting
    BY <1>1 DEF Owing, Starting
  <1>8. Due = Cardinality(Owing)
    BY DEF Due, Owing
  <1>9. queued \in Nat /\ MaxCommands \in Nat /\ Len(workers) \in Nat
    BY CommandsAssumption DEF QueueCounts, QueueTypes
  <1>10. Cardinality(Starting') = Cardinality(Starting) + 1
    BY <1>5, <1>6, <1>7, FS_AddElement
  <1>11. queued' + Cardinality(Owing') <= MaxCommands
    <2>1. CASE left = 1
      <3>1. Owing' = Owing \cup {c} /\ c \notin Owing
        BY <2>1, <1>2, <1>5, <1>7
      <3>2. Cardinality(Owing') = Cardinality(Owing) + 1
        BY <3>1, <1>6, FS_AddElement
      <3>3. queued + Cardinality(Owing) + 1 < MaxCommands
        BY <2>1, <1>2, <1>8, <1>7, <3>1
      <3> QED
        BY <3>2, <3>3, <1>1, <1>6, <1>9
    <2>2. CASE left = 0 /\ caller[c].left = 1
      <3>1. Owing' = Owing \ {c} /\ c \in Owing
        BY <2>2, <1>5, <1>7
      <3>2. Cardinality(Owing') = Cardinality(Owing) - 1
        BY <3>1, <1>6, FS_RemoveElement
      <3>3. queued + Cardinality(Owing) <= MaxCommands
        BY DEF QueueCounts, Counted
      <3> QED
        BY <3>2, <3>3, <1>1, <1>6, <1>9
    <2>3. CASE left = 0 /\ caller[c].left # 1
      <3>1. Owing' = Owing
        BY <2>3, <1>5, <1>7
      <3>2. queued + Cardinality(Owing) + 0 < MaxCommands
        BY <2>3, <1>2, <1>8
      <3> QED
        BY <3>1, <3>2, <1>1, <1>6, <1>9
    <2> QED
      BY <2>1, <2>2, <2>3
  <1>12. Counted'
    <2>1. Len(workers) + Cardinality(Starting) <= queued
      BY DEF QueueCounts, Counted
    <2> QED
      BY <2>1, <1>1, <1>6, <1>9, <1>10, <1>11 DEF Counted
  <1>13. queued' \in 0 .. MaxCommands /\ Len(workers') <= queued'
    <2>1. Cardinality(Owing') \in Nat
      <3>1. Owing' \in SUBSET Callers
        BY DEF Owing
      <3> QED
        BY <3>1, Counting
    <2>2. Len(workers) <= queued
      BY DEF QueueCounts, QueueTypeOK
    <2> QED
      BY <2>1, <2>2, <1>1, <1>9, <1>11
  <1>14. commands' \in Seq(1 .. queued') /\ ran' \in Seq(1 .. queued')
    <2>1. commands \in Seq(1 .. queued) /\ ran \in Seq(1 .. queued)
      BY DEF QueueCounts, QueueTypeOK
    <2>2. commands \in Seq(1 .. queued') /\ ran' \in Seq(1 .. queued')
      BY <2>1, <1>1, <1>9, LargerBound
    <2> QED
      BY <2>2, <1>1, <1>9
  <1>15. \A t \in DOMAIN workers' : WorkerOK(workers'[t], queued')
    <2>1. \A t \in DOMAIN workers : WorkerOK(workers[t], queued)
      BY DEF QueueCounts, QueueTypeOK, WorkerOK, WorkerPlaces
    <2> QED
      BY <2>1, <1>1, <1>9 DEF WorkerOK
  <1>16. {working', late', unseen', broken'} \subseteq BOOLEAN
    BY <1>1 DEF QueueCounts, QueueTypeOK
  <1>17. QueueTypeOK'
    BY <1>5, <1>13, <1>14, <1>15, <1>16 DEF QueueTypeOK, WorkerOK, CallerStates, WorkerPlaces
  <1> QED
    BY <1>12, <1>17 DEF QueueCounts

LEMMA RunWorkerCounts ==
  ASSUME QueueCounts, QueueTypes', NEW c \in Callers, RunWorker(c)
  PROVE  QueueCounts'
  <1>1. /\ caller[c].at = "run" /\ caller' = [caller EXCEPT ![c].at = "idle"]
        /\ UNCHANGED <<commands, working, queued, ran, broken>>
    BY DEF RunWorker
  <1> DEFINE r == [caller[c] EXCEPT !.at = "idle"]
             new == [at |-> "start", cmd |-> 0]
  <1>2. caller \in [Callers -> CallerStates]
    BY DEF QueueCounts, QueueTypeOK, CallerStates
  <1>3. r \in CallerStates /\ r.at = "idle" /\ r.left = caller[c].left
    BY <1>2 DEF CallerStates
  <1>4. caller' = [caller EXCEPT ![c] = r]
    BY <1>1
  <1>5. WorkerOK(new, queued) /\ new \in WorkerStates
    BY DEF QueueCounts, QueueTypes, WorkerOK, WorkerPlaces, WorkerStates
  <1>6. workers' = Append(workers, new) \/ workers' = workers
    BY DEF RunWorker, NewWorker
  <1> HIDE DEF r, new
  <1>7. /\ caller' \in [Callers -> CallerStates]
        /\ Owing' = IF r.left = 1 THEN Owing \cup {c} ELSE Owing \ {c}
        /\ Starting' = Starting \ {c}
    BY <1>2, <1>3, <1>4, OneCaller
  <1>8. Owing' = Owing /\ c \in Starting
    BY <1>1, <1>3, <1>7 DEF Owing, Starting
  <1>9. IsFiniteSet(Starting) /\ Cardinality(Starting) \in Nat
    <2>1. Starting \in SUBSET Callers
      BY DEF Starting
    <2> QED
      BY <2>1, Counting
  <1>10. Cardinality(Starting') = Cardinality(Starting) - 1
    BY <1>7, <1>8, <1>9, FS_RemoveElement
  <1>11. queued \in Nat /\ workers \in Seq(WorkerStates) /\ Len(workers) \in Nat
    BY DEF QueueCounts, QueueTypes
  <1>12. Len(workers') \in Nat /\ Len(workers') <= Len(workers) + 1
    BY <1>5, <1>6, <1>11
  <1>13. Len(workers') + Cardinality(Starting') <= queued
    <2>1. Len(workers) + Cardinality(Starting) <= queued
      BY DEF QueueCounts, Counted
    <2> QED
      BY <2>1, <1>9, <1>10, <1>11, <1>12
  <1>14. Counted'
    BY <1>1, <1>8, <1>13 DEF QueueCounts, Counted
  <1>15. Len(workers') <= queued
    <2>1. Cardinality(Starting') \in Nat
      <3>1. Starting' \in SUBSET Callers
        BY DEF Starting
      <3> QED
        BY <3>1, Counting
    <2> QED
      BY <2>1, <1>11, <1>12, <1>13
  <1>16. \A t \in DOMAIN workers' : WorkerOK(workers'[t], queued)
    <2>1. \A t \in DOMAIN workers : WorkerOK(workers[t], queued)
      BY DEF QueueCounts, QueueTypeOK, WorkerOK, WorkerPlaces
    <2>2. CASE workers' = workers
      BY <2>1, <2>2
    <2>3. CASE workers' = Append(workers, new)
      <3>1. ASSUME NEW t \in DOMAIN workers' PROVE WorkerOK(workers'[t], queued)
        <4>1. t \in DOMAIN workers \/ t = Len(workers) + 1
          BY <2>3, <1>5, <1>11
        <4>2. CASE t \in DOMAIN workers
          <5>1. workers'[t] = workers[t]
            BY <4>2, <2>3, <1>5, <1>11
          <5> QED
            BY <4>2, <5>1, <2>1
        <4>3. CASE t = Len(workers) + 1
          <5>1. workers'[t] = new
            BY <4>3, <2>3, <1>5, <1>11
          <5> QED
            BY <5>1, <1>5
        <4> QED
          BY <4>1, <4>2, <4>3
      <3> QED
        BY <3>1
    <2> QED
      BY <1>6, <2>2, <2>3
  <1>17. {working', late', unseen', broken'} \subseteq BOOLEAN
    <2>1. working' \in BOOLEAN /\ broken' \in BOOLEAN /\ late' \in BOOLEAN
      BY DEF QueueTypes
    <2>2. unseen' \in BOOLEAN
      <3>1. unseen \in BOOLEAN
        BY DEF QueueCounts, QueueTypeOK
      <3>2. unseen' = unseen \/ unseen' = (unseen \/ ~ SomeWorker({"start", "check", "front", "pop", "do"}))
        BY Zenon DEF RunWorker, NewWorker
      <3> QED
        BY <3>1, <3>2, Zenon
    <2> QED
      BY <2>1, <2>2
  <1>18. /\ queued' \in 0 .. MaxCommands
         /\ commands' \in Seq(1 .. queued') /\ ran' \in Seq(1 .. queued')
    BY <1>1 DEF QueueCounts, QueueTypeOK
  <1>19. QueueTypeOK'
    BY <1>1, <1>7, <1>15, <1>16, <1>17, <1>18 DEF QueueTypeOK, WorkerOK, CallerStates, WorkerPlaces
  <1> QED
    BY <1>14, <1>19 DEF QueueCounts

\* A worker's step leaves the calls alone, and its own record stays in bounds.
LEMMA WorkerCounts ==
  ASSUME QueueCounts, QueueTypes', NEW t \in DOMAIN workers, NEW r \in WorkerStates,
         WorkerOK(r, queued), workers' = [workers EXCEPT ![t] = r],
         commands' \in Seq(1 .. queued), ran' \in Seq(1 .. queued),
         UNCHANGED <<caller, queued, unseen>>
  PROVE  QueueCounts'
  <1>1. /\ DOMAIN workers' = DOMAIN workers /\ workers'[t] = r
        /\ \A u \in DOMAIN workers \ {t} : workers'[u] = workers[u]
    BY OneChanges DEF QueueCounts
  <1>2. Len(workers') = Len(workers)
    BY <1>1 DEF QueueCounts, QueueTypes
  <1>3. \A u \in DOMAIN workers' : WorkerOK(workers'[u], queued)
    <2>1. \A u \in DOMAIN workers : WorkerOK(workers[u], queued)
      BY DEF QueueCounts, QueueTypeOK, WorkerOK, WorkerPlaces
    <2> QED
      BY <2>1, <1>1
  <1>4. {working', late', unseen', broken'} \subseteq BOOLEAN
    BY DEF QueueCounts, QueueTypeOK, QueueTypes
  <1>5. Counted'
    BY <1>2 DEF QueueCounts, Counted, Owing, Starting
  <1>6. queued' \in 0 .. MaxCommands /\ Len(workers') <= queued'
    BY <1>2 DEF QueueCounts, QueueTypeOK
  <1>7. caller' \in [Callers -> [at: {"idle", "run"}, left: {0, 1}]]
    BY DEF QueueCounts, QueueTypeOK
  <1>8. QueueTypeOK'
    BY <1>3, <1>4, <1>6, <1>7 DEF QueueTypeOK, WorkerOK, WorkerPlaces
  <1> QED
    BY <1>5, <1>8 DEF QueueCounts

LEMMA WorksCounts ==
  ASSUME QueueCounts, QueueTypes', NEW t \in DOMAIN workers, Works(t)
  PROVE  QueueCounts'
  <1>1. /\ workers[t] \in WorkerStates /\ workers[t].cmd \in Nat
        /\ WorkerOK(workers[t], queued)
        /\ commands \in Seq(1 .. queued) /\ ran \in Seq(1 .. queued) /\ queued \in Nat
    BY OneState DEF QueueCounts, QueueTypeOK, QueueTypes, WorkerOK, WorkerPlaces
  <1>2. ASSUME NEW to \in WorkerPlaces, to \in {"pop", "do"} => workers[t].at = "pop"
        PROVE  LET r == [workers[t] EXCEPT !.at = to]
               IN  r \in WorkerStates /\ WorkerOK(r, queued)
    BY <1>1, <1>2 DEF WorkerStates, WorkerOK
  <1>3. CASE SetWorking(t)
    <2>1. workers' = [workers EXCEPT ![t].at = "check"]
      BY <1>3 DEF SetWorking, Moves
    <2>2. UNCHANGED <<commands, ran, caller, queued, unseen>>
      BY <1>3 DEF SetWorking, queueHistory
    <2> QED
      BY <2>1, <2>2, <1>1, <1>2, WorkerCounts DEF WorkerPlaces
  <1>4. CASE CheckEmpty(t)
    <2>1. PICK to \in {"end", "front"} : workers' = [workers EXCEPT ![t].at = to]
      BY <1>4 DEF CheckEmpty, Moves
    <2>2. UNCHANGED <<commands, ran, caller, queued, unseen>>
      BY <1>4 DEF CheckEmpty, queueHistory
    <2> QED
      BY <2>1, <2>2, <1>1, <1>2, WorkerCounts DEF WorkerPlaces
  <1>5. CASE ReadFront(t)
    <2>1. UNCHANGED <<commands, ran, caller, queued, unseen>>
      BY <1>5 DEF ReadFront, queueHistory
    <2>2. CASE workers' = [workers EXCEPT ![t].at = "gone"]
      BY <2>1, <2>2, <1>1, <1>2, WorkerCounts DEF WorkerPlaces
    <2>3. CASE commands # <<>> /\ workers' = [workers EXCEPT ![t] = [at |-> "pop", cmd |-> Head(commands)]]
      <3> DEFINE r == [at |-> "pop", cmd |-> Head(commands)]
      <3>1. Head(commands) \in 1 .. queued
        BY <2>3, <1>1
      <3>2. r \in WorkerStates /\ WorkerOK(r, queued)
        BY <3>1, <1>1 DEF WorkerStates, WorkerOK, WorkerPlaces
      <3> QED
        BY <2>1, <2>3, <3>2, <1>1, WorkerCounts
    <2> QED
      BY <1>5, <2>2, <2>3 DEF ReadFront, Moves
  <1>6. CASE PopFront(t)
    <2>1. UNCHANGED <<caller, queued, unseen>>
      BY <1>6 DEF PopFront
    <2>2. CASE commands # <<>> /\ Moves(t, "pop", "do") /\ commands' = Tail(commands) /\ ran' = Append(ran, workers[t].cmd)
      <3>1. workers[t].at = "pop" /\ workers' = [workers EXCEPT ![t].at = "do"]
        BY <2>2 DEF Moves
      <3>2. workers[t].cmd \in 1 .. queued
        BY <3>1, <1>1 DEF WorkerOK
      <3>3. commands' \in Seq(1 .. queued) /\ ran' \in Seq(1 .. queued)
        BY <2>2, <3>2, <1>1
      <3> QED
        BY <2>1, <3>1, <3>3, <1>1, <1>2, WorkerCounts DEF WorkerPlaces
    <2>3. CASE commands = <<>> /\ Moves(t, "pop", "gone") /\ UNCHANGED <<commands, ran>>
      <3>1. workers' = [workers EXCEPT ![t].at = "gone"]
        BY <2>3 DEF Moves
      <3> QED
        BY <2>1, <2>3, <3>1, <1>1, <1>2, WorkerCounts DEF WorkerPlaces
    <2> QED
      BY <1>6, <2>2, <2>3 DEF PopFront
  <1>7. CASE Done(t)
    <2> DEFINE r == [at |-> "check", cmd |-> 0]
    <2>1. workers' = [workers EXCEPT ![t] = r]
      BY <1>7 DEF Done
    <2>2. UNCHANGED <<commands, ran, caller, queued, unseen>>
      BY <1>7 DEF Done, queueHistory
    <2>3. r \in WorkerStates /\ WorkerOK(r, queued)
      BY <1>1 DEF WorkerStates, WorkerOK, WorkerPlaces
    <2> QED
      BY <2>1, <2>2, <2>3, <1>1, WorkerCounts
  <1>8. CASE ClearWorking(t)
    <2>1. workers' = [workers EXCEPT ![t].at = "gone"]
      BY <1>8 DEF ClearWorking, Moves
    <2>2. UNCHANGED <<commands, ran, caller, queued, unseen>>
      BY <1>8 DEF ClearWorking, queueHistory
    <2> QED
      BY <2>1, <2>2, <1>1, <1>2, WorkerCounts DEF WorkerPlaces
  <1> QED
    BY <1>3, <1>4, <1>5, <1>6, <1>7, <1>8 DEF Works

LEMMA StepCounts == QueueCounts /\ QueueTypes' /\ [QueueNext]_queueVars => QueueCounts'
  <1> SUFFICES ASSUME QueueCounts, QueueTypes', [QueueNext]_queueVars PROVE QueueCounts'
    OBVIOUS
  <1>1. CASE UNCHANGED queueVars
    BY <1>1 DEF queueVars, queueHistory, QueueCounts, QueueTypeOK, Counted, Owing, Starting
  <1>2. ASSUME NEW c \in Callers, Emplace(c) PROVE QueueCounts'
    BY <1>2, EmplaceCounts
  <1>3. ASSUME NEW c \in Callers, RunWorker(c) PROVE QueueCounts'
    BY <1>3, RunWorkerCounts
  <1>4. ASSUME NEW t \in DOMAIN workers, Works(t) PROVE QueueCounts'
    BY <1>4, WorksCounts
  <1> QED
    BY <1>1, <1>2, <1>3, <1>4 DEF QueueNext

-------------------------------------------------------------------------------
(* The theorems                                                            *)

\* The inductive invariant: until runWorker comes too early once, one worker at
\* a time takes the commands in their order, and never from an empty queue
\* (App::runWorker, Worker::Run).
THEOREM QueueInvariant == QueueSpec => []QueueInv
  BY QueueInvInit, StepKeeps, PTL DEF QueueSpec

\* The queue without a lock is an executor that runs the commands one by one
\* (App::Refresh, App::SaveFile and the others, App::runWorker, Worker::Run).
THEOREM RunInTurn == QueueSpec => InTurn
  <1>1. QueueInit => Executor!Init
    BY DEF QueueInit, Executor!Init, Running
  <1>2. QueueInv /\ [QueueNext]_queueVars => [late' \/ Executor!Next]_(Executor!vars)
    BY StepExecutes
  <1>3. QueueInv => (broken => late)
    BY DEF QueueInv
  <1> QED
    BY <1>1, <1>2, <1>3, QueueInvariant, PTL DEF QueueSpec, InTurn

\* Type correctness of the queue, for any finite set of threads and any number of
\* commands: there are never more workers than there were commands, and a worker
\* that took a command has its number (App::runWorker, Worker::Run).
THEOREM QueueTypesInvariant == QueueSpec => []QueueTypeOK
  <1>1. QueueInv => QueueTypes
    BY DEF QueueInv
  <1>2. QueueCounts => QueueTypeOK
    BY DEF QueueCounts
  <1> QED
    BY <1>1, <1>2, CountsInit, StepCounts, QueueInvariant, PTL DEF QueueSpec
-------------------------------------------------------------------------------
(* What EveryCommandTaken rests on, without fairness                       *)

\* Where a worker is that will look at the queue again, if only before it ends.
Awake == {"start", "check", "front", "pop", "do"}

\* A filled queue has a worker that will look at it, or a runWorker to come.
NoWakeUpLost ==
  commands # <<>> /\ ~ broken /\ ~ unseen =>
    SomeWorker(Awake) \/ \E c \in Callers : caller[c].at = "run"

\* How many steps a worker has before it, when no command is queued any more.
StepsLeft(place) ==
  CASE place \in {"start", "do"} -> 6
    [] place = "check" -> 5
    [] place = "front" -> 4
    [] place = "pop" -> 3
    [] place = "end" -> 1
    [] place = "gone" -> 0

WorkLeft(t) == 5 * Len(commands) + StepsLeft(workers[t].at)

LEMMA RunWorkerWakes ==
  ASSUME QueueTypes, QueueTypeOK, NoWakeUpLost, NEW c \in Callers, RunWorker(c)
  PROVE  NoWakeUpLost'
  <1>1. UNCHANGED <<commands, broken>>
    BY DEF RunWorker
  <1>2. CASE NewWorker
    <2> DEFINE r == [at |-> "start", cmd |-> 0]
               l == Len(workers)
    <2>1. workers \in Seq(WorkerStates) /\ r \in WorkerStates /\ l \in Nat /\ r.at = "start"
      BY DEF QueueTypes, WorkerStates, WorkerPlaces
    <2>2. workers' = Append(workers, r)
      BY <1>2 DEF NewWorker
    <2> HIDE DEF r
    <2>3. l + 1 \in DOMAIN workers' /\ workers'[l + 1].at = "start"
      BY <2>1, <2>2
    <2>4. SomeWorker(Awake)'
      BY <2>3 DEF SomeWorker, Awake
    <2> QED
      BY <2>4 DEF NoWakeUpLost
  <1>3. CASE /\ unseen' = (unseen \/ ~ SomeWorker({"start", "check", "front", "pop", "do"}))
             /\ UNCHANGED workers
    <2>1. (unseen \/ ~ SomeWorker(Awake)) \in BOOLEAN
      OBVIOUS
    <2>2. unseen' = (unseen \/ ~ SomeWorker(Awake))
      BY <1>3 DEF Awake
    <2>3. ~ unseen' => SomeWorker(Awake)
      BY <2>1, <2>2, AsFormula, Zenon
    <2>4. SomeWorker(Awake) => SomeWorker(Awake)'
      BY <1>3 DEF SomeWorker
    <2> QED
      BY <2>3, <2>4 DEF NoWakeUpLost
  <1> QED
    BY <1>2, <1>3 DEF RunWorker

LEMMA WorksWakes ==
  ASSUME QueueTypes, NoWakeUpLost, NEW t \in DOMAIN workers, Works(t)
  PROVE  NoWakeUpLost'
  <1> SUFFICES ASSUME commands' # <<>>, ~ broken', ~ unseen'
               PROVE  SomeWorker(Awake)' \/ \E c \in Callers : caller'[c].at = "run"
    BY DEF NoWakeUpLost
  <1>1. unseen' = unseen /\ caller' = caller
    BY DEF Works, SetWorking, CheckEmpty, ReadFront, PopFront, Done, ClearWorking, queueHistory
  <1>2. ASSUME t \in DOMAIN workers', workers'[t].at \in Awake PROVE SomeWorker(Awake)'
    BY <1>2 DEF SomeWorker
  <1>3. CASE SetWorking(t)
    <2>1. t \in DOMAIN workers' /\ workers'[t].at = "check"
      BY <1>3, WorkerMoved DEF SetWorking, WorkerPlaces
    <2> QED
      BY <2>1, <1>2 DEF Awake
  <1>4. CASE CheckEmpty(t)
    <2>1. Moves(t, "check", "front")
      BY <1>4 DEF CheckEmpty
    <2>2. t \in DOMAIN workers' /\ workers'[t].at = "front"
      BY <2>1, WorkerMoved DEF WorkerPlaces
    <2> QED
      BY <2>2, <1>2 DEF Awake
  <1>5. CASE ReadFront(t)
    <2> DEFINE r == [at |-> "pop", cmd |-> Head(commands)]
    <2>1. commands # <<>> /\ workers' = [workers EXCEPT ![t] = r]
      BY <1>5 DEF ReadFront
    <2>2. r \in WorkerStates /\ r.at = "pop"
      BY <2>1 DEF QueueTypes, WorkerStates, WorkerPlaces
    <2> HIDE DEF r
    <2>3. t \in DOMAIN workers' /\ workers'[t].at = "pop"
      BY <2>1, <2>2, OneChanges
    <2> QED
      BY <2>3, <1>2 DEF Awake
  <1>6. CASE PopFront(t)
    <2>1. Moves(t, "pop", "do")
      BY <1>6 DEF PopFront
    <2>2. t \in DOMAIN workers' /\ workers'[t].at = "do"
      BY <2>1, WorkerMoved DEF WorkerPlaces
    <2> QED
      BY <2>2, <1>2 DEF Awake
  <1>7. CASE Done(t)
    <2> DEFINE r == [at |-> "check", cmd |-> 0]
    <2>1. workers' = [workers EXCEPT ![t] = r] /\ r \in WorkerStates /\ r.at = "check"
      BY <1>7 DEF Done, WorkerStates, WorkerPlaces
    <2> HIDE DEF r
    <2>2. t \in DOMAIN workers' /\ workers'[t].at = "check"
      BY <2>1, OneChanges
    <2> QED
      BY <2>2, <1>2 DEF Awake
  <1>8. CASE ClearWorking(t)
    <2>1. /\ workers[t].at = "end" /\ DOMAIN workers' = DOMAIN workers
          /\ \A u \in DOMAIN workers \ {t} : workers'[u] = workers[u]
      BY <1>8, WorkerMoved DEF ClearWorking, WorkerPlaces
    <2>2. UNCHANGED <<commands, broken>>
      BY <1>8 DEF ClearWorking
    <2>3. SomeWorker(Awake) \/ \E c \in Callers : caller[c].at = "run"
      BY <2>2, <1>1 DEF NoWakeUpLost
    <2>4. SomeWorker(Awake) => SomeWorker(Awake)'
      BY <2>1 DEF SomeWorker, Awake
    <2> QED
      BY <2>3, <2>4, <1>1
  <1> QED
    BY <1>3, <1>4, <1>5, <1>6, <1>7, <1>8 DEF Works

LEMMA StepWakes ==
  QueueTypes /\ QueueTypeOK /\ NoWakeUpLost /\ [QueueNext]_queueVars => NoWakeUpLost'
  <1> SUFFICES ASSUME QueueTypes, QueueTypeOK, NoWakeUpLost, [QueueNext]_queueVars
               PROVE  NoWakeUpLost'
    OBVIOUS
  <1>1. CASE UNCHANGED queueVars
    BY <1>1 DEF queueVars, queueHistory, NoWakeUpLost, SomeWorker
  <1>2. ASSUME NEW c \in Callers, Emplace(c) PROVE NoWakeUpLost'
    <2>1. caller \in [Callers -> CallerStates]
      BY DEF QueueTypeOK, CallerStates
    <2>2. caller'[c].at = "run"
      BY <1>2, <2>1 DEF Emplace
    <2> QED
      BY <2>2 DEF NoWakeUpLost
  <1> QED
    BY <1>1, <1>2, RunWorkerWakes, WorksWakes DEF QueueNext

LEMMA StepsLeftType ==
  /\ \A place \in WorkerPlaces : StepsLeft(place) \in 0 .. 6
  /\ StepsLeft("start") = 6 /\ StepsLeft("check") = 5 /\ StepsLeft("front") = 4
  /\ StepsLeft("pop") = 3 /\ StepsLeft("do") = 6 /\ StepsLeft("end") = 1
  /\ StepsLeft("gone") = 0
  BY DEF StepsLeft, WorkerPlaces

\* A worker's step takes it nearer to its end, and no other worker away from there.
LEMMA WorksLeft ==
  ASSUME QueueTypes, NEW t \in DOMAIN workers, Works(t), NEW u \in DOMAIN workers
  PROVE  /\ WorkLeft(u)' \in Nat /\ WorkLeft(u) \in Nat
         /\ u = t => WorkLeft(u)' < WorkLeft(u)
         /\ WorkLeft(u)' <= WorkLeft(u)
  <1> DEFINE n == Len(commands)
             m == Len(commands')
             x == StepsLeft(workers[t].at)
             y == StepsLeft(workers'[t].at)
  <1>1. ASSUME NEW r \in WorkerStates, workers' = [workers EXCEPT ![t] = r]
        PROVE  /\ workers'[t] = r /\ workers' \in Seq(WorkerStates)
               /\ \A v \in DOMAIN workers \ {t} : workers'[v] = workers[v]
    BY <1>1, OneChanges
  <1>2. commands \in Seq(Nat) /\ n \in Nat
    BY DEF QueueTypes
  <1>3. /\ \A v \in DOMAIN workers \ {t} : workers'[v] = workers[v]
        /\ \/ commands' = commands /\ y < x
           \/ commands # <<>> /\ commands' = Tail(commands) /\ y < x + 5
        /\ workers'[t].at \in WorkerPlaces
    <2>1. CASE SetWorking(t)
      BY <2>1, WorkerMoved, StepsLeftType DEF SetWorking, WorkerPlaces
    <2>2. CASE CheckEmpty(t)
      <3>1. commands' = commands /\ (Moves(t, "check", "end") \/ Moves(t, "check", "front"))
        BY <2>2 DEF CheckEmpty
      <3> QED
        BY <3>1, WorkerMoved, StepsLeftType DEF WorkerPlaces
    <2>3. CASE ReadFront(t)
      <3>1. commands' = commands
        BY <2>3 DEF ReadFront
      <3>2. CASE Moves(t, "front", "gone")
        BY <3>1, <3>2, WorkerMoved, StepsLeftType DEF WorkerPlaces
      <3>3. CASE commands # <<>>
        <4> DEFINE r == [at |-> "pop", cmd |-> Head(commands)]
        <4>1. workers[t].at = "front" /\ workers' = [workers EXCEPT ![t] = r]
          BY <2>3, <3>3 DEF ReadFront
        <4>2. r \in WorkerStates /\ r.at = "pop"
          BY <3>3, <1>2 DEF WorkerStates, WorkerPlaces
        <4> HIDE DEF r
        <4> QED
          BY <3>1, <4>1, <4>2, <1>1, StepsLeftType DEF WorkerPlaces
      <3> QED
        BY <2>3, <3>2, <3>3 DEF ReadFront
    <2>4. CASE PopFront(t)
      <3>1. \/ commands' = commands /\ Moves(t, "pop", "gone")
            \/ commands # <<>> /\ commands' = Tail(commands) /\ Moves(t, "pop", "do")
        BY <2>4 DEF PopFront
      <3> QED
        BY <3>1, WorkerMoved, StepsLeftType DEF WorkerPlaces
    <2>5. CASE Done(t)
      <3> DEFINE r == [at |-> "check", cmd |-> 0]
      <3>1. /\ commands' = commands /\ workers[t].at = "do" /\ workers' = [workers EXCEPT ![t] = r]
            /\ r \in WorkerStates /\ r.at = "check"
        BY <2>5 DEF Done, WorkerStates, WorkerPlaces
      <3> HIDE DEF r
      <3> QED
        BY <3>1, <1>1, StepsLeftType DEF WorkerPlaces
    <2>6. CASE ClearWorking(t)
      BY <2>6, WorkerMoved, StepsLeftType DEF ClearWorking, WorkerPlaces
    <2> QED
      BY <2>1, <2>2, <2>3, <2>4, <2>5, <2>6 DEF Works
  <1>4. m \in Nat /\ (m = n \/ m = n - 1) /\ (commands' = commands => m = n)
        /\ (commands # <<>> /\ commands' = Tail(commands) => m = n - 1)
    BY <1>2, <1>3
  <1>5. x \in Nat /\ y \in Nat
    BY <1>3, OneState, StepsLeftType
  <1>6. StepsLeft(workers[u].at) \in Nat
    BY OneState, StepsLeftType
  <1>7. WorkLeft(u) = 5 * n + StepsLeft(workers[u].at)
        /\ WorkLeft(u)' = 5 * m + StepsLeft(workers'[u].at)
    BY DEF WorkLeft
  <1>8. CASE u = t
    <2>1. WorkLeft(u) = 5 * n + x /\ WorkLeft(u)' = 5 * m + y
      BY <1>7, <1>8
    <2>2. (m = n /\ y < x) \/ (m = n - 1 /\ y < x + 5)
      BY <1>3, <1>4
    <2> HIDE DEF n, m, x, y
    <2> QED
      BY <2>1, <2>2, <1>2, <1>4, <1>5
  <1>9. CASE u # t
    <2>1. workers'[u] = workers[u]
      BY <1>3, <1>9
    <2> HIDE DEF n, m, x, y
    <2> QED
      BY <2>1, <1>2, <1>4, <1>6, <1>7, <1>9
  <1> QED
    BY <1>8, <1>9

\* No wake-up is lost: for any number of commands and workers, as long as no
\* runWorker took a worker that was about to clear the flag for one at work, a
\* filled queue never stays without someone who will look at it (App::runWorker,
\* Worker::Run).
THEOREM NoWakeUpIsLost == QueueSpec => []NoWakeUpLost
  <1>1. QueueInit => NoWakeUpLost
    BY DEF QueueInit, NoWakeUpLost
  <1>2. QueueInv => QueueTypes
    BY DEF QueueInv
  <1> QED
    BY <1>1, <1>2, StepWakes, QueueInvariant, QueueTypesInvariant, PTL DEF QueueSpec

\* No worker goes round for ever: each of its steps brings it nearer to its end,
\* and only a call that queues a command takes it away from there; another
\* worker does not, though it reads the same queue (Worker::Run).
THEOREM WorkersComeToAnEnd ==
  QueueSpec =>
    [][\A t \in DOMAIN workers :
         /\ WorkLeft(t) \in Nat /\ WorkLeft(t)' \in Nat
         /\ Works(t) => WorkLeft(t)' < WorkLeft(t)
         /\ WorkLeft(t)' <= WorkLeft(t) \/ \E c \in Callers : Emplace(c)]_queueVars
  <1>1. QueueInv /\ QueueInv' /\ [QueueNext]_queueVars =>
          [\A t \in DOMAIN workers :
             /\ WorkLeft(t) \in Nat /\ WorkLeft(t)' \in Nat
             /\ Works(t) => WorkLeft(t)' < WorkLeft(t)
             /\ WorkLeft(t)' <= WorkLeft(t) \/ \E c \in Callers : Emplace(c)]_queueVars
    <2> SUFFICES ASSUME QueueInv, QueueInv', QueueNext, NEW t \in DOMAIN workers
                 PROVE  /\ WorkLeft(t) \in Nat /\ WorkLeft(t)' \in Nat
                        /\ Works(t) => WorkLeft(t)' < WorkLeft(t)
                        /\ WorkLeft(t)' <= WorkLeft(t) \/ \E c \in Callers : Emplace(c)
      OBVIOUS
    <2>1. QueueTypes /\ QueueTypes'
      BY DEF QueueInv
    <2>2. Works(t) => WorkLeft(t)' < WorkLeft(t)
      BY <2>1, WorksLeft
    <2>3. ASSUME t \in DOMAIN workers', commands' \in Seq(Nat)
          PROVE  WorkLeft(t) \in Nat /\ WorkLeft(t)' \in Nat
      <3>1. workers[t].at \in WorkerPlaces /\ workers'[t].at \in WorkerPlaces
        <4>1. workers[t] \in WorkerStates /\ workers'[t] \in WorkerStates
          BY <2>1, <2>3 DEF QueueTypes
        <4> QED
          BY <4>1 DEF WorkerStates
      <3>2. StepsLeft(workers[t].at) \in Nat /\ StepsLeft(workers'[t].at) \in Nat
        BY <3>1, StepsLeftType
      <3>3. Len(commands) \in Nat /\ Len(commands') \in Nat
        BY <2>1 DEF QueueTypes
      <3> QED
        BY <3>2, <3>3 DEF WorkLeft
    <2>4. ASSUME NEW c \in Callers, Emplace(c) PROVE WorkLeft(t) \in Nat /\ WorkLeft(t)' \in Nat
      BY <2>1, <2>3, <2>4 DEF Emplace, QueueTypes
    <2>5. ASSUME NEW c \in Callers, RunWorker(c)
          PROVE  /\ WorkLeft(t) \in Nat /\ WorkLeft(t)' \in Nat
                 /\ WorkLeft(t)' <= WorkLeft(t)
      <3> DEFINE r == [at |-> "start", cmd |-> 0]
      <3>1. commands' = commands /\ (workers' = workers \/ workers' = Append(workers, r))
        BY <2>5 DEF RunWorker, NewWorker
      <3>2. workers \in Seq(WorkerStates) /\ r \in WorkerStates
        BY <2>1 DEF QueueTypes, WorkerStates, WorkerPlaces
      <3> HIDE DEF r
      <3>3. t \in DOMAIN workers' /\ workers'[t] = workers[t]
        BY <3>1, <3>2
      <3>4. WorkLeft(t)' = WorkLeft(t)
        BY <3>1, <3>3 DEF WorkLeft
      <3> QED
        BY <2>1, <2>3, <3>3, <3>4 DEF QueueTypes
    <2>6. ASSUME NEW u \in DOMAIN workers, Works(u)
          PROVE  /\ WorkLeft(t) \in Nat /\ WorkLeft(t)' \in Nat
                 /\ WorkLeft(t)' <= WorkLeft(t)
      BY <2>1, <2>6, WorksLeft
    <2> QED
      BY <2>2, <2>4, <2>5, <2>6 DEF QueueNext
  <1> QED
    BY <1>1, QueueInvariant, PTL DEF QueueSpec

-------------------------------------------------------------------------------
(* The parts together                                                      *)

\* What a behaviour shows of each part is one of the part itself: the others
\* move none of its variables.
THEOREM EachPartIsItself == Spec => AccountSpec /\ WatcherSpec /\ QueueSpec /\ ChunkerSpec
  <1> DEFINE all == <<part, accountVars, watcherVars, queueVars, chunkerVars>>
  <1>1. Init => AccountInit /\ WatcherInit /\ QueueInit /\ ChunkerInit
    BY DEF Init
  <1>2. [Next]_all => [AccountNext]_accountVars
    BY DEF Next, OnlyPart
  <1>3. [Next]_all => [WatcherNext]_watcherVars
    BY DEF Next, OnlyPart
  <1>4. [Next]_all => [QueueNext]_queueVars
    BY DEF Next, OnlyPart
  <1>5. [Next]_all => [ChunkerNext]_chunkerVars
    BY DEF Next, OnlyPart
  <1> QED
    BY <1>1, <1>2, <1>3, <1>4, <1>5, PTL
       DEF Spec, AccountSpec, WatcherSpec, QueueSpec, ChunkerSpec

\* Type correctness of the client's parts in one behaviour, for any accounts,
\* files, callers and bounds (App, Watcher, Chunker).
THEOREM ClientTypes == Spec => []ClientTypeOK
  <1>1. ChunkerInv => ChunkerTypeOK
    BY DEF ChunkerInv
  <1> QED
    BY <1>1, EachPartIsItself, AccountTypes, WatcherTypes, QueueTypesInvariant, ChunkerInvariant, PTL
       DEF ClientTypeOK
===============================================================================
