-------------------------------- MODULE Chunker --------------------------------
(***************************************************************************)
(* A file's way through the cloud: ChunkFile cuts it into chunks as far as *)
(* ifstream reads, SerializerChunk puts each into JSON as Base64 and takes *)
(* it out again, MergeFile writes the chunks one after the other.          *)
(*                                                                         *)
(* A Base64 text is its groups of three bytes, four characters each.       *)
(***************************************************************************)
EXTENDS Integers, Sequences

CONSTANTS
  Bytes,
  Pad,        \* what fills up a group of Base64
  LengthByte, \* the byte before a short std::string's characters, of its length
  ChunkSize,  \* CHUNK_SIZE
  MaxLength   \* bound: the length of the file

ASSUME ChunkSizeAssumption == ChunkSize \in Nat \ {0}
ASSUME PadAssumption == Pad \notin Bytes
ASSUME LengthByteAssumption == LengthByte # Pad
ASSUME MaxLengthAssumption == MaxLength \in Nat

VARIABLES
  file,     \* what the file contains
  opened,   \* whether ifstream could open it
  pos,      \* how many bytes ifstream has read
  eof,      \* whether a read came to the end
  chunks,   \* the chunks: [size, data]
  merged,   \* how many of them are in the restored file
  out       \* the restored file

chunkerVars == <<file, opened, pos, eof, chunks, merged, out>>

ChunkerInit ==
  /\ \E n \in 0 .. MaxLength : file \in [1 .. n -> Bytes]
  /\ opened \in BOOLEAN
  /\ pos = 0 /\ eof = FALSE /\ chunks = <<>>
  /\ merged = 0 /\ out = <<>>

Least(m, n) == IF m <= n THEN m ELSE n

-------------------------------------------------------------------------------
\* A bug: the size is that of the buffer.
ChunkOfBuffer(size, data) == [size |-> ChunkSize, data |-> data]

\* createChunk.
CreateChunk(size, data) == [size |-> size, data |-> data]

\* Base64Encode: bytes in groups of three, the last one filled up.
Encode(data) ==
  [i \in 1 .. 3 * ((Len(data) + 2) \div 3) |->
     IF i <= Len(data) THEN data[i] ELSE Pad]

Characters(text) == 4 * (Len(text) \div 3)

\* b64input[i - 1]. Before the empty text calcDecodeLength reads what is not its
\* own.
Char(text, i) == IF i > 0 THEN text[i] ELSE LengthByte

\* calcDecodeLength looks at the last two characters.
Padding(text) ==
  IF Char(text, Len(text)) # Pad THEN 0
  ELSE IF Char(text, Len(text) - 1) = Pad THEN 2 ELSE 1

\* A bug: any padding counts as two characters.
BufferSizeShort(text) ==
  ((Characters(text) * 3) \div 4) - (IF Padding(text) = 0 THEN 0 ELSE 2)

\* calcDecodeLength.
BufferSize(text) == ((Characters(text) * 3) \div 4) - Padding(text)

\* Base64Decode: BIO_read takes bytes out of the text up to what fills it up,
\* whatever the size of the buffer they go to.
Decode(text) ==
  [i \in {j \in 1 .. Len(text) : \A k \in 1 .. j : text[k] # Pad} |-> text[i]]

\* SerializerChunk::serialize and deserialize.
Serialize(c) == [size |-> c.size, text |-> Encode(SubSeq(c.data, 1, c.size))]

Deserialize(json) == CreateChunk(json.size, Decode(json.text))

\* A bug: every chunk is taken to be full, and the rest of the buffer with it.
ReadFull ==
  /\ opened /\ ~ eof
  /\ LET n == Least(ChunkSize, Len(file) - pos)
         data == [i \in 1 .. ChunkSize |-> file[IF i <= n THEN pos + i ELSE 1]]
     IN  /\ Len(file) > 0
         /\ chunks' = Append(chunks, CreateChunk(ChunkSize, data))
         /\ pos' = pos + n
         /\ eof' = (n < ChunkSize)
  /\ UNCHANGED <<file, opened, merged, out>>

\* A bug: the end is noticed with the last byte.
ReadToEnd ==
  /\ opened /\ ~ eof
  /\ LET n == Least(ChunkSize, Len(file) - pos)
     IN  /\ chunks' = Append(chunks, CreateChunk(n, SubSeq(file, pos + 1, pos + n)))
         /\ pos' = pos + n
         /\ eof' = (pos + n = Len(file))
  /\ UNCHANGED <<file, opened, merged, out>>

\* ChunkFile: gcount bytes were read. The end is noticed by a read that finds
\* less than it asked for.
ReadChunk ==
  /\ opened /\ ~ eof
  /\ LET n == Least(ChunkSize, Len(file) - pos)
     IN  /\ chunks' = Append(chunks, CreateChunk(n, SubSeq(file, pos + 1, pos + n)))
         /\ pos' = pos + n
         /\ eof' = (n < ChunkSize)
  /\ UNCHANGED <<file, opened, merged, out>>

\* ChunkFile has returned.
Chunked == eof \/ ~ opened

\* MergeFile.
MergeChunk ==
  /\ Chunked
  /\ merged < Len(chunks)
  /\ LET c == Deserialize(Serialize(chunks[merged + 1]))
     IN  out' = out \o SubSeq(c.data, 1, c.size)
  /\ merged' = merged + 1
  /\ UNCHANGED <<file, opened, pos, eof, chunks>>

ChunkerNext == ReadChunk \/ MergeChunk

ChunkerSpec == ChunkerInit /\ [][ChunkerNext]_chunkerVars

-------------------------------------------------------------------------------
(* Properties                                                              *)

\* The type invariant. A chunk holds as many bytes as it says.
ChunkerTypeOK ==
  /\ file \in Seq(Bytes) /\ out \in Seq(Bytes)
  /\ pos \in 0 .. Len(file) /\ opened \in BOOLEAN /\ eof \in BOOLEAN
  /\ chunks \in Seq([size: 0 .. ChunkSize, data: Seq(Bytes)])
  /\ \A i \in 1 .. Len(chunks) : Len(chunks[i].data) = chunks[i].size
  /\ merged \in 0 .. Len(chunks)

\* What is restored from the chunks is the file, to the byte, whether or not its
\* size is a multiple of the chunk's (Chunker::ChunkFile, Chunker::MergeFile).
Restored == (eof /\ merged = Len(chunks)) => (out = file)

\* A file has one chunk more than it fills, the last being shorter and maybe
\* empty: an empty file has one, and only a file that was not opened has none
\* (Chunker::ChunkFile).
OneNotFull ==
  Chunked => Len(chunks) = IF opened THEN (Len(file) \div ChunkSize) + 1 ELSE 0

\* What BIO_read takes out of a chunk's text fits the buffer, whose size
\* calcDecodeLength gets from the text's last two characters, for every rest of
\* the length and for the empty text (SerializerChunk.cpp, Base64Decode).
BufferFits ==
  \A i \in 1 .. Len(chunks) :
    LET text == Serialize(chunks[i]).text
    IN  Len(Decode(text)) <= BufferSize(text)
===============================================================================
