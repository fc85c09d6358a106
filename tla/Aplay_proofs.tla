--------------------------- MODULE Aplay_proofs ----------------------------
(***************************************************************************)
(* Theorems about the capture and playback loops of aplay, for any chunk,  *)
(* limits, lengths and bounds on the stream, the files and the overruns.   *)
(***************************************************************************)
EXTENDS Aplay, FiniteSetTheorems, SequenceTheorems, TLAPS

\* the constants
LEMMA Sizes ==
  /\ Chunk \in Nat \ {0} /\ MaxFrames \in Nat /\ MaxFiles \in Nat
  /\ Limits \subseteq Nat /\ FileLimits \subseteq Nat /\ Lengths \subseteq Nat
  BY ChunkAssumption, LimitAssumption

\* a piece of a sequence of numbers
LEMMA Slice ==
  ASSUME NEW s \in Seq(Nat), NEW a \in Int, NEW b \in Int, a <= b,
         \A i \in a .. b : s[i] \in Nat
  PROVE  /\ SubSeq(s, a, b) \in Seq(Nat)
         /\ Len(SubSeq(s, a, b)) = (b - a) + 1
         /\ \A k \in 1 .. (b - a) + 1 : SubSeq(s, a, b)[k] = s[a + k - 1]
<1>1. /\ SubSeq(s, a, b) \in Seq(Nat)
      /\ Len(SubSeq(s, a, b)) = IF a <= b THEN b - a + 1 ELSE 0
      /\ \A k \in 1 .. b - a + 1 : SubSeq(s, a, b)[k] = s[a + k - 1]
  BY SubSeqProperties, SMTT(30)
<1>2. QED
  BY <1>1

\* what is left of a sequence of numbers
LEMMA Rest ==
  ASSUME NEW s \in Seq(Nat), NEW a \in Nat, NEW k \in Nat \ {0}, a + k <= Len(s)
  PROVE  SubSeq(s, a + 1, Len(s))[k] = s[a + k]
  OBVIOUS

File == [frames : Seq(Nat), header : Int, told : BOOLEAN]
CaptureStages == {"open", "loop", "read", "close", "done", "failed"}
PlayStages == {"preload", "fill", "write", "drain", "done", "failed"}

AplayTypeOK ==
    /\ limit \in Nat /\ file_limit \in Nat /\ (split => format = "raw")
    /\ mode \in {"capture", "playback"}
    /\ pc \in (IF Capture THEN CaptureStages ELSE PlayStages)
    /\ count \in Int /\ (Capture => count \in Nat)
    /\ rest \in Nat /\ fdcount \in Nat /\ left \in Nat /\ left <= Chunk
    /\ buf \in Seq(Nat)
    /\ filecount \in Nat /\ cur \in Names
    /\ disk \in [Names -> File]
    /\ source \in Nat /\ loaded \in Nat /\ pos \in Nat /\ pos <= source
    /\ now \in Nat /\ now <= MaxFrames
    /\ Capture /\ pc \in {"loop", "read", "close"} => rest <= count
    /\ pc = "read" => Len(buf) + left = Chunk
    /\ ~Capture => loaded <= Len(buf)

\* The files that have been begun are those up to the current one.
FilesInv ==
    /\ filecount = 0 => cur = 0 /\ pc = "open"
    /\ filecount > 0 => filecount = cur + 1
    /\ \A k \in Names : k > cur \/ filecount = 0 => disk[k] = NoFile

\* after a write that the disk refused no other follows
RefusedInv == refused => pc \in {"close", "done", "failed"} /\ (in_aborting \/ pc = "failed")

\* what end_wave made of the header of a file, or left of it
HeaderOf(k) ==
    \/ disk[k].header = Len(disk[k].frames)
    \/ k = cur /\ refused /\ disk[k].told /\ disk[k].header <= Len(disk[k].frames)
    \/ ~disk[k].told /\ disk[k].header >= Len(disk[k].frames)

\* The header was written with all that was to come.
HeaderInv ==
    format = "wave" =>
      /\ pc \in {"loop", "read", "close"} =>
            /\ \/ fdcount = Len(disk[cur].frames)
               \/ refused /\ fdcount <= Len(disk[cur].frames)
            /\ ~disk[cur].told /\ disk[cur].header >= Len(disk[cur].frames)
      /\ pc \in {"loop", "read"} => disk[cur].header >= Len(disk[cur].frames) + rest
      /\ \A k \in Names : k # cur \/ pc \in {"open", "done"} => HeaderOf(k)

RecordInv == Capture => FilesInv /\ RefusedInv /\ HeaderInv

-----------------------------------------------------------------------------
\* silence
LEMMA ZeroFacts ==
  ASSUME NEW d \in Nat
  PROVE  LET z == [k \in 1 .. d |-> 0]
         IN  z \in Seq(Nat) /\ Len(z) = d /\ \A k \in 1 .. d : z[k] = 0
  OBVIOUS

\* what pcm_read gave: the frames of the buffer, of a split recording zeros after them
LEMMA GivenFacts ==
  ASSUME AplayTypeOK, NEW c \in Nat
  PROVE  /\ Given(c) \in Seq(Nat)
         /\ Len(Given(c)) = IF split THEN c ELSE Least(Len(buf), c)
         /\ \A k \in 1 .. Len(Given(c)) : Given(c)[k] = IF k <= Len(buf) THEN buf[k] ELSE 0
<1> DEFINE n == Least(Len(buf), c)
           read == SubSeq(buf, 1, n)
           zeros == [k \in 1 .. c - Len(read) |-> 0]
<1>1. buf \in Seq(Nat) /\ Len(buf) \in Nat /\ n \in Nat /\ n <= Len(buf) /\ n <= c
  BY DEF AplayTypeOK, Least
<1>2. read \in Seq(Nat) /\ Len(read) = n /\ \A k \in 1 .. n : read[k] = buf[k]
  BY <1>1
<1>3. zeros \in Seq(Nat) /\ Len(zeros) = c - n /\ \A k \in 1 .. c - n : zeros[k] = 0
  <2>1. c - n \in Nat /\ zeros = [k \in 1 .. c - n |-> 0]
    BY <1>1, <1>2
  <2> HIDE DEF n, read
  <2>2. QED
    BY <2>1, ZeroFacts
<1>4. Given(c) = IF split THEN read \o zeros ELSE read
  BY DEF Given
<1> HIDE DEF read, zeros
<1>5. CASE ~split
  <2>1. Given(c) = read
    BY <1>4, <1>5
  <2>2. \A k \in 1 .. n : k <= Len(buf)
    BY <1>1
  <2>3. QED
    BY <1>2, <1>5, <2>1, <2>2
<1>6. CASE split
  <2>1. Given(c) = read \o zeros
    BY <1>4, <1>6
  <2>2. /\ Given(c) \in Seq(Nat) /\ Len(Given(c)) = c
        /\ \A k \in 1 .. c : Given(c)[k] = IF k <= n THEN read[k] ELSE zeros[k - n]
    <3> HIDE DEF n
    <3>0. /\ read \o zeros \in Seq(Nat) /\ Len(read \o zeros) = Len(read) + Len(zeros)
          /\ \A k \in 1 .. Len(read) + Len(zeros) :
                (read \o zeros)[k] = IF k <= Len(read) THEN read[k] ELSE zeros[k - Len(read)]
      BY <1>2, <1>3, ConcatProperties, Zenon
    <3>1. Given(c) \in Seq(Nat)
      BY <3>0, <2>1
    <3>2. Len(Given(c)) = n + (c - n)
      BY <1>2, <1>3, <2>1, <3>0
    <3>3. \A k \in 1 .. n + (c - n) : Given(c)[k] = IF k <= n THEN read[k] ELSE zeros[k - n]
      <4>1. Len(read) = n /\ Len(zeros) = c - n
        BY <1>2, <1>3
      <4>2. QED
        BY <2>1, <3>0, <4>1, Zenon
    <3>4. n + (c - n) = c
      BY <1>1
    <3>5. QED
      BY <3>1, <3>2, <3>3, <3>4
  <2>3. n = Len(buf) \/ n = c
    BY <1>1 DEF Least
  <2>4. ASSUME NEW k \in 1 .. c
        PROVE  Given(c)[k] = IF k <= Len(buf) THEN buf[k] ELSE 0
    <3>1. CASE k <= n
      BY <1>1, <1>2, <2>2, <3>1
    <3>2. CASE k > n
      <4> HIDE DEF n
      <4>1. n = Len(buf) /\ k - n \in 1 .. c - n /\ ~(k <= n)
        BY <1>1, <2>3, <3>2
      <4>2. Given(c)[k] = zeros[k - n]
        BY <2>2, <4>1
      <4>3. QED
        BY <1>3, <4>1, <4>2
    <3>3. QED
      BY <1>1, <3>1, <3>2
  <2>5. QED
    BY <1>6, <2>2, <2>4
<1>7. QED
  BY <1>5, <1>6

\* the first m frames of a chunk, with silence where nothing was read
SavedOf(m) == [k \in 1 .. m |-> IF k <= Len(buf) THEN buf[k] ELSE 0]

\* Save: m frames of what was given have come to the disk, the others of the chunk
\* are cut off.
LEMMA SaveFacts ==
  ASSUME AplayTypeOK, Capture, Save
  PROVE  \E m \in Nat :
           LET c == Least(rest, Chunk)
           IN  /\ m <= c /\ (m > Len(buf) => split /\ in_aborting)
               /\ SavedOf(m) \in Seq(Nat) /\ Len(SavedOf(m)) = m
               /\ disk' = [disk EXCEPT ![cur].frames = @ \o SavedOf(m)]
               /\ cut' = cut \cup {buf[k] : k \in m + 1 .. Len(buf)}
               /\ \/ /\ m = IF split THEN c ELSE Least(Len(buf), c)
                     /\ in_aborting' = (in_aborting \/ m # c)
                     /\ count' = count - c /\ rest' = rest - c
                     /\ fdcount' = fdcount + m /\ pc' = "loop" /\ refused' = refused
                  \/ /\ refused' /\ UNCHANGED <<count, rest, fdcount>>
                     /\ IF split THEN pc' = "failed" /\ UNCHANGED in_aborting
                                 ELSE pc' = "close" /\ in_aborting'
<1> DEFINE c == Least(rest, Chunk)
           given == Given(c)
<1>1. /\ c \in Nat /\ c <= Chunk /\ c <= rest
      /\ buf \in Seq(Nat) /\ Len(buf) \in Nat /\ left \in Nat
  BY Sizes DEF AplayTypeOK, Least
<1>0. Len(buf) + left = Chunk
  BY DEF Save, AplayTypeOK
<1>2. /\ given \in Seq(Nat) /\ Len(given) = IF split THEN c ELSE Least(Len(buf), c)
      /\ \A k \in 1 .. Len(given) : given[k] = IF k <= Len(buf) THEN buf[k] ELSE 0
  BY <1>1, GivenFacts
<1>3. Len(given) \in Nat /\ Len(given) <= c
  BY <1>1, <1>2 DEF Least
<1>4. \/ /\ disk' = [disk EXCEPT ![cur].frames = @ \o given]
         /\ in_aborting' = (in_aborting \/ Len(given) # c)
         /\ count' = count - c /\ rest' = rest - c
         /\ fdcount' = fdcount + Len(given) /\ pc' = "loop"
         /\ cut' = cut \cup {buf[k] : k \in c + 1 .. Len(buf)}
         /\ UNCHANGED refused
      \/ \E k \in 0 .. Len(given) - 1 :
            /\ disk' = [disk EXCEPT ![cur].frames = @ \o SubSeq(given, 1, k)]
            /\ cut' = cut \cup {buf[j] : j \in k + 1 .. Len(buf)}
            /\ refused' = TRUE
            /\ IF split THEN pc' = "failed" /\ UNCHANGED in_aborting
                        ELSE in_aborting' = TRUE /\ pc' = "close"
            /\ UNCHANGED <<count, rest, fdcount>>
  BY DEF Save, Fail
<1>5. left = 0 \/ in_aborting
  BY DEF Save
<1> HIDE DEF given, c
<1>6. \A m \in 0 .. Len(given) :
         /\ SavedOf(m) \in Seq(Nat) /\ Len(SavedOf(m)) = m
         /\ m > Len(buf) => split /\ in_aborting
  <2> TAKE m \in 0 .. Len(given)
  <2>1. m \in Nat
    BY <1>3
  <2>2. \A k \in 1 .. m : (IF k <= Len(buf) THEN buf[k] ELSE 0) \in Nat
    BY <1>1
  <2>3. SavedOf(m) \in Seq(Nat) /\ Len(SavedOf(m)) = m
    BY <2>1, <2>2 DEF SavedOf
  <2>4. m > Len(buf) => split /\ in_aborting
    BY <1>0, <1>1, <1>2, <1>3, <1>5, <2>1, Sizes DEF Least
  <2>5. QED
    BY <2>3, <2>4
<1>7. CASE /\ disk' = [disk EXCEPT ![cur].frames = @ \o given]
           /\ in_aborting' = (in_aborting \/ Len(given) # c)
           /\ count' = count - c /\ rest' = rest - c
           /\ fdcount' = fdcount + Len(given) /\ pc' = "loop"
           /\ cut' = cut \cup {buf[k] : k \in c + 1 .. Len(buf)}
           /\ UNCHANGED refused
  <2> DEFINE m == Len(given)
  <2>1. given = SavedOf(m)
    BY <1>2, <1>3 DEF SavedOf
  <2>2. m + 1 .. Len(buf) = c + 1 .. Len(buf)
    BY <1>1, <1>2, <1>3 DEF Least
  <2>3. /\ disk' = [disk EXCEPT ![cur].frames = @ \o SavedOf(m)]
        /\ cut' = cut \cup {buf[k] : k \in m + 1 .. Len(buf)}
    BY <1>7, <2>1, <2>2
  <2>4. m \in 0 .. Len(given)
    BY <1>3
  <2> HIDE DEF m
  <2>5. m = Len(given)
    BY DEF m
  <2>6. QED
    BY <1>2, <1>3, <1>6, <1>7, <2>3, <2>4, <2>5 DEF c
<1>8. ASSUME NEW m \in 0 .. Len(given) - 1,
             disk' = [disk EXCEPT ![cur].frames = @ \o SubSeq(given, 1, m)],
             cut' = cut \cup {buf[j] : j \in m + 1 .. Len(buf)}, refused',
             UNCHANGED <<count, rest, fdcount>>,
             IF split THEN pc' = "failed" /\ UNCHANGED in_aborting
                      ELSE in_aborting' = TRUE /\ pc' = "close"
      PROVE  \E n \in Nat :
                 /\ n <= c /\ (n > Len(buf) => split /\ in_aborting)
                 /\ SavedOf(n) \in Seq(Nat) /\ Len(SavedOf(n)) = n
                 /\ disk' = [disk EXCEPT ![cur].frames = @ \o SavedOf(n)]
                 /\ cut' = cut \cup {buf[k] : k \in n + 1 .. Len(buf)}
                 /\ refused' /\ UNCHANGED <<count, rest, fdcount>>
                 /\ IF split THEN pc' = "failed" /\ UNCHANGED in_aborting
                             ELSE pc' = "close" /\ in_aborting'
  <2>1. m \in Nat /\ m <= c /\ m \in 0 .. Len(given)
    BY <1>1, <1>3
  <2>2. SubSeq(given, 1, m) = SavedOf(m)
    <3>1. /\ SubSeq(given, 1, m) = [k \in 1 .. m |-> given[k]]
      BY <1>2, <1>3, <2>1
    <3>2. \A k \in 1 .. m : given[k] = IF k <= Len(buf) THEN buf[k] ELSE 0
      BY <1>2, <1>3, <2>1
    <3>3. QED
      BY <3>1, <3>2 DEF SavedOf
  <2>3. QED
    BY <1>6, <1>8, <2>1, <2>2
<1>9. QED
  BY <1>4, <1>7, <1>8 DEF c

-----------------------------------------------------------------------------
\* Fill: what is left of the loaded frames, some of the file, and silence.
LEMMA FillFacts ==
  ASSUME AplayTypeOK, ~Capture, Fill
  PROVE  \E h, more \in Nat :
           LET c == Least(count, Chunk)
           IN  /\ c \in Nat /\ h = Least(loaded, c) /\ more = Least(c - h, source - pos)
               /\ h + more <= c /\ pos + more <= source
               /\ rest' = h + more /\ pos' = pos + more /\ fdcount' = fdcount + more
               /\ buf' \in Seq(Nat) /\ Len(buf') = Chunk
               /\ \A k \in 1 .. Chunk :
                     buf'[k] = IF k <= h THEN buf[k]
                               ELSE IF k <= h + more THEN pos + (k - h) ELSE 0
<1> DEFINE c == Least(count, Chunk)
           h == Least(loaded, c)
           have == SubSeq(buf, 1, h)
           more == Least(c - Len(have), source - pos)
           read == [k \in 1 .. more |-> pos + k]
           new  == have \o read
           zeros == [k \in 1 .. Chunk - Len(new) |-> 0]
<1>1. /\ rest' = Len(have) + more /\ pos' = pos + more /\ fdcount' = fdcount + more
      /\ buf' = new \o zeros /\ count > 0
  BY DEF Fill, PcmWrite
<1>2. c \in Nat /\ c <= Chunk /\ c <= count
  <2>1. count > 0 /\ count \in Int
    BY DEF Fill, AplayTypeOK
  <2>2. QED
    BY <2>1, Sizes DEF Least
<1> HIDE DEF c
<1>3. h \in Nat /\ h <= c /\ h <= Len(buf) /\ buf \in Seq(Nat) /\ Len(buf) \in Nat
  BY <1>2 DEF AplayTypeOK, Least
<1> HIDE DEF h
<1>4. have \in Seq(Nat) /\ Len(have) = h /\ \A k \in 1 .. h : have[k] = buf[k]
  BY <1>3
<1> HIDE DEF have
<1>5. more \in Nat /\ more <= c - h /\ pos + more <= source /\ more = Least(c - h, source - pos)
  BY <1>2, <1>3, <1>4 DEF AplayTypeOK, Least
<1> HIDE DEF more
<1>6. read \in Seq(Nat) /\ Len(read) = more /\ \A k \in 1 .. more : read[k] = pos + k
  <2>1. pos \in Nat
    BY DEF AplayTypeOK
  <2>2. QED
    BY <1>5, <2>1
<1> HIDE DEF read
<1>7. /\ new \in Seq(Nat) /\ Len(new) = h + more
      /\ \A k \in 1 .. h + more : new[k] = IF k <= h THEN have[k] ELSE read[k - h]
  <2>1. /\ have \o read \in Seq(Nat) /\ Len(have \o read) = Len(have) + Len(read)
        /\ \A k \in 1 .. Len(have) + Len(read) :
              (have \o read)[k] = IF k <= Len(have) THEN have[k] ELSE read[k - Len(have)]
    BY <1>4, <1>6, ConcatProperties, Zenon
  <2>2. Len(have) = h /\ Len(read) = more
    BY <1>4, <1>6
  <2>3. QED
    BY <2>1, <2>2, Zenon
<1> HIDE DEF new
<1>8. Chunk - Len(new) \in Nat /\ h + more <= c /\ Chunk \in Nat
  BY <1>2, <1>3, <1>5, <1>7, Sizes
<1>9. /\ zeros \in Seq(Nat) /\ Len(zeros) = Chunk - Len(new)
      /\ \A k \in 1 .. Chunk - Len(new) : zeros[k] = 0
  BY <1>8, ZeroFacts
<1> HIDE DEF zeros
<1>10. /\ new \o zeros \in Seq(Nat) /\ Len(new \o zeros) = Len(new) + Len(zeros)
       /\ \A k \in 1 .. Len(new) + Len(zeros) :
              (new \o zeros)[k] = IF k <= Len(new) THEN new[k] ELSE zeros[k - Len(new)]
  BY <1>7, <1>9, ConcatProperties, Zenon
<1>11. Len(new) + Len(zeros) = Chunk
  BY <1>7, <1>8, <1>9, <1>3, <1>5
<1>12. ASSUME NEW k \in 1 .. Chunk
       PROVE  buf'[k] = IF k <= h THEN buf[k]
                        ELSE IF k <= h + more THEN pos + (k - h) ELSE 0
  <2>1. buf'[k] = IF k <= Len(new) THEN new[k] ELSE zeros[k - Len(new)]
    BY <1>1, <1>10, <1>11
  <2>2. CASE k <= h
    <3>1. k \in 1 .. h /\ k \in 1 .. h + more /\ k <= Len(new)
      BY <1>3, <1>5, <1>7, <2>2
    <3>2. QED
      BY <1>4, <1>7, <2>1, <2>2, <3>1
  <2>3. CASE ~(k <= h) /\ k <= h + more
    <3>1. k \in 1 .. h + more /\ k <= Len(new) /\ k - h \in 1 .. more
      BY <1>3, <1>5, <1>7, <2>3
    <3>2. QED
      BY <1>6, <1>7, <2>1, <2>3, <3>1
  <2>4. CASE ~(k <= h) /\ ~(k <= h + more)
    <3>1. ~(k <= Len(new)) /\ k - Len(new) \in 1 .. Chunk - Len(new)
      BY <1>3, <1>5, <1>7, <1>8, <2>4
    <3>2. QED
      BY <1>9, <2>1, <2>4, <3>1
  <2>5. QED
    BY <2>2, <2>3, <2>4
<1>13. /\ buf' \in Seq(Nat) /\ Len(buf') = Chunk /\ rest' = h + more
  BY <1>1, <1>4, <1>10, <1>11
<1>14. c = Least(count, Chunk) /\ h = Least(loaded, c) /\ h \in Nat
  BY <1>3 DEF c, h
<1>15. pos' = pos + more /\ fdcount' = fdcount + more
  BY <1>1
<1>16. /\ Least(count, Chunk) \in Nat
       /\ h = Least(loaded, Least(count, Chunk))
       /\ more = Least(Least(count, Chunk) - h, source - pos)
       /\ h + more <= Least(count, Chunk)
  BY <1>2, <1>5, <1>8, <1>14
<1>17. more \in Nat /\ pos + more <= source
  BY <1>5
<1>18. QED
  BY <1>12, <1>13, <1>14, <1>15, <1>16, <1>17, Zenon

\* a file that was not begun
LEMMA NoFileIs ==
  NoFile \in File /\ NoFile.frames = <<>> /\ NoFile.header = 0
<1>1. <<>> \in Seq(Nat) /\ 0 \in Int
  OBVIOUS
<1>2. QED
  BY <1>1 DEF NoFile, File

\* Open: the file of the next number is begun or not there; before that the first may
\* have been renamed.
LEMMA OpenWrites ==
  ASSUME AplayTypeOK, Open
  PROVE  /\ Number \in Nat /\ Number \in Names /\ cur' = Number /\ filecount' = Number + 1
         /\ \/ pc' = "loop" /\ fdcount' = 0 /\ rest' \in Nat /\ rest' <= count
            \/ pc' = "failed" /\ UNCHANGED <<rest, fdcount>>
         /\ rest' = (IF file_limit > 0 THEN Least(count, file_limit) ELSE count) \/ pc' = "failed"
         /\ \E moved \in [Names -> File], file \in File :
               /\ disk' = [moved EXCEPT ![Number] = file] /\ file.frames = <<>>
               /\ pc' = "loop" => file.header = rest' /\ ~file.told
               /\ \/ moved = disk
                  \/ /\ filecount = 1 /\ Number = 2 /\ 0 \in Names /\ 1 \in Names
                     /\ moved = [disk EXCEPT ![1] = disk[0], ![0] = NoFile]
<1> DEFINE most == IF file_limit > 0 THEN Least(count, file_limit) ELSE count
<1>1. /\ Number =< MaxFiles /\ cur' = Number /\ filecount' = Number + 1 /\ Capture
  BY DEF Open
<1>2. Number \in Nat /\ Number \in Names
  BY <1>1, Sizes DEF AplayTypeOK, Number, Names
<1>3. most \in Nat /\ most <= count
  BY <1>1 DEF AplayTypeOK, Least
<1>4. PICK files \in Renamed :
         \/ /\ disk' = [files EXCEPT ![Number] = Begun(most)]
            /\ rest' = most /\ fdcount' = 0 /\ pc' = "loop"
         \/ /\ disk' = [files EXCEPT ![Number] = NoFile] /\ pc' = "failed"
            /\ UNCHANGED <<rest, fdcount>>
  BY DEF Open, Fail
<1>5. \/ files = disk
      \/ /\ filecount = 1 /\ Number = 2 /\ 0 \in Names /\ 1 \in Names
         /\ files = [disk EXCEPT ![1] = disk[0], ![0] = NoFile]
  <2>1. CASE filecount = 1 /\ ~tostdout
    <3>1. Number = 2
      BY <2>1 DEF Number
    <3>2. 0 \in Names /\ 1 \in Names
      BY <1>1, <3>1, Sizes DEF Names
    <3>3. Renamed = {disk, [disk EXCEPT ![1] = disk[0], ![0] = NoFile]}
      BY <2>1 DEF Renamed
    <3>4. QED
      BY <2>1, <3>1, <3>2, <3>3
  <2>2. CASE ~(filecount = 1 /\ ~tostdout)
    BY <2>2 DEF Renamed
  <2>3. QED
    BY <2>1, <2>2
<1>6. files \in [Names -> File]
  BY <1>5, NoFileIs DEF AplayTypeOK
<1>7. /\ Begun(most) \in File /\ Begun(most).frames = <<>>
      /\ Begun(most).header = most /\ ~Begun(most).told
  <2>1. <<>> \in Seq(Nat) /\ most \in Int
    BY <1>3
  <2> HIDE DEF most
  <2>2. QED
    BY <2>1 DEF Begun, File
<1> HIDE DEF most
<1>8. CASE /\ disk' = [files EXCEPT ![Number] = Begun(most)]
           /\ rest' = most /\ fdcount' = 0 /\ pc' = "loop"
  <2>1. /\ disk' = [files EXCEPT ![Number] = Begun(most)] /\ Begun(most).frames = <<>>
        /\ Begun(most).header = rest' /\ ~Begun(most).told
    BY <1>7, <1>8
  <2>2. \E moved \in [Names -> File], file \in File :
               /\ disk' = [moved EXCEPT ![Number] = file] /\ file.frames = <<>>
               /\ file.header = rest' /\ ~file.told
               /\ \/ moved = disk
                  \/ /\ filecount = 1 /\ Number = 2 /\ 0 \in Names /\ 1 \in Names
                     /\ moved = [disk EXCEPT ![1] = disk[0], ![0] = NoFile]
    BY <1>5, <1>6, <1>7, <2>1
  <2>3. QED
    BY <1>1, <1>2, <1>3, <1>8, <2>2, Zenon DEF most
<1>9. CASE /\ disk' = [files EXCEPT ![Number] = NoFile] /\ pc' = "failed"
           /\ UNCHANGED <<rest, fdcount>>
  <2>1. \E moved \in [Names -> File], file \in File :
               /\ disk' = [moved EXCEPT ![Number] = file] /\ file.frames = <<>>
               /\ \/ moved = disk
                  \/ /\ filecount = 1 /\ Number = 2 /\ 0 \in Names /\ 1 \in Names
                     /\ moved = [disk EXCEPT ![1] = disk[0], ![0] = NoFile]
    BY <1>5, <1>6, <1>9, NoFileIs
  <2>2. pc' = "failed" /\ pc' # "loop"
    BY <1>9
  <2>3. QED
    BY <1>1, <1>2, <1>9, <2>1, <2>2
<1>10. QED
  BY <1>4, <1>8, <1>9

\* Open: no frame is overwritten.
LEMMA OpenKeeps ==
  ASSUME AplayTypeOK, FilesInv, Open
  PROVE  /\ disk' \in [Names -> File] /\ disk'[Number].frames = <<>>
         /\ pc' = "loop" => disk'[Number].header = rest' /\ ~disk'[Number].told
         /\ \A k \in Names : k > Number => disk'[k] = NoFile
         /\ \/ /\ disk[Number] = NoFile
               /\ \A k \in Names : k # Number => disk'[k] = disk[k]
            \/ /\ filecount = 1 /\ cur = 0 /\ Number = 2 /\ 0 \in Names /\ 1 \in Names
               /\ \A k \in Names : k # 0 => disk[k] = NoFile
               /\ \A k \in Names : k # 2 => disk'[k] = IF k = 1 THEN disk[0] ELSE NoFile
<1>1. PICK moved \in [Names -> File], file \in File :
         /\ disk' = [moved EXCEPT ![Number] = file] /\ file.frames = <<>>
         /\ pc' = "loop" => file.header = rest' /\ ~file.told
         /\ \/ moved = disk
            \/ /\ filecount = 1 /\ Number = 2 /\ 0 \in Names /\ 1 \in Names
               /\ moved = [disk EXCEPT ![1] = disk[0], ![0] = NoFile]
  BY OpenWrites
<1>2. Number \in Nat /\ Number \in Names /\ disk \in [Names -> File]
      /\ cur \in Nat /\ filecount \in Nat /\ \A k \in Names : k \in Nat
  BY OpenWrites DEF AplayTypeOK, Names
<1>3. filecount = 0 \/ (filecount = cur + 1 /\ Number > cur)
  BY <1>2 DEF FilesInv, Number
<1>4. /\ disk' \in [Names -> File] /\ disk'[Number] = file
      /\ \A k \in Names : k # Number => disk'[k] = moved[k]
  BY <1>1, <1>2
<1>5. CASE moved = disk
  <2>1. \A k \in Names : k >= Number => disk[k] = NoFile
    BY <1>2, <1>3 DEF FilesInv
  <2>2. \A k \in Names : k > Number => disk'[k] = NoFile
    BY <1>2, <1>4, <1>5, <2>1
  <2>3. QED
    BY <1>1, <1>2, <1>4, <1>5, <2>1, <2>2
<1>6. CASE /\ filecount = 1 /\ Number = 2 /\ 0 \in Names /\ 1 \in Names
           /\ moved = [disk EXCEPT ![1] = disk[0], ![0] = NoFile]
  <2>1. cur = 0
    BY <1>2, <1>3, <1>6
  <2>2. \A k \in Names : k # 0 => disk[k] = NoFile
    BY <1>2, <2>1 DEF FilesInv
  <2>3. \A k \in Names : moved[k] = IF k = 1 THEN disk[0] ELSE NoFile
    BY <1>2, <1>6, <2>2
  <2>4. \A k \in Names : k # 2 => disk'[k] = IF k = 1 THEN disk[0] ELSE NoFile
    BY <1>4, <1>6, <2>3
  <2>5. \A k \in Names : k > Number => disk'[k] = NoFile
    <3>1. \A k \in Names : k > Number => k # 2 /\ k # 1
      BY <1>2, <1>6
    <3>2. QED
      BY <2>4, <3>1
  <2>6. QED
    BY <1>1, <1>4, <1>6, <2>1, <2>2, <2>4, <2>5
<1>7. QED
  BY <1>1, <1>5, <1>6

\* types
LEMMA AplayTyped ==
  ASSUME AplayTypeOK, Next
  PROVE  AplayTypeOK'
<1> USE Sizes
<1>1. CASE Stop
  <2>1. /\ UNCHANGED <<mode, split, format, limit, file_limit, count, rest, fdcount, buf, left,
                       filecount, cur, disk, source, loaded, pos>>
        /\ pc \in {"read", "write"} /\ pc' \in {pc, "failed"}
        /\ (Capture /\ now < MaxFrames /\ now' = now + 1) \/ now' = now
    BY <1>1 DEF Stop, Fail, command, output, input
  <2>2. now' \in Nat /\ now' <= MaxFrames
    BY <2>1 DEF AplayTypeOK
  <2>3. Capture' = Capture
    BY <2>1 DEF Capture
  <2>4. QED
    BY <2>1, <2>2, <2>3 DEF AplayTypeOK, CaptureStages, PlayStages
<1>2. CASE Read
  <2>1. /\ UNCHANGED <<mode, split, format, limit, file_limit, pc, count, rest, fdcount,
                       filecount, cur, disk, source, loaded, pos>>
        /\ pc = "read"
    BY <1>2 DEF Read, command, output, input
  <2>2. PICK r \in 1 .. left : /\ now + r <= MaxFrames /\ now' = now + r /\ left' = left - r
                              /\ buf' = buf \o [k \in 1 .. r |-> now + k]
    BY <1>2 DEF Read
  <2>3. r \in Nat /\ r <= left /\ now \in Nat /\ left \in Nat /\ left <= Chunk /\ buf \in Seq(Nat)
    BY DEF AplayTypeOK
  <2>4. now' \in Nat /\ now' <= MaxFrames /\ left' \in Nat /\ left' <= Chunk
    BY <2>2, <2>3
  <2> DEFINE new == [k \in 1 .. r |-> now + k]
  <2>5. new \in Seq(Nat) /\ Len(new) = r
    BY <2>3
  <2> HIDE DEF new
  <2>6. buf' \in Seq(Nat) /\ Len(buf') = Len(buf) + r
    BY <2>2, <2>3, <2>5 DEF new
  <2>7. Len(buf') + left' = Chunk
    <3>1. Len(buf) \in Nat /\ Len(buf) + left = Chunk
      BY <2>1, <2>3 DEF AplayTypeOK
    <3>2. left' = left - r /\ left \in Nat /\ r \in Nat
      BY <2>2, <2>3
    <3>3. QED
      BY <2>6, <3>1, <3>2
  <2>8. Capture' = Capture
    BY <2>1 DEF Capture
  <2>9. QED
    BY <2>1, <2>4, <2>6, <2>7, <2>8 DEF AplayTypeOK
<1>3. CASE Write
  <2>1. /\ UNCHANGED <<mode, split, format, limit, file_limit, pc, count, rest, fdcount, buf,
                       filecount, cur, disk, source, loaded, pos, now>>
        /\ pc = "write" /\ Capture' = Capture
    BY <1>3 DEF Write, command, output, input, device, Capture
  <2>2. left' \in Nat /\ left' <= Chunk
    BY <1>3 DEF Write, AplayTypeOK
  <2>3. QED
    BY <2>1, <2>2 DEF AplayTypeOK
<1>4. CASE Open
  <2>1. /\ UNCHANGED <<mode, split, format, limit, file_limit, count, buf, left, source, loaded,
                       pos, now>>
        /\ pc = "open" /\ Capture /\ Capture' = Capture
    BY <1>4 DEF Open, command, input, device, Capture
  <2>2. /\ Number \in Nat /\ Number \in Names /\ cur' = Number /\ filecount' = Number + 1
        /\ \/ pc' = "loop" /\ fdcount' = 0 /\ rest' \in Nat /\ rest' <= count
           \/ pc' = "failed" /\ UNCHANGED <<rest, fdcount>>
    BY <1>4, OpenWrites
  <2>3. PICK moved \in [Names -> File], file \in File : disk' = [moved EXCEPT ![Number] = file]
    BY <1>4, OpenWrites
  <2>4. disk' \in [Names -> File] /\ Number + 1 \in Nat
    BY <2>2, <2>3
  <2>5. QED
    BY <2>1, <2>2, <2>4 DEF AplayTypeOK, CaptureStages
<1>5. CASE Loop
  <2>1. /\ UNCHANGED <<mode, split, format, limit, file_limit, count, rest, fdcount,
                       filecount, cur, disk, source, loaded, pos, now>>
        /\ pc = "loop" /\ Capture' = Capture
        /\ \/ pc' = "read" /\ buf' = <<>> /\ left' = Chunk
           \/ pc' = "close" /\ UNCHANGED <<buf, left>>
    BY <1>5 DEF Loop, command, output, input, device, Capture
  <2>2. Capture
    BY <2>1 DEF AplayTypeOK, PlayStages
  <2>3. <<>> \in Seq(Nat) /\ Len(<<>>) = 0 /\ 0 + Chunk = Chunk /\ Chunk <= Chunk
    OBVIOUS
  <2>4. buf' \in Seq(Nat) /\ left' \in Nat /\ left' <= Chunk
    BY <2>1, <2>3 DEF AplayTypeOK
  <2>5. pc' = "read" => Len(buf') + left' = Chunk
    BY <2>1, <2>3
  <2>6. QED
    BY <2>1, <2>2, <2>4, <2>5 DEF AplayTypeOK, CaptureStages
<1>6. CASE Save
  <2>1. /\ UNCHANGED <<mode, split, format, limit, file_limit, filecount, cur, source, loaded, pos,
                       now>>
        /\ pc = "read" /\ Capture' = Capture /\ left' = 0 /\ buf' = <<>>
    BY <1>6 DEF Save, command, input, device, Capture
  <2>2. Capture
    BY <2>1 DEF AplayTypeOK, PlayStages
  <2> DEFINE c == Least(rest, Chunk)
  <2>3. c \in Nat /\ c <= rest
    BY DEF AplayTypeOK, Least
  <2> HIDE DEF c
  <2>4. PICK m \in Nat :
          /\ SavedOf(m) \in Seq(Nat)
          /\ disk' = [disk EXCEPT ![cur].frames = @ \o SavedOf(m)]
          /\ \/ /\ count' = count - c /\ rest' = rest - c
                /\ fdcount' = fdcount + m /\ pc' = "loop"
             \/ UNCHANGED <<count, rest, fdcount>> /\ pc' \in {"failed", "close"}
    BY <1>6, <2>2, SaveFacts DEF c
  <2>5. /\ count' \in Nat /\ rest' \in Nat /\ fdcount' \in Nat
        /\ rest' <= count' /\ pc' \in {"loop", "failed", "close"}
    <3>1. count \in Nat /\ rest \in Nat /\ fdcount \in Nat /\ rest <= count
      BY <2>1, <2>2 DEF AplayTypeOK
    <3>2. QED
      BY <2>3, <2>4, <3>1
  <2>6. disk' \in [Names -> File]
    <3>1. /\ disk \in [Names -> File] /\ cur \in Names /\ disk[cur].frames \in Seq(Nat)
      BY DEF AplayTypeOK, File
    <3>2. disk[cur].frames \o SavedOf(m) \in Seq(Nat)
      BY <2>4, <3>1, ConcatProperties
    <3>3. [disk[cur] EXCEPT !.frames = @ \o SavedOf(m)] \in File
      BY <3>1, <3>2 DEF File
    <3>4. QED
      BY <2>4, <3>1, <3>3
  <2>7. <<>> \in Seq(Nat) /\ 0 \in Nat /\ 0 <= Chunk
    OBVIOUS
  <2>8. buf' \in Seq(Nat) /\ left' \in Nat /\ left' <= Chunk
    BY <2>1, <2>7
  <2>9. QED
    BY <2>1, <2>2, <2>5, <2>6, <2>8 DEF AplayTypeOK, CaptureStages
<1>7. CASE Close
  <2>1. /\ UNCHANGED <<mode, split, format, limit, file_limit, count, rest, fdcount, buf, left,
                       filecount, cur, source, loaded, pos, now>>
        /\ pc = "close" /\ pc' \in {"open", "done"} /\ Capture' = Capture
        /\ disk' = disk \/ disk' = [disk EXCEPT ![cur].header = fdcount, ![cur].told = TRUE]
    BY <1>7 DEF Close, command, input, device, Capture
  <2>2. Capture
    BY <2>1 DEF AplayTypeOK, PlayStages
  <2>3. disk' \in [Names -> File]
    <3>1. disk \in [Names -> File] /\ cur \in Names /\ fdcount \in Int
      BY DEF AplayTypeOK
    <3>2. [disk[cur] EXCEPT !.header = fdcount, !.told = TRUE] \in File
      BY <3>1 DEF File
    <3>3. disk' = disk \/ disk' = [disk EXCEPT ![cur] =
                                     [disk[cur] EXCEPT !.header = fdcount, !.told = TRUE]]
      BY <2>1, <3>1
    <3>4. QED
      BY <3>1, <3>2, <3>3
  <2>4. QED
    BY <2>1, <2>2, <2>3 DEF AplayTypeOK, CaptureStages
<1>8. CASE Preload
  <2>1. /\ UNCHANGED <<mode, split, format, limit, file_limit, count, rest, fdcount, buf,
                       filecount, cur, disk, source, loaded, pos, now>>
        /\ pc = "preload" /\ pc' \in {"write", "fill"} /\ Capture' = Capture
        /\ left' = Chunk \/ left' = left
    BY <1>8 DEF Preload, command, output, device, Capture
  <2>2. ~Capture /\ left' \in Nat /\ left' <= Chunk
    BY <2>1 DEF AplayTypeOK, CaptureStages
  <2>3. QED
    BY <2>1, <2>2 DEF AplayTypeOK, PlayStages
<1>9. CASE Fill
  <2>1. /\ UNCHANGED <<mode, split, format, limit, file_limit, count,
                       filecount, cur, disk, source, now>>
        /\ pc = "fill" /\ pc' = "write" /\ Capture' = Capture /\ loaded' = 0
        /\ count > 0
    BY <1>9 DEF Fill, command, output, device, Capture
  <2>2. ~Capture
    BY <2>1 DEF AplayTypeOK, CaptureStages
  <2>3. PICK h, more \in Nat :
           /\ pos + more <= source /\ rest' = h + more /\ pos' = pos + more
           /\ fdcount' = fdcount + more /\ buf' \in Seq(Nat) /\ Len(buf') = Chunk
    BY <1>9, <2>2, FillFacts
  <2>4. /\ rest' \in Nat /\ pos' \in Nat /\ fdcount' \in Nat /\ left' = Chunk /\ pos' <= source
        /\ loaded' \in Nat /\ Chunk \in Nat /\ Chunk <= Chunk /\ loaded' <= Len(buf')
    <3>1. left' = Chunk /\ Chunk \in Nat /\ Chunk <= Chunk
      <4>1. \E frames : PcmWrite(frames)
        BY <1>9, Zenon DEF Fill
      <4>2. QED
        BY <4>1 DEF PcmWrite
    <3>2. pos \in Nat /\ fdcount \in Nat
      BY DEF AplayTypeOK
    <3>3. QED
      BY <2>1, <2>3, <3>1, <3>2
  <2>5. QED
    BY <2>1, <2>2, <2>3, <2>4 DEF AplayTypeOK, PlayStages
<1>10. CASE Written
  <2>1. /\ UNCHANGED <<mode, split, format, limit, file_limit, rest, fdcount,
                       filecount, cur, disk, source, now, pos>>
        /\ pc = "write" /\ Capture' = Capture /\ left' = 0
    BY <1>10 DEF Written, command, output, device, Capture
  <2>2. ~Capture
    BY <2>1 DEF AplayTypeOK, CaptureStages
  <2>3. /\ pc' \in {"done", "preload", "fill", "drain"}
        /\ count' \in {count, count - Chunk, count - rest}
        /\ \/ UNCHANGED <<buf, loaded>>
           \/ /\ loaded > Chunk /\ loaded' = loaded - Chunk
              /\ buf' = SubSeq(buf, Chunk + 1, Len(buf))
    BY <1>10 DEF Written
  <2>4. count' \in Int /\ 0 \in Nat /\ 0 <= Chunk
    BY <2>3 DEF AplayTypeOK
  <2>5. buf' \in Seq(Nat) /\ loaded' \in Nat /\ loaded' <= Len(buf')
    <3>1. CASE UNCHANGED <<buf, loaded>>
      BY <2>2, <3>1 DEF AplayTypeOK
    <3>2. CASE /\ loaded > Chunk /\ loaded' = loaded - Chunk
               /\ buf' = SubSeq(buf, Chunk + 1, Len(buf))
      <4>1. /\ buf \in Seq(Nat) /\ Len(buf) \in Nat /\ loaded \in Nat /\ loaded <= Len(buf)
            /\ Chunk \in Nat
        BY <2>2 DEF AplayTypeOK
      <4>2. buf' \in Seq(Nat) /\ Len(buf') = Len(buf) - Chunk
        BY <3>2, <4>1
      <4>3. QED
        BY <3>2, <4>1, <4>2
    <3>3. QED
      BY <2>3, <3>1, <3>2
  <2>6. QED
    BY <2>1, <2>2, <2>3, <2>4, <2>5 DEF AplayTypeOK, PlayStages
<1>11. CASE Drain
  <2>1. /\ UNCHANGED <<mode, split, format, limit, file_limit, count, rest, fdcount, buf, left,
                       filecount, cur, disk, source, loaded, pos, now>>
        /\ pc \in {"drain", "fill"} /\ pc' = "done" /\ Capture' = Capture
    BY <1>11 DEF Drain, command, output, input, device, Capture
  <2>2. QED
    BY <2>1 DEF AplayTypeOK, PlayStages, CaptureStages
<1>12. CASE Abort \/ Recycle \/ Interrupted
  <2>1. /\ UNCHANGED <<mode, split, format, limit, file_limit, count, rest, fdcount, buf, left,
                       filecount, cur, disk, source, loaded, pos, now>>
        /\ pc' \in {pc, "failed"} /\ Capture' = Capture
    BY <1>12 DEF Abort, Recycle, Interrupted, Fail, command, output, input,
                 device, Capture
  <2>2. QED
    BY <2>1 DEF AplayTypeOK, PlayStages, CaptureStages
<1>13. QED
  BY <1>1, <1>2, <1>3, <1>4, <1>5, <1>6, <1>7, <1>8, <1>9, <1>10, <1>11, <1>12 DEF Next

\* types, at the start
LEMMA AplayStarts ==
  ASSUME Init
  PROVE  AplayTypeOK
<1>1. /\ limit \in Nat /\ (split => format = "raw") /\ split \in BOOLEAN
      /\ mode \in {"capture", "playback"}
      /\ rest = 0 /\ fdcount = 0 /\ left = 0 /\ filecount = 0 /\ cur = 0 /\ now = 0
  BY Sizes DEF Init
<1>2. Chunk \in Nat /\ MaxFrames \in Nat /\ cur \in Names /\ 0 <= Chunk /\ 0 <= MaxFrames
  BY <1>1, Sizes DEF Names
<1>3. disk \in [Names -> File]
  BY NoFileIs DEF Init
<1>4. CASE Capture
  <2>1. /\ file_limit \in Nat /\ pc = "open" /\ count = CaptureCount(limit)
        /\ source = 0 /\ loaded = 0 /\ pos = 0 /\ buf = <<>>
    <3>1. /\ file_limit \in (IF split THEN {0} ELSE FileLimits)
          /\ pc = "open" /\ count = CaptureCount(limit)
          /\ source = 0 /\ loaded = 0 /\ pos = 0 /\ buf = <<>>
      BY <1>4, Zenon DEF Init
    <3>2. QED
      BY <3>1, Sizes
  <2>2. count \in Nat
    <3>1. MaxFrames + Chunk \in Nat /\ limit + (limit % 2) \in Nat
      BY <1>1, <1>2
    <3>2. QED
      BY <1>1, <2>1, <3>1 DEF CaptureCount, Unlimited
  <2>3. <<>> \in Seq(Nat) /\ 0 <= 0
    OBVIOUS
  <2>4. QED
    BY <1>1, <1>2, <1>3, <1>4, <2>1, <2>2, <2>3 DEF AplayTypeOK, CaptureStages
<1>5. CASE ~Capture
  <2>1. /\ file_limit = 0 /\ source \in Nat /\ pc = "preload"
        /\ loaded \in 0 .. source /\ pos = loaded /\ count = wanted
        /\ buf = [k \in 1 .. loaded |-> k]
        /\ \E promised \in {Least(source, 1), source, Unlimited} :
              wanted = PlayCount(limit, promised)
    <3>1. /\ file_limit = 0 /\ source \in Lengths /\ pc = "preload"
          /\ loaded \in (IF split THEN {0} ELSE 0 .. source) /\ pos = loaded /\ count = wanted
          /\ buf = [k \in 1 .. loaded |-> k]
          /\ \E promised \in {Least(source, 1), source, Unlimited} :
                wanted = PlayCount(limit, promised)
      BY <1>5, Zenon DEF Init
    <3>2. source \in Nat /\ loaded \in 0 .. source
      BY <3>1, Sizes
    <3>3. QED
      BY <3>1, <3>2
  <2>2. count \in Int
    BY <1>1, <1>2, <2>1 DEF PlayCount, Least, Unlimited
  <2>3. loaded \in Nat /\ loaded <= source
    BY <2>1
  <2>4. buf \in Seq(Nat) /\ Len(buf) = loaded
    BY <2>1, <2>3
  <2>5. QED
    BY <1>1, <1>2, <1>3, <1>5, <2>1, <2>2, <2>3, <2>4 DEF AplayTypeOK, PlayStages
<1>6. QED
  BY <1>4, <1>5

\* files and headers, at the start
LEMMA RecordStarts ==
  ASSUME Init
  PROVE  RecordInv
<1>1. disk = [k \in Names |-> NoFile] /\ filecount = 0 /\ cur = 0 /\ refused = FALSE
  BY DEF Init
<1>2. Capture => pc = "open"
  BY DEF Init
<1>3. \A k \in Names : disk[k] = NoFile /\ disk[k].frames = <<>> /\ disk[k].header = 0
  BY <1>1 DEF NoFile
<1>4. Len(<<>>) = 0
  OBVIOUS
<1>5. Capture => FilesInv
  BY <1>1, <1>2, <1>3 DEF FilesInv
<1>6. Capture => RefusedInv /\ HeaderInv
  BY <1>1, <1>2, <1>3, <1>4 DEF RefusedInv, HeaderInv, HeaderOf
<1>7. QED
  BY <1>5, <1>6 DEF RecordInv

\* a step that changes the current file only
LEMMA FilesStay ==
  ASSUME AplayTypeOK, FilesInv, UNCHANGED <<filecount, cur>>, pc # "open",
         \A k \in Names : k # cur => disk'[k] = disk[k]
  PROVE  FilesInv'
<1>1. Names' = Names /\ NoFile' = NoFile /\ filecount # 0
  BY DEF Names, NoFile, FilesInv
<1>2. cur \in Nat
  BY DEF AplayTypeOK, Names
<1>3. \A k \in Names : k > cur => k # cur
  BY <1>2 DEF Names
<1>4. QED
  BY <1>1, <1>3 DEF FilesInv

\* files and headers
LEMMA RecordKept ==
  ASSUME AplayTypeOK, RecordInv, Next
  PROVE  RecordInv'
<1> SUFFICES ASSUME Capture, FilesInv, RefusedInv, HeaderInv,
                      Capture' = Capture, format' = format, split' = split
               PROVE  FilesInv' /\ RefusedInv' /\ HeaderInv'
  <2>1. UNCHANGED <<mode, format, split>>
    BY DEF Next, Stop, Read, Write, Open, Loop, Save, Close, Preload, Fill,
           Written, Drain, Abort, Recycle, Interrupted, command
  <2>2. Capture' = Capture
    BY <2>1 DEF Capture
  <2>3. QED
    BY <2>1, <2>2 DEF RecordInv
<1>1. pc \in CaptureStages /\ disk \in [Names -> File] /\ cur \in Names
  BY DEF AplayTypeOK
<1>2. CASE Open
  <2>1. pc = "open" /\ UNCHANGED <<in_aborting, refused>>
    BY <1>2 DEF Open
  <2>2. /\ Number \in Nat /\ Number \in Names /\ cur' = Number /\ filecount' = Number + 1
        /\ \/ pc' = "loop" /\ fdcount' = 0 /\ rest' \in Nat
           \/ pc' = "failed"
    BY <1>2, OpenWrites
  <2>3. /\ disk'[Number].frames = <<>>
        /\ pc' = "loop" => disk'[Number].header = rest' /\ ~disk'[Number].told
        /\ \A k \in Names : k > Number => disk'[k] = NoFile
        /\ \A k \in Names : k # Number =>
              \/ disk'[k] = disk[k]
              \/ disk'[k] = NoFile
              \/ disk'[k] = disk[0] /\ 0 \in Names
    BY <1>2, OpenKeeps
  <2>4. ~refused /\ ~refused'
    BY <2>1 DEF RefusedInv
  <2>5. FilesInv'
    <3>1. filecount' > 0 /\ filecount' # 0 /\ Names' = Names /\ NoFile' = NoFile
      BY <2>2 DEF Names, NoFile
    <3>2. QED
      BY <2>2, <2>3, <3>1 DEF FilesInv
  <2>6. RefusedInv'
    BY <2>4 DEF RefusedInv
  <2>7. HeaderInv'
    <3> SUFFICES ASSUME format = "wave" PROVE HeaderInv'
      BY DEF HeaderInv
    <3>1. Len(<<>>) = 0 /\ NoFile.frames = <<>> /\ NoFile.header = 0
      BY NoFileIs
    <3>2. \A k \in Names : \/ disk[k].header = Len(disk[k].frames)
                           \/ ~disk[k].told /\ disk[k].header >= Len(disk[k].frames)
      BY <2>1, <2>4 DEF HeaderInv, HeaderOf
    <3>3. \A k \in Names : k # cur' => HeaderOf(k)'
      BY <2>2, <2>3, <3>1, <3>2 DEF HeaderOf
    <3>4. /\ pc' \notin {"read", "close", "open", "done"}
          /\ pc' = "loop" => /\ fdcount' = Len(disk'[cur'].frames) /\ ~disk'[cur'].told
                             /\ disk'[cur'].header >= Len(disk'[cur'].frames) + rest'
                             /\ disk'[cur'].header >= Len(disk'[cur'].frames)
      BY <2>2, <2>3, <3>1
    <3>5. QED
      BY <3>3, <3>4 DEF HeaderInv, Names
  <2>8. QED
    BY <2>5, <2>6, <2>7
<1>3. CASE Save
  <2>1. UNCHANGED <<filecount, cur>> /\ pc = "read"
    BY <1>3 DEF Save
  <2> DEFINE c == Least(rest, Chunk)
  <2>10. c \in Nat /\ c <= rest /\ rest \in Nat
    BY Sizes DEF AplayTypeOK, Least
  <2> HIDE DEF c
  <2>2. PICK m \in Nat :
          /\ SavedOf(m) \in Seq(Nat) /\ Len(SavedOf(m)) = m /\ m <= c
          /\ disk' = [disk EXCEPT ![cur].frames = @ \o SavedOf(m)]
          /\ \/ /\ fdcount' = fdcount + m /\ pc' = "loop" /\ refused' = refused
                /\ rest' = rest - c
             \/ /\ refused' /\ UNCHANGED <<rest, fdcount>>
                /\ pc' = "failed" \/ (pc' = "close" /\ in_aborting')
    BY <1>3, SaveFacts DEF c
  <2>3. ~refused /\ fdcount \in Nat
    BY <2>1 DEF RefusedInv, AplayTypeOK
  <2>4. /\ Len(disk'[cur].frames) = Len(disk[cur].frames) + m
        /\ disk'[cur].header = disk[cur].header /\ disk[cur].header \in Int
        /\ disk'[cur].told = disk[cur].told
        /\ \A k \in Names : k # cur => disk'[k] = disk[k]
        /\ Len(disk[cur].frames) \in Nat
    <3>1. disk[cur].frames \in Seq(Nat)
      BY <1>1 DEF File
    <3>2. Len(disk[cur].frames \o SavedOf(m)) = Len(disk[cur].frames) + m
      <4>1. Len(disk[cur].frames \o SavedOf(m)) = Len(disk[cur].frames) + Len(SavedOf(m))
        BY <2>2, <3>1, ConcatProperties, Zenon
      <4>2. QED
        BY <2>2, <4>1
    <3>3. /\ disk'[cur].frames = disk[cur].frames \o SavedOf(m)
          /\ disk'[cur].header = disk[cur].header /\ disk[cur].header \in Int
          /\ disk'[cur].told = disk[cur].told
      BY <1>1, <2>2 DEF File
    <3>4. QED
      BY <1>1, <2>2, <3>1, <3>2, <3>3
  <2>5. FilesInv'
    BY <2>1, <2>4, FilesStay
  <2>6. RefusedInv'
    BY <2>2, <2>3 DEF RefusedInv
  <2>7. HeaderInv'
    <3>1. format = "wave" => /\ fdcount = Len(disk[cur].frames) /\ ~disk[cur].told
                             /\ disk[cur].header >= Len(disk[cur].frames) + rest
      BY <2>1, <2>3 DEF HeaderInv
    <3>2. \A k \in Names : format = "wave" /\ k # cur => HeaderOf(k)'
      BY <2>1, <2>3, <2>4 DEF HeaderInv, HeaderOf
    <3>3. format = "wave" =>
            /\ \/ fdcount' = Len(disk'[cur].frames)
               \/ refused' /\ fdcount' <= Len(disk'[cur].frames)
            /\ ~disk'[cur].told /\ disk'[cur].header >= Len(disk'[cur].frames)
            /\ pc' = "loop" => disk'[cur].header >= Len(disk'[cur].frames) + rest'
      <4> DEFINE n == Len(disk[cur].frames)
                 n1 == Len(disk'[cur].frames)
                 h == disk[cur].header
      <4>1. n \in Nat /\ n1 = n + m /\ h \in Int /\ disk'[cur].header = h
            /\ disk'[cur].told = disk[cur].told
        BY <2>4
      <4> HIDE DEF n, n1, h
      <4>2. format = "wave" => fdcount = n /\ ~disk[cur].told /\ h >= n + rest
        BY <3>1 DEF n, h
      <4>3. format = "wave" => /\ fdcount' = n1 \/ (refused' /\ fdcount' <= n1)
                               /\ h >= n1
                               /\ pc' = "loop" => h >= n1 + rest'
        BY <2>2, <2>3, <2>10, <4>1, <4>2
      <4>4. QED
        BY <4>1, <4>2, <4>3 DEF n1
    <3>4. pc' \notin {"open", "read", "done"}
      BY <2>2
    <3>5. QED
      BY <2>1, <3>2, <3>3, <3>4 DEF HeaderInv, Names
  <2>8. QED
    BY <2>5, <2>6, <2>7
<1>4. CASE Close
  <2>1. /\ UNCHANGED <<filecount, cur, fdcount, refused, in_aborting>> /\ pc = "close"
        /\ (pc' = "open" /\ ~in_aborting) \/ pc' = "done"
        /\ disk' = disk \/ disk' = [disk EXCEPT ![cur].header = fdcount, ![cur].told = TRUE]
    BY <1>4 DEF Close
  <2>2. /\ \/ disk'[cur] = disk[cur]
           \/ /\ disk'[cur].header = fdcount /\ disk'[cur].told
              /\ disk'[cur].frames = disk[cur].frames
        /\ \A k \in Names : k # cur => disk'[k] = disk[k]
    BY <1>1, <2>1 DEF File
  <2>3. FilesInv'
    BY <2>1, <2>2, FilesStay
  <2>4. RefusedInv'
    BY <2>1 DEF RefusedInv
  <2>5. HeaderInv'
    <3>1. \A k \in Names : format = "wave" /\ k # cur => HeaderOf(k)'
      BY <2>1, <2>2 DEF HeaderInv, HeaderOf
    <3>2. format = "wave" => HeaderOf(cur)'
      BY <2>1, <2>2 DEF HeaderInv, HeaderOf
    <3>3. QED
      BY <2>1, <3>1, <3>2 DEF HeaderInv, Names
  <2>6. QED
    BY <2>3, <2>4, <2>5
<1>5. CASE ~(Open \/ Save \/ Close)
  <2>1. /\ UNCHANGED <<filecount, cur, disk, fdcount, rest, refused>>
        /\ (in_aborting => in_aborting')
        /\ \/ pc' = pc
           \/ pc' = "failed" /\ pc = "read"
           \/ pc = "loop" /\ pc' \in {"read", "close"}
    <3>1. CASE Stop \/ Interrupted
      BY <1>1, <3>1 DEF Stop, Interrupted, Fail, output, CaptureStages
    <3>2. CASE Read \/ Loop
      BY <3>2 DEF Read, Loop, output
    <3>3. CASE Write \/ Preload \/ Fill \/ Written \/ Drain
      <4>1. pc \in PlayStages \ {"done", "failed"}
        BY <3>3 DEF Write, Preload, Fill, Written, Drain, PlayStages
      <4>2. FALSE
        BY <1>1, <4>1 DEF PlayStages, CaptureStages
      <4>3. QED
        BY <4>2
    <3>4. CASE Abort \/ Recycle
      BY <3>4 DEF Abort, Recycle, output
    <3>5. QED
      BY <1>5, <3>1, <3>2, <3>3, <3>4 DEF Next
  <2>2. FilesInv'
    BY <2>1 DEF FilesInv, Names, NoFile
  <2>3. RefusedInv'
    BY <2>1 DEF RefusedInv
  <2>4. HeaderInv'
    BY <2>1 DEF HeaderInv, HeaderOf, Names
  <2>5. QED
    BY <2>2, <2>3, <2>4
<1>6. QED
  BY <1>2, <1>3, <1>4, <1>5

\* a step of others
LEMMA AplayStutters ==
  ASSUME AplayTypeOK, RecordInv, UNCHANGED vars
  PROVE  AplayTypeOK' /\ RecordInv'
<1>1. UNCHANGED <<mode, split, format, limit, file_limit, in_aborting, recycle, pc, count, rest,
                  fdcount, buf, left, filecount, cur, disk, source, loaded, pos, now, refused>>
  BY DEF vars, command, output, input, device
<1>2. Capture' = Capture /\ Names' = Names
  BY <1>1 DEF Capture, Names
<1>3. AplayTypeOK'
  BY <1>1, <1>2 DEF AplayTypeOK
<1>4. FilesInv' = FilesInv /\ RefusedInv' = RefusedInv /\ HeaderInv' = HeaderInv
  BY <1>1, <1>2 DEF FilesInv, RefusedInv, HeaderInv, HeaderOf, NoFile
<1>5. QED
  BY <1>2, <1>3, <1>4 DEF RecordInv

\* The header of a file that was closed says how many frames it holds, or after a
\* write that the disk refused not more than that; one that could not be rewritten, not
\* less (capture, end_wave).
THEOREM WaveHeadersAreTrue == Spec => []WaveHeaderIsTrue
<1>1. Init => AplayTypeOK /\ RecordInv
  BY AplayStarts, RecordStarts
<1>2. AplayTypeOK /\ RecordInv /\ [Next]_vars => (AplayTypeOK /\ RecordInv)'
  BY AplayTyped, RecordKept, AplayStutters
<1>3. AplayTypeOK /\ RecordInv => WaveHeaderIsTrue
  BY DEF RecordInv, HeaderInv, HeaderOf, WaveHeaderIsTrue, AplayTypeOK, File
<1>4. QED
  BY <1>1, <1>2, <1>3, PTL DEF Spec

Multiple(x) == \E q \in Nat : x = q * Chunk
SavedIn(d) == (UNION {Range(d[k].frames) : k \in Names}) \ {0}

OrderInv ==
    \A k, l \in Names : \A i \in 1 .. Len(disk[k].frames), j \in 1 .. Len(disk[l].frames) :
       k < l \/ (k = l /\ i < j) =>
          \/ disk[l].frames[j] = 0
          \/ 0 < disk[k].frames[i] /\ disk[k].frames[i] < disk[l].frames[j]

ZeroInv ==
    \A k \in Names : \A i \in 1 .. Len(disk[k].frames) :
       disk[k].frames[i] = 0 =>
          split /\ in_aborting /\ pc \in {"loop", "close", "done", "failed"}

BufInv ==
    /\ pc \notin {"read", "failed"} => buf = <<>>
    /\ \A i, j \in 1 .. Len(buf) : i < j => buf[i] < buf[j]
    /\ \A i \in 1 .. Len(buf) : buf[i] \in 1 .. now /\ \A g \in Saved : g < buf[i]

Placed(S, L, C, H, n) ==
    /\ S \cup L \cup C \cup H = 1 .. n
    /\ S \cap (L \cup C \cup H) = {} /\ L \cap (C \cup H) = {} /\ C \cap H = {}

PlaceInv == Placed(Saved, lost, cut, Held, now)

LengthInv ==
    /\ split => file_limit = 0
    /\ pc = "read" => rest > 0
    /\ split /\ pc \in {"loop", "read", "close"} => rest = count
    /\ split /\ pc = "close" /\ ~in_aborting => rest = 0
    /\ pc = "read" \/ (~in_aborting /\ pc # "failed") =>
          count + Cardinality(Saved) = CaptureCount(limit)
    /\ pc = "done" /\ ~in_aborting => count = 0

WholeInv ==
    WholeChunks =>
      /\ cut = {} \/ refused
      /\ limit # 0 => Multiple(count)
      /\ pc \in {"loop", "read", "close"} => Multiple(rest) \/ (limit = 0 /\ rest = count)

KeepInv == Capture => OrderInv /\ ZeroInv /\ BufInv /\ PlaceInv /\ LengthInv /\ WholeInv

-----------------------------------------------------------------------------
\* % by a chunk that is not known
LEMMA MultipleIs ==
  ASSUME NEW x \in Nat, x % Chunk = 0
  PROVE  Multiple(x)
<1>1. Chunk \in Nat \ {0}
  BY Sizes
<1>2. x \div Chunk \in Nat
  BY <1>1
<1>3. PICK q \in Nat : q = x \div Chunk
  BY <1>2
<1>4. x = Chunk * q + 0
  BY <1>1, <1>3
<1>5. QED
  BY <1>1, <1>4 DEF Multiple

\* a chunk less is a multiple too
LEMMA MultipleLess ==
  ASSUME NEW x \in Nat, Multiple(x), x > 0
  PROVE  x >= Chunk /\ Multiple(x - Chunk)
<1>1. PICK q \in Nat : x = q * Chunk
  BY DEF Multiple
<1>2. Chunk \in Nat \ {0} /\ q > 0
  BY <1>1, Sizes
<1>3. q - 1 \in Nat /\ x >= Chunk /\ x - Chunk = (q - 1) * Chunk
  BY <1>1, <1>2
<1>4. QED
  BY <1>3 DEF Multiple

\* what is in files
LEMMA SavedInIs ==
  ASSUME NEW d \in [Names -> File]
  PROVE  \A x : x \in SavedIn(d) <=>
                x # 0 /\ \E k \in Names : \E i \in 1 .. Len(d[k].frames) : x = d[k].frames[i]
<1>1. \A k \in Names : DOMAIN d[k].frames = 1 .. Len(d[k].frames)
  <2> TAKE k \in Names
  <2>1. d[k].frames \in Seq(Nat)
    BY DEF File
  <2>2. QED
    BY <2>1
<1>2. \A k \in Names : \A x : x \in Range(d[k].frames) <=>
                              \E i \in 1 .. Len(d[k].frames) : x = d[k].frames[i]
  BY <1>1 DEF Range
<1>3. \A x : x \in SavedIn(d) <=> x # 0 /\ \E k \in Names : x \in Range(d[k].frames)
  <2> DEFINE U == UNION {Range(d[k].frames) : k \in Names}
  <2>1. ASSUME NEW x, x \in U
        PROVE  \E k \in Names : x \in Range(d[k].frames)
    BY <2>1
  <2>2. ASSUME NEW k \in Names, NEW x, x \in Range(d[k].frames)
        PROVE  x \in U
    BY <2>2
  <2>3. SavedIn(d) = U \ {0}
    BY Zenon DEF SavedIn
  <2> HIDE DEF U
  <2>4. QED
    BY <2>1, <2>2, <2>3
<1>4. ASSUME NEW x
      PROVE  x \in SavedIn(d) <=>
                x # 0 /\ \E k \in Names : \E i \in 1 .. Len(d[k].frames) : x = d[k].frames[i]
  <2>1. x \in SavedIn(d) <=> x # 0 /\ \E k \in Names : x \in Range(d[k].frames)
    BY <1>3
  <2>2. \A k \in Names : x \in Range(d[k].frames) <=>
                            \E i \in 1 .. Len(d[k].frames) : x = d[k].frames[i]
    BY <1>2
  <2>3. QED
    BY <2>1, <2>2, Zenon
<1>5. QED
  BY <1>4

\* what is in the buffer
LEMMA HeldIs ==
  ASSUME AplayTypeOK, Capture
  PROVE  Held = {buf[k] : k \in 1 .. Len(buf)}
<1>1. buf \in Seq(Nat) /\ DOMAIN buf = 1 .. Len(buf)
  BY DEF AplayTypeOK
<1>2. QED
  BY <1>1 DEF Held, Range

\* An initial part of the buffer holds as many frames as it is long.
LEMMA BufCount ==
  ASSUME AplayTypeOK, BufInv, NEW c \in 0 .. Len(buf)
  PROVE  LET T == {buf[k] : k \in 1 .. c}
         IN  IsFiniteSet(T) /\ Cardinality(T) = c
<1> DEFINE T == {buf[k] : k \in 1 .. c}
           f == [k \in 1 .. c |-> buf[k]]
<1>1. buf \in Seq(Nat) /\ c \in Nat /\ c <= Len(buf) /\ Len(buf) \in Nat
  BY DEF AplayTypeOK
<1>2. f \in [1 .. c -> T]
  OBVIOUS
<1>3. \A i, j \in 1 .. c : f[i] = f[j] => i = j
  <2> SUFFICES ASSUME NEW i \in 1 .. c, NEW j \in 1 .. c, f[i] = f[j] PROVE i = j
    OBVIOUS
  <2>1. i \in 1 .. Len(buf) /\ j \in 1 .. Len(buf) /\ buf[i] = buf[j] /\ buf[i] \in Nat
    BY <1>1
  <2>2. ~(i < j) /\ ~(j < i)
    BY <2>1 DEF BufInv
  <2>3. QED
    BY <2>1, <2>2
<1>4. \A t \in T : \E k \in 1 .. c : f[k] = t
  OBVIOUS
<1>5. f \in Injection(1 .. c, T) /\ f \in Surjection(1 .. c, T)
  <2> HIDE DEF f, T
  <2>1. QED
    BY <1>2, <1>3, <1>4, Zenon DEF Injection, Surjection, IsInjective
<1>6. ExistsBijection(1 .. c, T)
  BY <1>5 DEF ExistsBijection, Bijection
<1>7. IsFiniteSet(T)
  BY <1>1, <1>6, FS_NatBijection
<1>8. Cardinality(T) = c
  BY <1>1, <1>6, FS_CountingElements
<1>9. QED
  BY <1>7, <1>8

\* There are at most as many frames in the files as the device gave.
LEMMA SavedBound ==
  ASSUME AplayTypeOK, PlaceInv
  PROVE  IsFiniteSet(Saved) /\ Cardinality(Saved) \in Nat /\ Cardinality(Saved) <= now
<1>1. now \in Nat
  BY DEF AplayTypeOK
<1>2. IsFiniteSet(1 .. now) /\ Cardinality(1 .. now) = now
  BY <1>1, FS_Interval
<1>3. Saved \in SUBSET (1 .. now)
  BY DEF PlaceInv, Placed
<1>4. IsFiniteSet(Saved) /\ Cardinality(Saved) <= now
  BY <1>2, <1>3, FS_Subset
<1>5. QED
  BY <1>4, FS_CardinalityType

\* What Save puts on the disk.
LEMMA SaveAdds ==
  ASSUME AplayTypeOK, NEW m \in Nat, SavedOf(m) \in Seq(Nat), Len(SavedOf(m)) = m,
         disk' = [disk EXCEPT ![cur].frames = @ \o SavedOf(m)],
         \A i \in 1 .. Len(buf) : buf[i] # 0
  PROVE  LET n == Len(disk[cur].frames)
         IN  /\ n \in Nat /\ disk' \in [Names -> File]
             /\ \A k \in Names : k # cur => disk'[k] = disk[k]
             /\ Len(disk'[cur].frames) = n + m
             /\ \A i \in 1 .. n + m :
                   disk'[cur].frames[i] = IF i <= n THEN disk[cur].frames[i]
                                          ELSE IF i - n <= Len(buf) THEN buf[i - n] ELSE 0
             /\ SavedIn(disk') = SavedIn(disk) \cup {buf[k] : k \in 1 .. Least(m, Len(buf))}
<1> DEFINE n == Len(disk[cur].frames)
           s == SavedOf(m)
           old == disk[cur].frames
<1>1. disk \in [Names -> File] /\ cur \in Names /\ old \in Seq(Nat) /\ n \in Nat
      /\ buf \in Seq(Nat) /\ Len(buf) \in Nat
  BY DEF AplayTypeOK, File
<1>2. s \in Seq(Nat) /\ Len(s) = m
      /\ \A k \in 1 .. m : s[k] = IF k <= Len(buf) THEN buf[k] ELSE 0
  BY DEF SavedOf
<1> HIDE DEF s, old
<1>3. /\ old \o s \in Seq(Nat) /\ Len(old \o s) = Len(old) + Len(s)
      /\ \A i \in 1 .. Len(old) + Len(s) :
            (old \o s)[i] = IF i <= Len(old) THEN old[i] ELSE s[i - Len(old)]
  BY <1>1, <1>2, ConcatProperties, Zenon
<1>4. n = Len(old)
  BY DEF old
<1> HIDE DEF n
<1>5. /\ disk' = [disk EXCEPT ![cur].frames = old \o s]
      /\ disk'[cur].frames = old \o s
      /\ \A k \in Names : k # cur => disk'[k] = disk[k]
      /\ disk' \in [Names -> File]
  BY <1>1, <1>3 DEF old, s, File
<1>6. Len(disk'[cur].frames) = n + m
  BY <1>2, <1>3, <1>4, <1>5
<1>7. ASSUME NEW i \in 1 .. n + m
      PROVE  disk'[cur].frames[i] = IF i <= n THEN disk[cur].frames[i]
                                    ELSE IF i - n <= Len(buf) THEN buf[i - n] ELSE 0
  <2>1. disk'[cur].frames[i] = IF i <= n THEN old[i] ELSE s[i - n]
    BY <1>2, <1>3, <1>4, <1>5
  <2>2. ~(i <= n) => i - n \in 1 .. m
    BY <1>1
  <2>3. QED
    BY <1>2, <2>1, <2>2 DEF old
<1>8. SavedIn(disk') = SavedIn(disk) \cup {buf[k] : k \in 1 .. Least(m, Len(buf))}
  <2>1. \A x : x \in SavedIn(disk') <=>
               x # 0 /\ \E k \in Names :
                            \E i \in 1 .. Len(disk'[k].frames) : x = disk'[k].frames[i]
    BY <1>5, SavedInIs
  <2>2. \A x : x \in SavedIn(disk) <=>
               x # 0 /\ \E k \in Names : \E i \in 1 .. Len(disk[k].frames) : x = disk[k].frames[i]
    BY <1>1, SavedInIs
  <2>3. ASSUME NEW x, x \in SavedIn(disk')
        PROVE  x \in SavedIn(disk) \/ \E k \in 1 .. Least(m, Len(buf)) : x = buf[k]
    <3>1. x # 0
      BY <2>1, <2>3
    <3>2. PICK k \in Names : \E i \in 1 .. Len(disk'[k].frames) : x = disk'[k].frames[i]
      BY <2>1, <2>3
    <3>3. PICK i \in 1 .. Len(disk'[k].frames) : x = disk'[k].frames[i]
      BY <3>2
    <3>4. CASE k # cur
      BY <1>5, <2>2, <3>1, <3>3, <3>4
    <3>5. CASE k = cur
      <4>1. i \in 1 .. n + m
        BY <1>6, <3>3, <3>5
      <4>2. CASE i <= n
        <5>1. x = disk[cur].frames[i] /\ i \in 1 .. Len(disk[cur].frames)
          BY <1>1, <1>4, <1>7, <3>3, <3>5, <4>1, <4>2 DEF old
        <5>2. QED
          BY <1>1, <2>2, <3>1, <5>1
      <4>3. CASE ~(i <= n)
        <5>1. x = IF i - n <= Len(buf) THEN buf[i - n] ELSE 0
          BY <1>7, <3>3, <3>5, <4>1, <4>3
        <5>2. i - n \in 1 .. Least(m, Len(buf)) /\ x = buf[i - n]
          BY <1>1, <3>1, <4>1, <4>3, <5>1 DEF Least
        <5>3. QED
          BY <5>2
      <4>4. QED
        BY <4>2, <4>3
    <3>6. QED
      BY <3>4, <3>5
  <2>4. ASSUME NEW x, x \in SavedIn(disk)
        PROVE  x \in SavedIn(disk')
    <3>1. x # 0
      BY <2>2, <2>4
    <3>2. PICK k \in Names : \E i \in 1 .. Len(disk[k].frames) : x = disk[k].frames[i]
      BY <2>2, <2>4
    <3>3. PICK i \in 1 .. Len(disk[k].frames) : x = disk[k].frames[i]
      BY <3>2
    <3>4. CASE k # cur
      BY <1>5, <2>1, <3>1, <3>3, <3>4
    <3>5. CASE k = cur
      <4>1. i \in 1 .. n + m /\ i <= n /\ i \in 1 .. Len(disk'[cur].frames)
        BY <1>1, <1>4, <1>6, <3>3, <3>5 DEF old
      <4>2. x = disk'[cur].frames[i]
        BY <1>7, <3>3, <3>5, <4>1
      <4>3. QED
        BY <1>1, <2>1, <3>1, <4>1, <4>2
    <3>6. QED
      BY <3>4, <3>5
  <2>5. ASSUME NEW k \in 1 .. Least(m, Len(buf))
        PROVE  buf[k] \in SavedIn(disk')
    <3>1. k \in 1 .. Len(buf) /\ k \in 1 .. m /\ k <= Len(buf)
      BY <1>1 DEF Least
    <3>2. n + k \in 1 .. n + m /\ ~(n + k <= n) /\ (n + k) - n = k
      BY <1>1, <3>1
    <3>3. disk'[cur].frames[n + k] = buf[k] /\ n + k \in 1 .. Len(disk'[cur].frames)
      BY <1>6, <1>7, <3>1, <3>2
    <3>4. buf[k] # 0
      BY <3>1
    <3>5. QED
      BY <1>1, <2>1, <3>3, <3>4
  <2>6. QED
    BY <2>3, <2>4, <2>5
<1>9. QED
  BY <1>1, <1>5, <1>6, <1>7, <1>8, Zenon DEF n

\* Saved of this state and of the next
LEMMA SavedIsIn ==
  Saved = SavedIn(disk) /\ Saved' = SavedIn(disk')
BY DEF Saved, SavedIn

\* at the start no frame has come
LEMMA KeepStarts ==
  ASSUME Init
  PROVE  KeepInv
<1> SUFFICES ASSUME Capture
             PROVE  OrderInv /\ ZeroInv /\ BufInv /\ PlaceInv /\ LengthInv /\ WholeInv
  BY DEF KeepInv
<1>1. /\ pc = "open" /\ buf = <<>> /\ count = CaptureCount(limit)
      /\ file_limit \in (IF split THEN {0} ELSE FileLimits)
  BY Zenon DEF Init
<1>2. /\ disk = [k \in Names |-> NoFile]
      /\ now = 0 /\ lost = {} /\ cut = {}
  BY DEF Init
<1>3. \A k \in Names : disk[k].frames = <<>> /\ Len(disk[k].frames) = 0
  BY <1>2 DEF NoFile
<1>4. AplayTypeOK /\ Len(buf) = 0 /\ 1 .. 0 = {}
  BY <1>1, AplayStarts
<1>5. Saved = {}
  <2>1. disk \in [Names -> File]
    BY <1>4 DEF AplayTypeOK
  <2>2. \A x : x \notin SavedIn(disk)
    BY <1>3, <1>4, <2>1, SavedInIs
  <2>3. QED
    BY <2>2, SavedIsIn
<1>6. Held = {}
  BY <1>4, HeldIs
<1>7. OrderInv /\ ZeroInv
  BY <1>3 DEF OrderInv, ZeroInv
<1>8. BufInv
  BY <1>1, <1>4 DEF BufInv
<1>9. PlaceInv
  BY <1>2, <1>4, <1>5, <1>6 DEF PlaceInv, Placed
<1>10. LengthInv
  <2>1. Cardinality(Saved) = 0
    BY <1>5, FS_EmptySet
  <2>2. count \in Nat
    BY <1>4 DEF AplayTypeOK
  <2>3. count + 0 = count
    BY <2>2
  <2>4. QED
    BY <1>1, <2>1, <2>3 DEF LengthInv
<1>11. WholeInv
  <2>1. count \in Nat
    BY <1>4 DEF AplayTypeOK
  <2>2. WholeChunks /\ limit # 0 => Multiple(count)
    BY <1>1, <2>1, MultipleIs DEF WholeChunks
  <2>3. QED
    BY <1>1, <1>2, <2>2 DEF WholeInv
<1>12. QED
  BY <1>7, <1>8, <1>9, <1>10, <1>11

\* Everything but the files changes slowly: what the other invariants need of a
\* step that leaves the files alone.
LEMMA SameFiles ==
  ASSUME disk' = disk
  PROVE  Saved' = Saved /\ (OrderInv => OrderInv')
<1>1. Saved' = Saved
  BY SavedIsIn
<1>2. OrderInv => OrderInv'
  BY DEF OrderInv, Names
<1>3. QED
  BY <1>1, <1>2

\* the command line
LEMMA SameRequest ==
  ASSUME UNCHANGED <<limit, file_limit, split>>
  PROVE  /\ WholeChunks' = WholeChunks
         /\ CaptureCount(limit)' = CaptureCount(limit)
  BY DEF WholeChunks, CaptureCount, Unlimited

\* the device gives frames
LEMMA KeepOfRead ==
  ASSUME AplayTypeOK, AplayTypeOK', Capture, Capture', KeepInv, Read
  PROVE  KeepInv'
<1>1. /\ UNCHANGED <<limit, file_limit, split, disk, lost, cut, pc, count, rest, refused,
                  in_aborting>>
      /\ pc = "read"
  BY DEF Read, command, output
<1>2. PICK r \in 1 .. left : /\ now + r <= MaxFrames /\ now' = now + r /\ left' = left - r
                             /\ buf' = buf \o [k \in 1 .. r |-> now + k]
  BY DEF Read
<1>3. r \in Nat /\ now \in Nat /\ buf \in Seq(Nat) /\ Len(buf) \in Nat /\ r > 0
  <2>1. left \in Nat /\ now \in Nat /\ buf \in Seq(Nat)
    BY DEF AplayTypeOK
  <2>2. QED
    BY <2>1
<1> DEFINE new == [k \in 1 .. r |-> now + k]
           n == Len(buf)
<1>4. new \in Seq(Nat) /\ Len(new) = r /\ \A k \in 1 .. r : new[k] = now + k
  BY <1>3
<1>5. buf' = buf \o new
  BY <1>2
<1> HIDE DEF new
<1>6. /\ Len(buf') = n + r
      /\ \A k \in 1 .. n + r : buf'[k] = IF k <= n THEN buf[k] ELSE new[k - n]
  BY <1>3, <1>4, <1>5, ConcatProperties, Zenon
<1>7. n \in Nat /\ n = Len(buf)
  BY <1>3
<1> HIDE DEF n
<1>8. \A k \in 1 .. n + r : buf'[k] = IF k <= n THEN buf[k] ELSE now + (k - n)
  <2> TAKE k \in 1 .. n + r
  <2>1. ~(k <= n) => k - n \in 1 .. r
    BY <1>3, <1>7
  <2>2. QED
    BY <1>4, <1>6, <2>1
<1>9. /\ OrderInv /\ ZeroInv /\ BufInv /\ PlaceInv /\ LengthInv /\ WholeInv
  BY DEF KeepInv
<1>10. Saved' = Saved /\ OrderInv'
  BY <1>1, <1>9, SameFiles
<1>11. ZeroInv'
  BY <1>1, <1>9 DEF ZeroInv, Names
<1>12. BufInv'
  <2>1. \A k \in 1 .. n : buf[k] \in 1 .. now
    BY <1>7, <1>9 DEF BufInv
  <2>2. \A k \in 1 .. n + r : k <= n => k \in 1 .. n
    BY <1>3, <1>7
  <2>3. \A i, j \in 1 .. n + r : i < j => buf'[i] < buf'[j]
    <3> SUFFICES ASSUME NEW i \in 1 .. n + r, NEW j \in 1 .. n + r, i < j PROVE buf'[i] < buf'[j]
      OBVIOUS
    <3>1. CASE j <= n
      BY <1>3, <1>7, <1>8, <1>9, <2>2, <3>1 DEF BufInv
    <3>2. CASE ~(j <= n) /\ i <= n
      <4>1. buf'[i] = buf[i] /\ buf[i] \in 1 .. now /\ buf'[j] = now + (j - n)
        BY <1>8, <2>1, <2>2, <3>2
      <4>2. QED
        BY <1>3, <1>7, <3>2, <4>1
    <3>3. CASE ~(j <= n) /\ ~(i <= n)
      <4>1. buf'[i] = now + (i - n) /\ buf'[j] = now + (j - n)
        BY <1>8, <3>3
      <4>2. QED
        BY <1>3, <1>7, <3>3, <4>1
    <3>4. QED
      BY <3>1, <3>2, <3>3
  <2>4. ASSUME NEW i \in 1 .. n + r
        PROVE  buf'[i] \in 1 .. now' /\ \A g \in Saved : g < buf'[i]
    <3>1. CASE i <= n
      <4>1. buf'[i] = buf[i] /\ buf[i] \in 1 .. now
        BY <1>8, <2>1, <2>2, <3>1
      <4>2. QED
        BY <1>2, <1>3, <1>7, <1>9, <2>2, <3>1, <4>1 DEF BufInv
    <3>2. CASE ~(i <= n)
      <4>1. buf'[i] = now + (i - n)
        BY <1>8, <3>2
      <4>2. Saved \subseteq 1 .. now
        BY <1>9 DEF PlaceInv, Placed
      <4>3. QED
        BY <1>2, <1>3, <1>7, <3>2, <4>1, <4>2
    <3>3. QED
      BY <3>1, <3>2
  <2>5. QED
    BY <1>1, <1>6, <1>10, <2>3, <2>4 DEF BufInv
<1>13. Held' = Held \cup (now + 1 .. now + r)
  <2>1. Held = {buf[k] : k \in 1 .. n}
    BY <1>7, HeldIs
  <2>2. Held' = {buf'[k] : k \in 1 .. n + r}
    <3>1. buf' \in Seq(Nat) /\ DOMAIN buf' = 1 .. n + r
      BY <1>6 DEF AplayTypeOK
    <3>2. QED
      BY <3>1 DEF Held, Range
  <2>3. \A k \in 1 .. n : k \in 1 .. n + r /\ buf'[k] = buf[k]
    BY <1>3, <1>7, <1>8
  <2>4. \A x \in now + 1 .. now + r : x - now + n \in 1 .. n + r /\ buf'[x - now + n] = x
    <3> TAKE x \in now + 1 .. now + r
    <3>1. x - now + n \in 1 .. n + r /\ ~(x - now + n <= n) /\ now + ((x - now + n) - n) = x
      BY <1>3, <1>7
    <3>2. QED
      BY <1>8, <3>1
  <2>5. \A k \in 1 .. n + r : IF k <= n THEN k \in 1 .. n /\ buf'[k] = buf[k]
                                        ELSE buf'[k] \in now + 1 .. now + r
    BY <1>3, <1>7, <1>8
  <2>6. QED
    BY <2>1, <2>2, <2>3, <2>4, <2>5
<1>14. PlaceInv'
  BY <1>1, <1>2, <1>3, <1>9, <1>10, <1>13 DEF PlaceInv, Placed
<1>15. LengthInv' /\ WholeInv'
  BY <1>1, <1>9, <1>10, SameRequest DEF LengthInv, WholeInv, Multiple
<1>16. QED
  BY <1>10, <1>11, <1>12, <1>14, <1>15 DEF KeepInv

\* an overrun takes a frame
LEMMA KeepOfStop ==
  ASSUME AplayTypeOK, Capture, Capture', KeepInv, Stop
  PROVE  KeepInv'
<1>1. /\ UNCHANGED <<limit, file_limit, split, disk, cut, buf, count, rest, refused, in_aborting>>
      /\ pc = "read" /\ pc' \in {"read", "failed"}
  BY DEF Stop, Fail, command, output, AplayTypeOK, CaptureStages
<1>2. \/ now' = now + 1 /\ lost' = lost \cup {now + 1}
      \/ now' = now /\ lost' = lost
  BY DEF Stop
<1>3. now \in Nat
  BY DEF AplayTypeOK
<1>4. /\ OrderInv /\ ZeroInv /\ BufInv /\ PlaceInv /\ LengthInv /\ WholeInv
  BY DEF KeepInv
<1>5. Saved' = Saved /\ OrderInv' /\ Held' = Held
  BY <1>1, <1>4, SameFiles DEF Held
<1>6. ZeroInv'
  BY <1>1, <1>4 DEF ZeroInv, Names
<1>7. BufInv'
  BY <1>1, <1>2, <1>3, <1>4, <1>5 DEF BufInv
<1>8. PlaceInv'
  BY <1>1, <1>2, <1>3, <1>4, <1>5 DEF PlaceInv, Placed
<1>9. LengthInv' /\ WholeInv'
  BY <1>1, <1>4, <1>5, SameRequest DEF LengthInv, WholeInv, Multiple
<1>10. QED
  BY <1>5, <1>6, <1>7, <1>8, <1>9 DEF KeepInv

\* steps that move no frame
LEMMA KeepOfQuiet ==
  ASSUME AplayTypeOK, Capture, Capture', RecordInv, KeepInv,
         Loop \/ Abort \/ Recycle \/ Interrupted
  PROVE  KeepInv'
<1>1. /\ UNCHANGED <<limit, file_limit, split, disk, lost, cut, count, rest, refused, now>>
      /\ in_aborting => in_aborting'
  BY DEF Loop, Abort, Recycle, Interrupted, command, output, device
<1>2. \/ pc' = pc /\ buf' = buf
      \/ pc = "read" /\ pc' = "failed" /\ buf' = buf
      \/ /\ pc = "loop" /\ pc' = "read" /\ buf' = <<>> /\ rest > 0
         /\ ~in_aborting /\ ~in_aborting'
      \/ /\ pc = "loop" /\ pc' = "close" /\ buf' = buf
         /\ ~(rest > 0 /\ (split \/ ~recycle) /\ ~in_aborting) /\ (in_aborting' <=> in_aborting)
  BY DEF Loop, Abort, Recycle, Interrupted, Fail, AplayTypeOK, CaptureStages
<1>3. /\ OrderInv /\ ZeroInv /\ BufInv /\ PlaceInv /\ LengthInv /\ WholeInv
  BY DEF KeepInv
<1>4. buf' = buf
  BY <1>2, <1>3 DEF BufInv
<1>5. Saved' = Saved /\ OrderInv' /\ Held' = Held
  BY <1>1, <1>3, <1>4, SameFiles DEF Held
<1>6. ZeroInv'
  BY <1>1, <1>2, <1>3 DEF ZeroInv, Names
<1>7. BufInv'
  BY <1>1, <1>2, <1>3, <1>4, <1>5 DEF BufInv
<1>8. PlaceInv'
  BY <1>1, <1>3, <1>5 DEF PlaceInv
<1>9. LengthInv'
  <2>1. CaptureCount(limit)' = CaptureCount(limit)
    BY <1>1, SameRequest
  <2>2. rest \in Nat
    BY DEF AplayTypeOK
  <2>3. QED
    BY <1>1, <1>2, <1>3, <1>5, <2>1, <2>2 DEF LengthInv
<1>10. WholeInv'
  BY <1>1, <1>2, <1>3, SameRequest DEF WholeInv, Multiple
<1>11. QED
  BY <1>5, <1>6, <1>7, <1>8, <1>9, <1>10 DEF KeepInv

\* The header is written, the frames stay.
LEMMA KeepOfClose ==
  ASSUME AplayTypeOK, AplayTypeOK', Capture, Capture', KeepInv, Close
  PROVE  KeepInv'
<1>1. /\ UNCHANGED <<limit, file_limit, split, lost, cut, buf, count, rest, refused, now,
                  in_aborting>>
      /\ pc = "close" /\ pc' \in {"open", "done"}
      /\ disk' = disk \/ disk' = [disk EXCEPT ![cur].header = fdcount, ![cur].told = TRUE]
      /\ pc' = "open" => ~in_aborting
      /\ pc' = "done" => split \/ in_aborting \/ ~(count > 0)
  BY DEF Close, command, device
<1>2. /\ OrderInv /\ ZeroInv /\ BufInv /\ PlaceInv /\ LengthInv /\ WholeInv
  BY DEF KeepInv
<1>3. disk \in [Names -> File] /\ disk' \in [Names -> File]
  <2>1. Names' = Names
    BY DEF Names
  <2>2. QED
    BY <2>1 DEF AplayTypeOK
<1>4. \A k \in Names : disk'[k].frames = disk[k].frames
  BY <1>1, <1>3 DEF File
<1>5. Saved' = Saved
  <2>1. \A x : x \in SavedIn(disk) <=>
                x # 0 /\ \E k \in Names :
                            \E i \in 1 .. Len(disk[k].frames) : x = disk[k].frames[i]
    BY <1>3, SavedInIs
  <2>2. \A x : x \in SavedIn(disk') <=>
                x # 0 /\ \E k \in Names :
                            \E i \in 1 .. Len(disk'[k].frames) : x = disk'[k].frames[i]
    BY <1>3, SavedInIs
  <2>3. \A x : x \in SavedIn(disk) <=> x \in SavedIn(disk')
    BY <1>4, <2>1, <2>2
  <2>4. QED
    BY <2>3, SavedIsIn
<1>6. OrderInv' /\ ZeroInv'
  BY <1>1, <1>2, <1>4 DEF OrderInv, ZeroInv, Names
<1>7. Held' = Held
  BY <1>1 DEF Held
<1>8. BufInv' /\ PlaceInv'
  BY <1>1, <1>2, <1>5, <1>7 DEF BufInv, PlaceInv
<1>9. LengthInv'
  <2>1. CaptureCount(limit)' = CaptureCount(limit)
    BY <1>1, SameRequest
  <2>2. count \in Nat
    BY DEF AplayTypeOK
  <2>3. QED
    BY <1>1, <1>2, <1>5, <2>1, <2>2 DEF LengthInv
<1>10. WholeInv'
  BY <1>1, <1>2, SameRequest DEF WholeInv, Multiple
<1>11. QED
  BY <1>6, <1>8, <1>9, <1>10 DEF KeepInv

\* a next file: the first is renamed and no frame is overwritten
LEMMA KeepOfOpen ==
  ASSUME AplayTypeOK, AplayTypeOK', Capture, Capture', RecordInv,
         KeepInv, Open
  PROVE  KeepInv'
<1>1. /\ UNCHANGED <<limit, file_limit, split, lost, cut, buf, count, refused, now, in_aborting>>
      /\ pc = "open"
  BY DEF Open, command, device
<1> DEFINE most == IF file_limit > 0 THEN Least(count, file_limit) ELSE count
<1>2. (pc' = "loop" /\ rest' = most) \/ pc' = "failed"
  BY OpenWrites
<1>3. FilesInv /\ OrderInv /\ ZeroInv /\ BufInv /\ PlaceInv /\ LengthInv /\ WholeInv
  BY DEF KeepInv, RecordInv
<1>4. disk \in [Names -> File] /\ disk' \in [Names -> File]
  <2>1. Names' = Names
    BY DEF Names
  <2>2. QED
    BY <2>1 DEF AplayTypeOK
<1>5. NoFile.frames = <<>> /\ Len(<<>>) = 0 /\ 1 .. 0 = {}
  BY NoFileIs
<1>6. /\ Number \in Names /\ disk'[Number].frames = <<>>
      /\ \/ /\ disk[Number] = NoFile
            /\ \A k \in Names : k # Number => disk'[k] = disk[k]
         \/ /\ cur = 0 /\ Number = 2 /\ 0 \in Names /\ 1 \in Names
            /\ \A k \in Names : k # 0 => disk[k] = NoFile
            /\ \A k \in Names : k # 2 => disk'[k] = IF k = 1 THEN disk[0] ELSE NoFile
  BY <1>3, OpenKeeps, OpenWrites
<1>7. ASSUME cur = 0, Number = 2, 0 \in Names, 1 \in Names,
             \A k \in Names : k # 0 => disk[k] = NoFile,
             \A k \in Names : k # 2 => disk'[k] = IF k = 1 THEN disk[0] ELSE NoFile
      PROVE  Saved' = Saved /\ OrderInv' /\ ZeroInv'
  <2>1. \A k \in Names : k # 0 => disk[k].frames = <<>>
    BY <1>5, <1>7
  <2>2. \A k \in Names : disk'[k].frames = IF k = 1 THEN disk[0].frames ELSE <<>>
    BY <1>5, <1>6, <1>7
  <2>5. Saved' = Saved
    <3>1. \A x : x \in SavedIn(disk) <=>
                x # 0 /\ \E k \in Names :
                            \E i \in 1 .. Len(disk[k].frames) : x = disk[k].frames[i]
      BY <1>4, SavedInIs
    <3>2. \A x : x \in SavedIn(disk') <=>
                x # 0 /\ \E k \in Names :
                            \E i \in 1 .. Len(disk'[k].frames) : x = disk'[k].frames[i]
      BY <1>4, SavedInIs
    <3>3. \A x : x \in SavedIn(disk) <=>
                 x # 0 /\ \E i \in 1 .. Len(disk[0].frames) : x = disk[0].frames[i]
      BY <1>5, <1>7, <2>1, <3>1
    <3>4. \A x : x \in SavedIn(disk') <=>
                 x # 0 /\ \E i \in 1 .. Len(disk[0].frames) : x = disk[0].frames[i]
      BY <1>5, <1>7, <2>2, <3>2
    <3>5. \A x : x \in SavedIn(disk) <=> x \in SavedIn(disk')
      BY <3>3, <3>4
    <3>6. QED
      BY <3>5, SavedIsIn
  <2>6. OrderInv'
    <3>1. \A k \in Names : \A i \in 1 .. Len(disk'[k].frames) :
             k = 1 /\ disk'[k].frames = disk[0].frames
      BY <1>5, <2>2
    <3>2. \A i, j \in 1 .. Len(disk[0].frames) : i < j =>
              \/ disk[0].frames[j] = 0
              \/ 0 < disk[0].frames[i] /\ disk[0].frames[i] < disk[0].frames[j]
      BY <1>3, <1>7 DEF OrderInv
    <3>3. QED
      BY <3>1, <3>2 DEF OrderInv, Names
  <2>7. ZeroInv'
    <3>1. \A i \in 1 .. Len(disk[0].frames) : disk[0].frames[i] # 0
      BY <1>1, <1>3, <1>7 DEF ZeroInv
    <3>2. QED
      BY <1>5, <2>2, <3>1 DEF ZeroInv, Names
  <2>8. QED
    BY <2>5, <2>6, <2>7
<1>8. ASSUME disk[Number] = NoFile, \A k \in Names : k # Number => disk'[k] = disk[k]
      PROVE  Saved' = Saved /\ OrderInv' /\ ZeroInv'
  <2>4. \A k \in Names : disk'[k].frames = disk[k].frames
    BY <1>5, <1>6, <1>8
  <2>5. Saved' = Saved
    <3>1. \A x : x \in SavedIn(disk) <=>
                x # 0 /\ \E k \in Names :
                            \E i \in 1 .. Len(disk[k].frames) : x = disk[k].frames[i]
      BY <1>4, SavedInIs
    <3>2. \A x : x \in SavedIn(disk') <=>
                x # 0 /\ \E k \in Names :
                            \E i \in 1 .. Len(disk'[k].frames) : x = disk'[k].frames[i]
      BY <1>4, SavedInIs
    <3>3. \A x : x \in SavedIn(disk) <=> x \in SavedIn(disk')
      BY <2>4, <3>1, <3>2
    <3>4. QED
      BY <3>3, SavedIsIn
  <2>6. OrderInv' /\ ZeroInv'
    BY <1>1, <1>3, <2>4 DEF OrderInv, ZeroInv, Names
  <2>7. QED
    BY <2>5, <2>6
<1>9. Saved' = Saved /\ OrderInv' /\ ZeroInv'
  BY <1>6, <1>7, <1>8
<1>10. Held' = Held
  BY <1>1 DEF Held
<1>11. BufInv' /\ PlaceInv'
  BY <1>1, <1>2, <1>3, <1>9, <1>10 DEF BufInv, PlaceInv
<1>12. count \in Nat /\ file_limit \in Nat
  BY DEF AplayTypeOK
<1>13. LengthInv'
  <2>1. CaptureCount(limit)' = CaptureCount(limit)
    BY <1>1, SameRequest
  <2>2. split => rest' = count \/ pc' = "failed"
    BY <1>2, <1>3 DEF LengthInv
  <2>3. QED
    BY <1>1, <1>2, <1>3, <1>9, <2>1, <2>2 DEF LengthInv
<1>14. WholeInv'
  <2>1. WholeChunks => Multiple(file_limit)
    BY <1>12, MultipleIs DEF WholeChunks
  <2>2. most = count \/ most = file_limit
    BY DEF Least
  <2> HIDE DEF most
  <2>3. WholeChunks => Multiple(rest') \/ (limit = 0 /\ rest' = count) \/ pc' = "failed"
    BY <1>1, <1>2, <1>3, <2>1, <2>2 DEF WholeInv
  <2>4. QED
    BY <1>1, <1>2, <1>3, <2>3, SameRequest DEF WholeInv, Multiple
<1>15. QED
  BY <1>9, <1>11, <1>13, <1>14 DEF KeepInv

\* The frames of the buffer go to the file or are cut off.
LEMMA PlacedOfSave ==
  ASSUME NEW S, NEW L, NEW C, NEW X, NEW Y, NEW n, Placed(S, L, C, X \cup Y, n), X \cap Y = {}
  PROVE  Placed(S \cup X, L, C \cup Y, {}, n)
BY DEF Placed

\* A chunk of whole chunks is a whole one.
LEMMA ChunkIsWhole ==
  ASSUME AplayTypeOK, Capture, PlaceInv, LengthInv, WholeInv, WholeChunks,
         pc = "read"
  PROVE  /\ Least(rest, Chunk) = Chunk
         /\ Multiple(rest - Chunk) \/ (limit = 0 /\ rest = count)
         /\ limit # 0 => count >= Chunk /\ Multiple(count - Chunk)
<1>1. /\ rest \in Nat /\ count \in Nat /\ rest > 0 /\ rest <= count
      /\ now \in Nat /\ now <= MaxFrames
      /\ Chunk \in Nat /\ MaxFrames \in Nat /\ Chunk > 0
  <2>1. rest \in Nat /\ count \in Nat /\ rest <= count
      /\ now \in Nat /\ now <= MaxFrames
    BY DEF AplayTypeOK
  <2>2. Chunk \in Nat /\ MaxFrames \in Nat /\ Chunk > 0
    BY Sizes
  <2>3. QED
    BY <2>1, <2>2 DEF LengthInv
<1>2. Multiple(rest) \/ (limit = 0 /\ rest = count)
  BY DEF WholeInv
<1>3. limit # 0 => count >= Chunk /\ Multiple(count - Chunk)
  BY <1>1, MultipleLess DEF WholeInv
<1>4. CASE Multiple(rest)
  <2>1. rest >= Chunk /\ Multiple(rest - Chunk)
    BY <1>1, <1>4, MultipleLess
  <2>2. QED
    BY <1>1, <1>3, <2>1 DEF Least
<1>5. CASE limit = 0 /\ rest = count
  <2>1. Cardinality(Saved) \in Nat /\ Cardinality(Saved) <= now
    BY SavedBound
  <2>2. count + Cardinality(Saved) = MaxFrames + Chunk
    BY <1>5 DEF LengthInv, CaptureCount, Unlimited
  <2>3. rest >= Chunk
    BY <1>1, <1>5, <2>1, <2>2
  <2>4. QED
    BY <1>1, <1>3, <1>5, <2>3 DEF Least
<1>6. QED
  BY <1>2, <1>4, <1>5

\* a chunk, or what there is of it, is saved
LEMMA KeepOfSave ==
  ASSUME AplayTypeOK, AplayTypeOK', Capture, Capture', RecordInv,
         KeepInv, Save
  PROVE  KeepInv'
<1>1. /\ UNCHANGED <<limit, file_limit, split, lost, now, cur>>
      /\ pc = "read" /\ buf' = <<>>
  BY DEF Save, command, device
<1>2. FilesInv /\ RefusedInv /\ OrderInv /\ ZeroInv /\ BufInv /\ PlaceInv /\ LengthInv /\ WholeInv
  BY DEF KeepInv, RecordInv
<1> DEFINE c == Least(rest, Chunk)
<1>3. PICK m \in Nat :
         /\ m <= c /\ (m > Len(buf) => split /\ in_aborting)
         /\ SavedOf(m) \in Seq(Nat) /\ Len(SavedOf(m)) = m
         /\ disk' = [disk EXCEPT ![cur].frames = @ \o SavedOf(m)]
         /\ cut' = cut \cup {buf[k] : k \in m + 1 .. Len(buf)}
         /\ \/ /\ m = IF split THEN c ELSE Least(Len(buf), c)
               /\ in_aborting' = (in_aborting \/ m # c)
               /\ count' = count - c /\ rest' = rest - c
               /\ fdcount' = fdcount + m /\ pc' = "loop" /\ refused' = refused
            \/ /\ refused' /\ UNCHANGED <<count, rest, fdcount>>
               /\ IF split THEN pc' = "failed" /\ UNCHANGED in_aborting
                           ELSE pc' = "close" /\ in_aborting'
  BY SaveFacts, Zenon
<1>4. /\ buf \in Seq(Nat) /\ Len(buf) \in Nat /\ now \in Nat /\ rest \in Nat /\ count \in Nat
      /\ rest <= count /\ c \in Nat /\ c <= rest
  <2>1. /\ buf \in Seq(Nat) /\ now \in Nat /\ rest \in Nat /\ count \in Nat /\ rest <= count
    BY <1>1 DEF AplayTypeOK
  <2>2. QED
    BY <2>1, Sizes DEF Least
<1> DEFINE b == Len(buf)
           u == Least(m, Len(buf))
           X == {buf[k] : k \in 1 .. u}
           Y == {buf[k] : k \in m + 1 .. Len(buf)}
           n == Len(disk[cur].frames)
<1>5. u \in 0 .. b /\ u <= m /\ (u = m \/ (u = b /\ m > b)) /\ b \in Nat /\ b = Len(buf)
  BY <1>4 DEF Least
<1>6. \A i \in 1 .. b : buf[i] \in Nat /\ buf[i] # 0 /\ buf[i] \in 1 .. now
  BY <1>2, <1>4 DEF BufInv
<1>7. /\ n \in Nat /\ disk' \in [Names -> File]
      /\ \A k \in Names : k # cur => disk'[k] = disk[k]
      /\ Len(disk'[cur].frames) = n + m
      /\ \A i \in 1 .. n + m :
            disk'[cur].frames[i] = IF i <= n THEN disk[cur].frames[i]
                                   ELSE IF i - n <= b THEN buf[i - n] ELSE 0
      /\ SavedIn(disk') = SavedIn(disk) \cup X
  BY <1>3, <1>6, SaveAdds
<1>8. Saved' = Saved \cup X /\ cut' = cut \cup Y
  BY <1>3, <1>7, SavedIsIn
<1>9. Held' = {}
  <2>1. DOMAIN <<>> = {}
    OBVIOUS
  <2>2. QED
    BY <1>1, <2>1 DEF Held, Range
<1>10. Held = X \cup Y /\ X \cap Y = {}
  <2>1. Held = {buf[k] : k \in 1 .. b}
    BY HeldIs
  <2>2. \A k \in 1 .. b : k \in 1 .. u \/ k \in m + 1 .. b
    BY <1>4, <1>5
  <2>3. \A k \in 1 .. u : k \in 1 .. b
    BY <1>4, <1>5
  <2>4. \A k \in m + 1 .. b : k \in 1 .. b
    BY <1>4, <1>5
  <2>5. X \cup Y = {buf[k] : k \in 1 .. b}
    <3> HIDE DEF u, b
    <3>1. QED
      BY <1>5, <2>2, <2>3, <2>4
  <2>6. \A i \in 1 .. u, j \in m + 1 .. b : buf[i] # buf[j]
    <3> SUFFICES ASSUME NEW i \in 1 .. u, NEW j \in m + 1 .. b PROVE buf[i] # buf[j]
      OBVIOUS
    <3>1. i < j /\ i \in 1 .. b /\ j \in 1 .. b
      BY <1>5
    <3>2. buf[i] < buf[j] /\ buf[i] \in Nat /\ buf[j] \in Nat
      BY <1>2, <1>6, <3>1 DEF BufInv
    <3>3. QED
      BY <3>2
  <2>7. X \cap Y = {}
    <3> HIDE DEF u, b
    <3>1. QED
      BY <1>5, <2>6
  <2>8. QED
    BY <2>1, <2>5, <2>7
<1> HIDE DEF c, b, u, X, Y, n
<1>11. PlaceInv'
  <2>1. Placed(Saved, lost, cut, X \cup Y, now)
    BY <1>2, <1>10 DEF PlaceInv
  <2>2. Placed(Saved \cup X, lost, cut \cup Y, {}, now)
    BY <1>10, <2>1, PlacedOfSave
  <2>3. QED
    BY <1>1, <1>8, <1>9, <2>2 DEF PlaceInv
<1>12. BufInv'
  <2>1. Len(<<>>) = 0 /\ 1 .. 0 = {}
    OBVIOUS
  <2>2. QED
    BY <1>1, <2>1 DEF BufInv
<1>13. cur \in Names /\ cur \in Nat /\ disk \in [Names -> File]
       /\ \A k \in Names : k \in Nat
  BY DEF AplayTypeOK, Names
<1>14. \A k \in Names : \A i \in 1 .. Len(disk[k].frames) :
          disk[k].frames[i] \in Nat /\ disk[k].frames[i] # 0 /\ disk[k].frames[i] \in Saved
  <2> TAKE k \in Names
  <2> TAKE i \in 1 .. Len(disk[k].frames)
  <2>1. disk[k].frames \in Seq(Nat)
    BY <1>13 DEF File
  <2>2. disk[k].frames[i] \in Nat
    BY <2>1
  <2>3. disk[k].frames[i] # 0
    BY <1>1, <1>2 DEF ZeroInv
  <2>4. disk[k].frames[i] \in SavedIn(disk)
    BY <1>13, <2>3, SavedInIs
  <2>5. QED
    BY <2>2, <2>3, <2>4, SavedIsIn
<1>15. OrderInv'
  <2> SUFFICES ASSUME NEW k \in Names, NEW l \in Names,
                      NEW i \in 1 .. Len(disk'[k].frames), NEW j \in 1 .. Len(disk'[l].frames),
                      k < l \/ (k = l /\ i < j)
               PROVE  \/ disk'[l].frames[j] = 0
                      \/ 0 < disk'[k].frames[i] /\ disk'[k].frames[i] < disk'[l].frames[j]
    BY DEF OrderInv, Names
  <2>1. CASE k # cur /\ l # cur
    BY <1>2, <1>7, <2>1 DEF OrderInv
  <2>2. CASE k = cur /\ l # cur
    <3>1. l > cur
      BY <1>13, <2>2
    <3>2. disk[l].frames = <<>> /\ disk'[l] = disk[l]
      BY <1>2, <1>7, <2>2, <3>1 DEF FilesInv, NoFile
    <3>3. Len(<<>>) = 0 /\ 1 .. 0 = {}
      OBVIOUS
    <3>4. QED
      BY <3>2, <3>3
  <2>3. CASE l = cur
    <3>1. j \in 1 .. n + m /\ n \in Nat
      BY <1>7, <2>3
    <3>2. CASE j <= n
      <4>1. j \in 1 .. n /\ disk'[l].frames[j] = disk[l].frames[j] /\ n = Len(disk[l].frames)
        BY <1>7, <2>3, <3>1, <3>2 DEF n
      <4>2. i \in 1 .. Len(disk[k].frames) /\ disk'[k].frames[i] = disk[k].frames[i]
        <5>1. CASE k # cur
          BY <1>7, <5>1
        <5>2. CASE k = cur
          <6>1. i < j /\ i \in 1 .. n + m /\ k = l
            BY <1>7, <1>13, <2>3, <5>2
          <6>2. i <= n /\ i \in 1 .. n
            BY <3>1, <3>2, <6>1
          <6>3. QED
            BY <1>7, <4>1, <5>2, <6>1, <6>2
        <5>3. QED
          BY <5>1, <5>2
      <4>3. QED
        BY <1>2, <4>1, <4>2 DEF OrderInv
    <3>3. CASE ~(j <= n) /\ ~(j - n <= b)
      BY <1>7, <2>3, <3>1, <3>3
    <3>4. CASE ~(j <= n) /\ j - n <= b
      <4>1. disk'[l].frames[j] = buf[j - n]
        BY <1>7, <2>3, <3>1, <3>4
      <4>2. j - n \in 1 .. b
        BY <1>5, <3>1, <3>4
      <4>3. CASE k # cur \/ i <= n
        <5>1. i \in 1 .. Len(disk[k].frames) /\ disk'[k].frames[i] = disk[k].frames[i]
          <6>1. CASE k # cur
            BY <1>7, <6>1
          <6>2. CASE k = cur /\ i <= n
            <7>1. i \in 1 .. n + m /\ i \in 1 .. n
              BY <1>7, <3>1, <6>2
            <7>2. QED
              BY <1>7, <6>2, <7>1 DEF n
          <6>3. QED
            BY <4>3, <6>1, <6>2
        <5>2. disk[k].frames[i] \in Saved /\ disk[k].frames[i] \in Nat /\ disk[k].frames[i] # 0
          BY <1>14, <5>1
        <5>3. disk[k].frames[i] < buf[j - n]
          BY <1>2, <1>5, <4>2, <5>2 DEF BufInv
        <5>4. 0 < disk[k].frames[i]
          BY <5>2
        <5>5. QED
          BY <4>1, <5>1, <5>3, <5>4
      <4>4. CASE k = cur /\ ~(i <= n)
        <5>1. i \in 1 .. n + m /\ i < j
          BY <1>7, <1>13, <2>3, <4>4
        <5>2. i - n \in 1 .. b /\ i - n <= b /\ i - n < j - n
          BY <1>5, <3>1, <3>4, <4>4, <5>1
        <5>3. disk'[k].frames[i] = buf[i - n]
          BY <1>7, <4>4, <5>1, <5>2
        <5>4. buf[i - n] < buf[j - n] /\ buf[i - n] \in 1 .. now
          BY <1>2, <1>5, <1>6, <4>2, <5>2 DEF BufInv
        <5>5. 0 < buf[i - n]
          BY <5>4
        <5>6. QED
          BY <4>1, <5>3, <5>4, <5>5
      <4>5. QED
        BY <4>3, <4>4
    <3>5. QED
      BY <3>2, <3>3, <3>4
  <2>4. QED
    BY <2>1, <2>2, <2>3
<1>16. ZeroInv'
  <2> SUFFICES ASSUME NEW k \in Names, NEW i \in 1 .. Len(disk'[k].frames), disk'[k].frames[i] = 0
               PROVE  split' /\ in_aborting' /\ pc' \in {"loop", "close", "done", "failed"}
    BY DEF ZeroInv, Names
  <2>1. k = cur
    BY <1>7, <1>14
  <2>2. i \in 1 .. n + m
    BY <1>7, <2>1
  <2>3. ~(i <= n)
    <3>1. i <= n => i \in 1 .. n /\ disk'[k].frames[i] = disk[cur].frames[i]
      BY <1>7, <2>1, <2>2
    <3>2. QED
      BY <1>13, <1>14, <3>1 DEF n
  <2>4. i - n \notin 1 .. b
    <3>1. i - n \in 1 .. b => disk'[k].frames[i] = buf[i - n]
      BY <1>5, <1>7, <2>1, <2>2, <2>3
    <3>2. QED
      BY <1>6, <3>1
  <2>5. m > b
    BY <1>5, <1>7, <2>2, <2>3, <2>4
  <2>6. split /\ in_aborting
    BY <1>3, <1>5, <2>5
  <2>7. in_aborting' /\ pc' \in {"loop", "close", "failed"}
    BY <1>3, <2>6
  <2>8. QED
    BY <1>1, <2>6, <2>7
<1>17. LengthInv'
  <2>1. CaptureCount(limit)' = CaptureCount(limit)
    BY <1>1, SameRequest
  <2>2. CASE refused' /\ UNCHANGED <<count, rest, fdcount>>
             /\ IF split THEN pc' = "failed" /\ UNCHANGED in_aborting
                         ELSE pc' = "close" /\ in_aborting'
    BY <1>1, <1>2, <2>2 DEF LengthInv
  <2>3. CASE /\ m = IF split THEN c ELSE Least(Len(buf), c)
             /\ in_aborting' = (in_aborting \/ m # c)
             /\ count' = count - c /\ rest' = rest - c
             /\ fdcount' = fdcount + m /\ pc' = "loop" /\ refused' = refused
    <3>1. ~in_aborting' => count' + Cardinality(Saved') = CaptureCount(limit)
      <4> SUFFICES ASSUME ~in_aborting' PROVE count' + Cardinality(Saved') = CaptureCount(limit)
        OBVIOUS
      <4>1. ~in_aborting /\ m = c
        BY <2>3
      <4>2. m <= b /\ u = m
        BY <1>3, <1>4, <1>5, <4>1
      <4>3. IsFiniteSet(X) /\ Cardinality(X) = u
        BY <1>2, <1>5, BufCount DEF X
      <4>4. IsFiniteSet(Saved) /\ Cardinality(Saved) \in Nat
        BY <1>2, SavedBound
      <4>5. Saved \cap X = {}
        BY <1>2, <1>10 DEF PlaceInv, Placed
      <4>6. Cardinality(Saved \cap X) = 0
        BY <4>5, FS_EmptySet
      <4>7. Cardinality(Saved \cup X) = Cardinality(Saved) + Cardinality(X) - 0
        BY <4>3, <4>4, <4>6, FS_Union
      <4>8. Cardinality(Saved') = Cardinality(Saved) + c
        BY <1>4, <1>8, <4>1, <4>2, <4>3, <4>4, <4>7
      <4>9. count + Cardinality(Saved) = CaptureCount(limit)
        BY <1>1, <1>2 DEF LengthInv
      <4>10. QED
        BY <1>4, <2>3, <4>4, <4>8, <4>9
    <3>2. split => rest = count
      BY <1>1, <1>2 DEF LengthInv
    <3>3. QED
      BY <1>1, <1>2, <2>1, <2>3, <3>1, <3>2 DEF LengthInv
  <2>4. QED
    BY <1>3, <2>2, <2>3
<1>18. WholeInv'
  <2>1. WholeChunks' = WholeChunks
    BY <1>1, SameRequest
  <2> SUFFICES ASSUME WholeChunks
               PROVE  /\ cut' = {} \/ refused'
                      /\ limit # 0 => Multiple(count')
                      /\ Multiple(rest') \/ (limit = 0 /\ rest' = count')
    BY <1>1, <2>1 DEF WholeInv, Multiple
  <2>2. /\ c = Chunk /\ (Multiple(rest - Chunk) \/ (limit = 0 /\ rest = count))
        /\ limit # 0 => count >= Chunk /\ Multiple(count - Chunk)
    BY <1>1, <1>2, ChunkIsWhole DEF c
  <2>3. CASE refused' /\ UNCHANGED <<count, rest, fdcount>>
    BY <1>1, <1>2, <2>3 DEF WholeInv
  <2>4. CASE /\ m = IF split THEN c ELSE Least(Len(buf), c)
             /\ count' = count - c /\ rest' = rest - c
             /\ pc' = "loop" /\ refused' = refused
    <3>1. b <= Chunk
      <4>1. left \in Nat /\ b + left = Chunk /\ Chunk \in Nat
        BY <1>1, Sizes DEF AplayTypeOK, b
      <4>2. QED
        BY <1>5, <4>1
    <3>2. m + 1 .. Len(buf) = {}
      <4>1. m >= b
        BY <1>5, <2>2, <2>4, <3>1 DEF Least
      <4>2. QED
        BY <1>5, <4>1
    <3>3. cut' = cut
      BY <1>3, <3>2
    <3>4. cut = {}
      BY <1>1, <1>2 DEF WholeInv, RefusedInv
    <3>5. QED
      BY <1>4, <2>2, <2>4, <3>3, <3>4
  <2>5. QED
    BY <1>3, <2>3, <2>4
<1>19. QED
  BY <1>11, <1>12, <1>15, <1>16, <1>17, <1>18 DEF KeepInv

\* every step
LEMMA KeepKept ==
  ASSUME AplayTypeOK, AplayTypeOK', RecordInv, KeepInv, Next
  PROVE  KeepInv'
<1>1. Capture' = Capture
  <2>1. UNCHANGED mode
    BY DEF Next, Stop, Read, Write, Open, Loop, Save, Close, Preload, Fill,
           Written, Drain, Abort, Recycle, Interrupted, command
  <2>2. QED
    BY <2>1 DEF Capture
<1>2. CASE ~Capture
  BY <1>1, <1>2 DEF KeepInv
<1>3. CASE Capture
  <2>1. pc \in CaptureStages
    BY <1>3 DEF AplayTypeOK
  <2>2. ~(Write \/ Preload \/ Fill \/ Written \/ Drain)
    BY <2>1 DEF CaptureStages, Write, Preload, Fill, Written, Drain
  <2>3. CASE Stop
    BY <1>1, <1>3, <2>3, KeepOfStop
  <2>4. CASE Read
    BY <1>1, <1>3, <2>4, KeepOfRead
  <2>5. CASE Open
    BY <1>1, <1>3, <2>5, KeepOfOpen
  <2>6. CASE Save
    BY <1>1, <1>3, <2>6, KeepOfSave
  <2>7. CASE Close
    BY <1>1, <1>3, <2>7, KeepOfClose
  <2>8. CASE Loop \/ Abort \/ Recycle \/ Interrupted
    BY <1>1, <1>3, <2>8, KeepOfQuiet
  <2>9. QED
    BY <2>2, <2>3, <2>4, <2>5, <2>6, <2>7, <2>8 DEF Next
<1>4. QED
  BY <1>2, <1>3

\* a step of others
LEMMA KeepStutters ==
  ASSUME KeepInv, UNCHANGED vars
  PROVE  KeepInv'
<1>1. UNCHANGED <<mode, split, limit, file_limit, in_aborting, pc, count, rest, buf, disk, now,
                  lost, cut, refused>>
  BY DEF vars, command, output, device
<1>2. Capture' = Capture /\ Saved' = Saved /\ Held' = Held
  BY <1>1, SavedIsIn DEF Capture, Held
<1>3. OrderInv' = OrderInv /\ ZeroInv' = ZeroInv
  BY <1>1 DEF OrderInv, ZeroInv, Names
<1>4. (BufInv => BufInv') /\ (PlaceInv => PlaceInv')
  BY <1>1, <1>2 DEF BufInv, PlaceInv
<1>5. (LengthInv => LengthInv') /\ (WholeInv => WholeInv')
  BY <1>1, <1>2, SameRequest DEF LengthInv, WholeInv, Multiple
<1>6. QED
  BY <1>2, <1>3, <1>4, <1>5 DEF KeepInv

\* what the invariant says of the files
LEMMA KeptFrames ==
  ASSUME AplayTypeOK, KeepInv
  PROVE  FramesAreKept
<1> SUFFICES ASSUME Capture PROVE FramesAreKept
  BY DEF FramesAreKept
<1>1. OrderInv /\ ZeroInv /\ BufInv /\ PlaceInv /\ LengthInv /\ WholeInv
  BY DEF KeepInv
<1>2. \A k \in Names : DOMAIN disk[k].frames = 1 .. Len(disk[k].frames)
  <2> TAKE k \in Names
  <2>1. disk[k].frames \in Seq(Nat)
    BY DEF AplayTypeOK, File
  <2>2. QED
    BY <2>1
<1>3. \A k, l \in Names : \A i \in DOMAIN disk[k].frames, j \in DOMAIN disk[l].frames :
         k < l \/ (k = l /\ i < j) =>
            \/ disk[l].frames[j] = 0
            \/ 0 < disk[k].frames[i] /\ disk[k].frames[i] < disk[l].frames[j]
  BY <1>1, <1>2 DEF OrderInv
<1>4. \A k \in Names : 0 \in Range(disk[k].frames) => split /\ in_aborting
  BY <1>1, <1>2 DEF ZeroInv, Range
<1>5. /\ Saved \cup lost \cup cut \cup Held = 1 .. now
      /\ Saved \cap (lost \cup cut \cup Held) = {}
      /\ lost \cap (cut \cup Held) = {} /\ cut \cap Held = {}
  BY <1>1 DEF PlaceInv, Placed
<1>6. cut = {} \/ refused \/ ~WholeChunks
  BY <1>1 DEF WholeInv
<1>7. pc = "done" /\ ~in_aborting => Cardinality(Saved) = CaptureCount(limit)
  <2>1. Cardinality(Saved) \in Nat /\ 0 + Cardinality(Saved) = Cardinality(Saved)
    BY <1>1, SavedBound
  <2>2. Cardinality(Saved) = Cardinality(Saved)
    BY DEF Cardinality, Cardinality
  <2>3. QED
    BY <1>1, <2>1, <2>2 DEF LengthInv
<1>8. QED
  BY <1>3, <1>4, <1>5, <1>6, <1>7, Zenon DEF FramesAreKept

\* The files in the order of their numbers hold the frames in the order of the device,
\* each once; a frame in no file was lost in an overrun, or cut off where the code may; a
\* recording that no signal ended has the length asked for (capture, new_capture_file).
THEOREM NoFrameIsMislaid == Spec => []FramesAreKept
<1>1. Init => AplayTypeOK /\ RecordInv /\ KeepInv
  BY AplayStarts, RecordStarts, KeepStarts
<1>2. AplayTypeOK /\ RecordInv /\ KeepInv /\ [Next]_vars
         => (AplayTypeOK /\ RecordInv /\ KeepInv)'
  BY AplayTyped, RecordKept, KeepKept, AplayStutters, KeepStutters
<1>3. AplayTypeOK /\ RecordInv /\ KeepInv => FramesAreKept
  BY KeptFrames
<1>4. QED
  BY <1>1, <1>2, <1>3, PTL DEF Spec

\* the frames of the file in the chunk that is written, and what was played before it
OfFile == IF loaded > Chunk THEN Chunk ELSE rest
Base == Len(played) - (Chunk - left)

Heard(h) == /\ \A i \in 1 .. Len(played) : played[i] = IF i <= h THEN i ELSE 0
            /\ h <= source /\ Len(played) - h <= Chunk

WriteInv ==
    pc = "write" =>
      /\ Base \in Nat /\ OfFile \in 0 .. Chunk /\ Base + OfFile <= source
      /\ \A k \in 1 .. Chunk : buf[k] = IF k <= OfFile THEN Base + k ELSE 0
      /\ \A i \in 1 .. Len(played) : played[i] = IF i <= Base + OfFile THEN i ELSE 0
      /\ Chunk <= Len(buf)
      /\ loaded > Chunk => /\ \A k \in 1 .. loaded : buf[k] = Base + k
                           /\ pos = Base + loaded
      /\ loaded <= Chunk => loaded = 0 /\ (rest = Chunk => pos = Base + Chunk)

FillInv ==
    pc \in {"preload", "fill"} /\ ~in_aborting /\ count > 0 =>
      /\ \A i \in 1 .. Len(played) : played[i] = i
      /\ pos = Len(played) + loaded
      /\ \A k \in 1 .. loaded : buf[k] = Len(played) + k
      /\ pc = "fill" => loaded <= Chunk

PlayInv == ~Capture => /\ played \in Seq(Nat)
                       /\ \E h \in 0 .. Len(played) : Heard(h)
                       /\ WriteInv /\ FillInv

\* at the start nothing was played
LEMMA PlayStarts ==
  ASSUME Init
  PROVE  PlayInv
<1> SUFFICES ASSUME ~Capture PROVE PlayInv
  BY DEF PlayInv
<1>1. /\ source \in Lengths /\ pc = "preload" /\ played = <<>>
      /\ loaded \in (IF split THEN {0} ELSE 0 .. source) /\ pos = loaded
      /\ buf = [k \in 1 .. loaded |-> k]
  BY Zenon DEF Init
<1>2. source \in Nat /\ loaded \in Nat /\ Chunk \in Nat
  BY <1>1, Sizes
<1>3. Len(<<>>) = 0 /\ 1 .. 0 = {} /\ <<>> \in Seq(Nat) /\ 0 \in 0 .. 0
  OBVIOUS
<1>4. Heard(0)
  BY <1>1, <1>2, <1>3 DEF Heard
<1>5. WriteInv /\ FillInv
  BY <1>1, <1>2, <1>3 DEF WriteInv, FillInv
<1>6. QED
  BY <1>1, <1>3, <1>4, <1>5 DEF PlayInv

\* the device takes frames of the chunk
LEMMA PlayOfWrite ==
  ASSUME AplayTypeOK, ~Capture, ~Capture', PlayInv, Write
  PROVE  PlayInv'
<1>1. /\ UNCHANGED <<in_aborting, count, rest, buf, loaded, pos, source, pc>>
      /\ pc = "write"
  BY DEF Write, input
<1>2. PICK r \in 1 .. left :
         /\ played' = played \o SubSeq(buf, Chunk - left + 1, Chunk - left + r)
         /\ left' = left - r
  BY DEF Write
<1>3. /\ left \in Nat /\ left <= Chunk /\ Chunk \in Nat /\ buf \in Seq(Nat) /\ Len(buf) \in Nat
      /\ source \in Nat /\ loaded \in Nat /\ rest \in Nat
  BY Sizes DEF AplayTypeOK
<1>4. played \in Seq(Nat) /\ WriteInv /\ Len(played) \in Nat
  BY DEF PlayInv
<1>5. r \in Nat /\ r > 0 /\ r <= left
  BY <1>3
<1> DEFINE piece == SubSeq(buf, Chunk - left + 1, Chunk - left + r)
           n == Len(played)
<1>6. piece \in Seq(Nat) /\ Len(piece) = r /\ \A k \in 1 .. r : piece[k] = buf[Chunk - left + k]
  <2>1. Chunk <= Len(buf)
    BY <1>1, <1>4 DEF WriteInv
  <2>2. Chunk - left + 1 \in 1 .. Len(buf) + 1 /\ Chunk - left + r \in Nat
        /\ Chunk - left + r <= Len(buf)
    BY <1>3, <1>5, <2>1
  <2>3. \A k \in 1 .. r : (Chunk - left + 1) + k - 1 = Chunk - left + k
    BY <1>3, <1>5
  <2>4. (Chunk - left + r) - (Chunk - left + 1) + 1 = r
    BY <1>3, <1>5
  <2>5. \A i \in Chunk - left + 1 .. Chunk - left + r : buf[i] \in Nat
    BY <1>3, <1>5, <2>1
  <2>6. Chunk - left + 1 \in Int /\ Chunk - left + r \in Int
        /\ Chunk - left + 1 <= Chunk - left + r
    BY <1>3, <1>5
  <2>7. QED
    BY <1>3, <1>5, <2>3, <2>4, <2>5, <2>6, Slice
<1> HIDE DEF piece
<1>7. /\ played \o piece \in Seq(Nat) /\ Len(played \o piece) = Len(played) + Len(piece)
      /\ \A i \in 1 .. Len(played) + Len(piece) :
            (played \o piece)[i] = IF i <= Len(played) THEN played[i] ELSE piece[i - Len(played)]
  BY <1>4, <1>6, ConcatProperties, Zenon
<1>8. played' = played \o piece
  BY <1>2 DEF piece
<1>9. /\ played' \in Seq(Nat) /\ Len(played') = n + r
      /\ \A i \in 1 .. n + r : played'[i] = IF i <= n THEN played[i] ELSE piece[i - n]
  BY <1>6, <1>7, <1>8
<1>10. n \in Nat /\ n = Len(played)
  BY <1>4
<1> HIDE DEF n
<1>11. Base' = Base /\ OfFile' = OfFile /\ Base \in Nat /\ OfFile \in 0 .. Chunk
       /\ Base + OfFile <= source /\ n - (Chunk - left) = Base
  <2>1. Len(played') - (Chunk - left') = n - (Chunk - left)
    <3>1. (n + r) - (Chunk - (left - r)) = n - (Chunk - left)
      BY <1>3, <1>5, <1>10
    <3>2. QED
      BY <1>2, <1>9, <3>1
  <2>2. Base' = Base /\ Base = n - (Chunk - left)
    BY <1>10, <2>1, Zenon DEF Base
  <2>3. QED
    BY <1>1, <1>4, <2>2 DEF OfFile, WriteInv
<1>12. \A i \in 1 .. n + r : played'[i] = IF i <= Base + OfFile THEN i ELSE 0
  <2> TAKE i \in 1 .. n + r
  <2>1. CASE i <= n
    <3>1. i \in 1 .. n
      BY <1>10, <2>1
    <3>2. played'[i] = played[i]
      BY <1>9, <2>1
    <3>3. QED
      BY <1>1, <1>4, <3>1, <3>2 DEF WriteInv, n
  <2>2. CASE ~(i <= n)
    <3>1. i - n \in 1 .. r /\ played'[i] = piece[i - n]
      BY <1>5, <1>9, <1>10, <2>2
    <3>2. piece[i - n] = buf[Chunk - left + (i - n)]
      BY <1>6, <3>1
    <3>3. Chunk - left + (i - n) \in 1 .. Chunk
      BY <1>3, <1>5, <1>10, <3>1
    <3>4. buf[Chunk - left + (i - n)] = IF Chunk - left + (i - n) <= OfFile
                                          THEN Base + (Chunk - left + (i - n)) ELSE 0
      BY <1>1, <1>4, <3>3 DEF WriteInv
    <3>5. Base + (Chunk - left + (i - n)) = i
      BY <1>3, <1>10, <1>11
    <3>6. Chunk - left + (i - n) <= OfFile <=> i <= Base + OfFile
      BY <1>3, <1>10, <1>11, <3>3, <3>5
    <3>7. QED
      BY <3>1, <3>2, <3>4, <3>5, <3>6
  <2>3. QED
    BY <2>1, <2>2
<1>13. WriteInv'
  BY <1>1, <1>4, <1>9, <1>11, <1>12 DEF WriteInv
<1>14. FillInv'
  BY <1>1 DEF FillInv
<1>15. \E h \in 0 .. Len(played') : Heard(h)'
  <2>1. left' \in 0 .. Chunk /\ Base = Len(played') - (Chunk - left')
    <3>1. left' = left - r /\ Len(played') = n + r /\ n - (Chunk - left) = Base
      BY <1>2, <1>9, <1>11
    <3> HIDE DEF Base
    <3>2. QED
      BY <1>3, <1>5, <1>10, <3>1
  <2>2. OfFile \in Nat
    BY <1>3, <1>11
  <2> HIDE DEF Base, OfFile
  <2>3. \E h \in 0 .. Len(played') :
            /\ \A i \in 1 .. Len(played') : played'[i] = IF i <= h THEN i ELSE 0
            /\ h <= source /\ Len(played') - h <= Chunk
    <3>1. /\ played' \in Seq(Nat) /\ Base \in Nat /\ Chunk \in Nat /\ source \in Nat
          /\ Base + OfFile <= source
          /\ \A i \in 1 .. Len(played') : played'[i] = IF i <= Base + OfFile THEN i ELSE 0
      BY <1>3, <1>9, <1>11, <1>12
    <3>2. PICK p \in Seq(Nat), b \in Nat, w \in Nat, l \in 0 .. Chunk, e \in Nat :
             p = played' /\ b = Base /\ w = OfFile /\ l = left' /\ e = source
      BY <2>1, <2>2, <3>1
    <3>3. /\ b = Len(p) - (Chunk - l) /\ b + w <= e
          /\ \A i \in 1 .. Len(p) : p[i] = IF i <= b + w THEN i ELSE 0
      BY <2>1, <3>1, <3>2
    <3>4. \E h \in 0 .. Len(p) :
            /\ \A i \in 1 .. Len(p) : p[i] = IF i <= h THEN i ELSE 0
            /\ h <= e /\ Len(p) - h <= Chunk
      <4>1. Len(p) \in Nat /\ Chunk \in Nat /\ l \in Nat /\ l <= Chunk
        BY <3>1
      <4>2. CASE b + w <= Len(p)
        <5>1. b + w \in 0 .. Len(p) /\ Len(p) - (b + w) <= Chunk
          BY <3>3, <4>1, <4>2
        <5>2. QED
          BY <3>3, <5>1
      <4>3. CASE b + w > Len(p)
        <5>1. Len(p) \in 0 .. Len(p) /\ Len(p) <= e /\ Len(p) - Len(p) <= Chunk
          BY <3>3, <4>1, <4>3
        <5>2. \A i \in 1 .. Len(p) : i <= Len(p) /\ i <= b + w
          BY <4>1, <4>3
        <5>3. QED
          BY <3>3, <5>1, <5>2
      <4>4. QED
        BY <4>1, <4>2, <4>3
    <3>5. QED
      BY <3>2, <3>4
  <2>4. QED
    BY <1>1, <2>3 DEF Heard
<1>16. QED
  BY <1>9, <1>13, <1>14, <1>15 DEF PlayInv

\* the next chunk is what follows in the file
LEMMA PlayOfFill ==
  ASSUME AplayTypeOK, ~Capture, ~Capture', PlayInv, Fill
  PROVE  PlayInv'
<1>1. /\ UNCHANGED <<in_aborting, count, source, played>>
      /\ pc = "fill" /\ pc' = "write" /\ loaded' = 0 /\ left' = Chunk
      /\ count > 0 /\ ~in_aborting
  BY DEF Fill, PcmWrite
<1>2. PICK h \in Nat, more \in Nat :
         LET c == Least(count, Chunk)
         IN  /\ c \in Nat /\ h = Least(loaded, c) /\ more = Least(c - h, source - pos)
             /\ h + more <= c /\ pos + more <= source
             /\ rest' = h + more /\ pos' = pos + more
             /\ buf' \in Seq(Nat) /\ Len(buf') = Chunk
             /\ \A k \in 1 .. Chunk :
                   buf'[k] = IF k <= h THEN buf[k]
                             ELSE IF k <= h + more THEN pos + (k - h) ELSE 0
  BY FillFacts
<1> DEFINE c == Least(count, Chunk)
           n == Len(played)
<1>3. /\ played \in Seq(Nat) /\ n \in Nat /\ \A i \in 1 .. n : played[i] = i
      /\ pos = n + loaded /\ \A k \in 1 .. loaded : buf[k] = n + k
      /\ loaded <= Chunk /\ \E x \in 0 .. Len(played) : Heard(x)
  BY <1>1 DEF PlayInv, FillInv
<1>4. /\ loaded \in Nat /\ pos \in Nat /\ source \in Nat /\ Chunk \in Nat /\ Chunk > 0
      /\ count \in Int
      /\ pos <= source
  BY Sizes DEF AplayTypeOK
<1>5. c \in Nat /\ c <= Chunk /\ h <= c /\ h <= loaded /\ (h = loaded \/ (h = c /\ more = 0))
      /\ (h = loaded \/ c < loaded)
  BY <1>1, <1>2, <1>4 DEF Least
<1>6. /\ h + more <= c /\ pos + more <= source /\ rest' = h + more /\ pos' = pos + more
      /\ Len(buf') = Chunk
  BY <1>2
<1> HIDE DEF n, c
<1>7. Base' = n /\ OfFile' = h + more
  <2>1. Base' = n - (Chunk - Chunk) /\ (loaded' > Chunk <=> 0 > Chunk)
    BY <1>1 DEF Base, n
  <2>2. n - (Chunk - Chunk) = n /\ ~(0 > Chunk)
    BY <1>3, <1>4
  <2>3. QED
    BY <1>6, <2>1, <2>2 DEF OfFile
<1>8. h + more \in 0 .. Chunk /\ n + (h + more) <= source
  BY <1>3, <1>4, <1>5, <1>6
<1>9. \A k \in 1 .. Chunk : buf'[k] = IF k <= h + more THEN n + k ELSE 0
  <2> TAKE k \in 1 .. Chunk
  <2>1. buf'[k] = IF k <= h THEN buf[k] ELSE IF k <= h + more THEN pos + (k - h) ELSE 0
    BY <1>2
  <2>2. CASE k <= h
    <3>1. k \in 1 .. loaded /\ k <= h + more
      BY <1>4, <1>5, <2>2
    <3>2. QED
      BY <1>3, <2>1, <2>2, <3>1
  <2>3. CASE ~(k <= h) /\ k <= h + more
    <3>1. h = loaded
      BY <1>4, <1>5, <2>3
    <3>2. pos + (k - h) = n + k
      BY <1>3, <1>4, <3>1
    <3>3. QED
      BY <2>1, <2>3, <3>2
  <2>4. CASE ~(k <= h) /\ ~(k <= h + more)
    BY <2>1, <2>4
  <2>5. QED
    BY <2>2, <2>3, <2>4
<1>10. \A i \in 1 .. n : played[i] = IF i <= n + (h + more) THEN i ELSE 0
  BY <1>3
<1>11. h + more = Chunk => pos + more = n + Chunk
  BY <1>3, <1>4, <1>5
<1>12. WriteInv'
  <2>1. Len(played') = n /\ played' = played
    BY <1>1 DEF n
  <2>2. 0 <= Chunk /\ ~(0 > Chunk) /\ Chunk <= Chunk
    BY <1>4
  <2>3. QED
    BY <1>1, <1>3, <1>6, <1>7, <1>8, <1>9, <1>10, <1>11, <2>1, <2>2 DEF WriteInv
<1>13. FillInv'
  BY <1>1 DEF FillInv
<1>14. QED
  BY <1>1, <1>3, <1>12, <1>13 DEF PlayInv, Heard

\* The chunk was played, what is loaded moves up.
LEMMA PlayOfWritten ==
  ASSUME AplayTypeOK, ~Capture, ~Capture', PlayInv, Written
  PROVE  PlayInv'
<1>1. /\ UNCHANGED <<in_aborting, source, played, pos, rest>>
      /\ pc = "write" /\ (left = 0 \/ in_aborting)
  BY DEF Written
<1>2. \/ pc' \in {"done", "drain"}
      \/ /\ pc' = "preload" /\ loaded > Chunk /\ loaded' = loaded - Chunk
         /\ buf' = SubSeq(buf, Chunk + 1, Len(buf))
      \/ /\ pc' = "fill" /\ ~(loaded > Chunk) /\ Chunk - left = rest
         /\ UNCHANGED <<buf, loaded>>
  BY DEF Written
<1>3. /\ left \in Nat /\ Chunk \in Nat /\ buf \in Seq(Nat) /\ Len(buf) \in Nat
      /\ loaded \in Nat /\ rest \in Nat /\ loaded <= Len(buf)
  BY Sizes DEF AplayTypeOK
<1>4. played \in Seq(Nat) /\ Len(played) \in Nat /\ WriteInv /\ \E x \in 0 .. Len(played) : Heard(x)
  BY DEF PlayInv
<1>5. WriteInv'
  BY <1>2 DEF WriteInv
<1>6. FillInv'
  <2> SUFFICES ASSUME pc' \in {"preload", "fill"}, ~in_aborting'
               PROVE  /\ \A i \in 1 .. Len(played) : played[i] = i
                      /\ pos = Len(played) + loaded'
                      /\ \A k \in 1 .. loaded' : buf'[k] = Len(played) + k
                      /\ pc' = "fill" => loaded' <= Chunk
    BY <1>1 DEF FillInv
  <2>1. left = 0
    BY <1>1
  <2>2. Base = Len(played) - Chunk /\ Len(played) = Base + Chunk /\ Base \in Nat
    <3>1. Base = Len(played) - (Chunk - left) /\ Base \in Nat
      BY <1>1, <1>4 DEF WriteInv, Base
    <3> HIDE DEF Base
    <3>2. QED
      BY <1>3, <1>4, <2>1, <3>1
  <2> HIDE DEF Base
  <2>3. CASE /\ pc' = "preload" /\ loaded > Chunk /\ loaded' = loaded - Chunk
             /\ buf' = SubSeq(buf, Chunk + 1, Len(buf))
    <3>1. OfFile = Chunk
      BY <2>3 DEF OfFile
    <3>2. \A i \in 1 .. Len(played) : played[i] = i
      BY <1>1, <1>3, <1>4, <2>2, <3>1 DEF WriteInv
    <3>3. pos = Base + loaded /\ \A k \in 1 .. loaded : buf[k] = Base + k
      BY <1>1, <1>4, <2>3 DEF WriteInv
    <3>4. pos = Len(played) + loaded'
      BY <1>3, <2>2, <2>3, <3>3
    <3>5. \A k \in 1 .. loaded' : buf'[k] = Len(played) + k
      <4> TAKE k \in 1 .. loaded'
      <4>1. k \in Nat /\ k > 0 /\ Chunk + k <= loaded /\ Chunk + k \in 1 .. loaded
        BY <1>3, <2>3
      <4>2. buf'[k] = buf[Chunk + k]
        <5>1. buf \in Seq(Nat) /\ Chunk + k <= Len(buf)
          BY <1>1, <1>3, <1>4, <2>3, <4>1 DEF WriteInv
        <5>2. SubSeq(buf, Chunk + 1, Len(buf))[k] = buf[Chunk + k]
          BY <1>3, <4>1, <5>1, Rest
        <5>3. QED
          BY <2>3, <5>2
      <4>3. Base + (Chunk + k) = Len(played) + k
        BY <1>3, <2>2, <4>1
      <4>4. QED
        BY <3>3, <4>1, <4>2, <4>3
    <3>6. QED
      BY <2>3, <3>2, <3>4, <3>5
  <2>4. CASE /\ pc' = "fill" /\ ~(loaded > Chunk) /\ Chunk - left = rest
             /\ UNCHANGED <<buf, loaded>>
    <3>1. rest = Chunk /\ OfFile = Chunk
      BY <1>3, <2>1, <2>4 DEF OfFile
    <3>2. \A i \in 1 .. Len(played) : played[i] = i
      BY <1>1, <1>3, <1>4, <2>2, <3>1 DEF WriteInv
    <3>3. loaded <= Chunk
      BY <1>3, <2>4
    <3>4. loaded = 0 /\ pos = Base + Chunk
      BY <1>1, <1>4, <3>1, <3>3 DEF WriteInv
    <3>5. QED
      BY <1>3, <2>2, <2>4, <3>2, <3>4
  <2>5. QED
    BY <1>2, <2>3, <2>4
<1>7. QED
  BY <1>1, <1>4, <1>5, <1>6 DEF PlayInv, Heard

\* underruns, signals, the first whole chunks, the end
LEMMA PlayOfOthers ==
  ASSUME AplayTypeOK, ~Capture, ~Capture', PlayInv,
         Stop \/ Preload \/ Drain \/ Abort \/ Interrupted
  PROVE  PlayInv'
<1>1. /\ UNCHANGED <<count, rest, buf, loaded, pos, source, played>>
      /\ in_aborting => in_aborting'
  BY DEF Stop, Preload, Drain, Abort, Interrupted, input
<1>2. \/ UNCHANGED <<pc, left>>
      \/ pc' \in {"done", "failed"}
      \/ /\ pc = "preload" /\ pc' = "write" /\ left' = Chunk
         /\ loaded > Chunk /\ count > 0 /\ ~in_aborting
      \/ /\ pc = "preload" /\ pc' = "fill"
         /\ ~(loaded > Chunk /\ count > 0 /\ ~in_aborting) /\ in_aborting' = in_aborting
  BY DEF Stop, Preload, Drain, Abort, Interrupted, Fail
<1>3. loaded \in Nat /\ pos \in Nat /\ source \in Nat /\ Chunk \in Nat /\ pos <= source
      /\ loaded <= Len(buf) /\ buf \in Seq(Nat) /\ Len(buf) \in Nat
  BY Sizes DEF AplayTypeOK
<1>4. /\ played \in Seq(Nat) /\ Len(played) \in Nat /\ WriteInv /\ FillInv
      /\ \E x \in 0 .. Len(played) : Heard(x)
  BY DEF PlayInv
<1>5. WriteInv'
  <2>1. CASE UNCHANGED <<pc, left>>
    BY <1>1, <1>4, <2>1 DEF WriteInv, Base, OfFile
  <2>2. CASE /\ pc = "preload" /\ pc' = "write" /\ left' = Chunk
             /\ loaded > Chunk /\ count > 0 /\ ~in_aborting
    <3>1. /\ \A i \in 1 .. Len(played) : played[i] = i
          /\ pos = Len(played) + loaded
          /\ \A k \in 1 .. loaded : buf[k] = Len(played) + k
      BY <1>4, <2>2 DEF FillInv
    <3>2. Base' = Len(played) /\ OfFile' = Chunk
      <4>1. Base' = Len(played) - (Chunk - Chunk)
        BY <1>1, <2>2 DEF Base
      <4>2. QED
        BY <1>1, <1>3, <1>4, <2>2, <4>1 DEF OfFile
    <3>3. \A k \in 1 .. Chunk : k \in 1 .. loaded /\ k <= Chunk
      BY <1>3, <2>2
    <3>4. \A i \in 1 .. Len(played) : i <= Len(played) + Chunk
      BY <1>3, <1>4
    <3>5. /\ Len(played) + Chunk <= source /\ Chunk <= Len(buf) /\ ~(loaded <= Chunk)
          /\ Chunk \in 0 .. Chunk
      BY <1>3, <1>4, <2>2, <3>1
    <3>6. QED
      BY <1>1, <1>4, <3>1, <3>2, <3>3, <3>4, <3>5 DEF WriteInv
  <2>3. CASE pc' \in {"done", "failed", "fill"}
    BY <2>3 DEF WriteInv
  <2>4. QED
    BY <1>2, <2>1, <2>2, <2>3
<1>6. FillInv'
  BY <1>1, <1>2, <1>3, <1>4 DEF FillInv
<1>7. QED
  BY <1>1, <1>4, <1>5, <1>6 DEF PlayInv, Heard

\* every step
LEMMA PlayKept ==
  ASSUME AplayTypeOK, PlayInv, Next
  PROVE  PlayInv'
<1>1. Capture' = Capture
  <2>1. UNCHANGED mode
    BY DEF Next, Stop, Read, Write, Open, Loop, Save, Close, Preload, Fill,
           Written, Drain, Abort, Recycle, Interrupted, command
  <2>2. QED
    BY <2>1 DEF Capture
<1>2. CASE Capture
  BY <1>1, <1>2 DEF PlayInv
<1>3. CASE ~Capture
  <2>1. pc \in PlayStages
    BY <1>3 DEF AplayTypeOK
  <2>2. ~(Read \/ Open \/ Loop \/ Save \/ Close \/ Recycle)
    BY <1>3, <2>1 DEF PlayStages, Read, Open, Loop, Save, Close, Recycle
  <2>3. CASE Write
    BY <1>1, <1>3, <2>3, PlayOfWrite
  <2>4. CASE Fill
    BY <1>1, <1>3, <2>4, PlayOfFill
  <2>5. CASE Written
    BY <1>1, <1>3, <2>5, PlayOfWritten
  <2>6. CASE Stop \/ Preload \/ Drain \/ Abort \/ Interrupted
    BY <1>1, <1>3, <2>6, PlayOfOthers
  <2>7. QED
    BY <2>2, <2>3, <2>4, <2>5, <2>6 DEF Next
<1>4. QED
  BY <1>2, <1>3

\* a step of others
LEMMA PlayStutters ==
  ASSUME PlayInv, UNCHANGED vars
  PROVE  PlayInv'
<1>1. UNCHANGED <<mode, in_aborting, pc, count, rest, buf, left, source, loaded, pos, played>>
  BY DEF vars, command, input
<1>2. QED
  BY <1>1 DEF PlayInv, Capture, Heard, WriteInv, FillInv, Base, OfFile

\* The frames of the file are played in order from the first, each once, before and
\* after underruns, and then silence of at most a chunk (playback_go, pcm_write).
THEOREM PlayedAsRead == Spec => []PlaysInOrder
<1>1. Init => AplayTypeOK /\ RecordInv /\ PlayInv
  BY AplayStarts, RecordStarts, PlayStarts
<1>2. AplayTypeOK /\ RecordInv /\ PlayInv /\ [Next]_vars
         => (AplayTypeOK /\ RecordInv /\ PlayInv)'
  BY AplayTyped, RecordKept, PlayKept, AplayStutters, PlayStutters
<1>3. PlayInv => PlaysInOrder
  BY DEF PlayInv, PlaysInOrder, Heard
<1>4. QED
  BY <1>1, <1>2, <1>3, PTL DEF Spec

-----------------------------------------------------------------------------
(***************************************************************************)
(* alsactl monitor (Monitor), an instance of its own in which stage is its *)
(* pc: for any number of cards, plugs and events, and wherever they meet   *)
(* its loop, it uses no entry it has freed, never waits for an event that  *)
(* is not there, and watches every card it should.                         *)
(***************************************************************************)

CONSTANTS Cards, name
VARIABLES present, born, creations, others, signal, queued, srcs, registered, stage, at,
          max_ev_count, retry, ready, hidden

M == INSTANCE Monitor WITH pc <- stage

MonitorTypeOK ==
    /\ present \in [Cards -> BOOLEAN] /\ born \in [Cards -> Nat]
    /\ creations \in BOOLEAN /\ retry \in BOOLEAN
    /\ srcs \in SUBSET M!Plugs /\ queued \in [srcs -> Nat]
    /\ registered \in SUBSET srcs /\ hidden \in SUBSET M!Plugs
    /\ at \in Cards \cup {-1}
    /\ stage \in {"scan", "wait", "batch", "clear", "sleep", "end", "done"}
    /\ ready \in [reads : SUBSET srcs, hangups : SUBSET srcs,
                  node : BOOLEAN, signal : BOOLEAN]

\* nothing is registered before the scan is done and after it is cleared, and a restart
\* is decided in a batch and done at once
Stages ==
    /\ stage \in {"scan", "sleep", "end", "done"} => registered = {}
    /\ stage # "batch" => ready = M!Nothing
    /\ retry => stage \in {"clear", "sleep"}

\* an entry is of a plug that has been
Past == \A e \in srcs : e.nr <= born[e.card]

\* what hung up stays so, and is not read from
BatchIsTrue ==
    /\ ready.reads \cap ready.hangups = {}
    /\ \A e \in ready.hangups : ~M!Alive(e)
    /\ \A e \in ready.reads : M!Alive(e) => queued[e] > 0

MonitorInv == /\ MonitorTypeOK /\ Stages /\ Past /\ BatchIsTrue /\ M!OneEntryEach
              /\ M!NoCardIsForgotten

-----------------------------------------------------------------------------
LEMMA InitIInv == ASSUME M!Parameters, M!Init PROVE MonitorInv
<1>1. MonitorTypeOK
  BY DEF M!Init, MonitorTypeOK, M!Nothing
<1>2. Stages /\ Past /\ BatchIsTrue /\ M!OneEntryEach
  BY DEF M!Init, Stages, Past, BatchIsTrue, M!OneEntryEach, M!Nothing
<1>3. M!NoCardIsForgotten
  BY DEF M!Init, M!NoCardIsForgotten, M!OnItsWay, M!Parameters
<1> QED  BY <1>1, <1>2, <1>3 DEF MonitorInv

LEMMA ScanKeeps == ASSUME M!Parameters, MonitorInv, NEW c \in Cards, M!Scan(c) PROVE MonitorInv'
<1> USE DEF MonitorInv
<1>1. c \in Nat /\ at < c
  BY DEF M!Scan, M!Follows, M!Parameters
<1>2. /\ stage = "scan" /\ registered = {} /\ ready = M!Nothing /\ ~retry
      /\ UNCHANGED <<present, born, creations, registered, ready, retry>> /\ at' = c
  BY DEF M!Scan, Stages, M!environment, M!batch
<1>3. \A d \in Cards : M!Wanted(d) /\ d # c /\ d < c => d <= at
  BY <1>1, <1>2 DEF M!Scan, M!Follows, M!Wanted, M!Parameters, MonitorTypeOK
<1>4. CASE \E e \in srcs : e.card = c
  <2>1. /\ UNCHANGED <<stage, srcs, queued>>
        /\ hidden' = IF present[c] /\ M!Current(c) \notin srcs
                     THEN hidden \cup {M!Current(c)} ELSE hidden
    BY <1>4 DEF M!Scan
  <2>2. M!Current(c) \in M!Plugs
    BY DEF M!Current, M!Plugs, MonitorTypeOK
  <2>3. MonitorTypeOK'
    BY <1>2, <2>1, <2>2 DEF MonitorTypeOK
  <2>4. Stages' /\ Past' /\ BatchIsTrue' /\ M!OneEntryEach'
    BY <1>2, <2>1 DEF Stages, Past, BatchIsTrue, M!OneEntryEach, M!Alive, M!Current
  <2>5. ASSUME NEW d \in Cards, M!Wanted(d)'
        PROVE  (M!Current(d) \in srcs \cup hidden \/ M!OnItsWay(d))'
    <3>1. M!Wanted(d) /\ UNCHANGED M!Current(d)
      BY <1>2, <2>5 DEF M!Wanted, M!Current
    <3>2. CASE d = c
      BY <1>2, <2>1, <3>1, <3>2 DEF M!Wanted
    <3>3. CASE d # c /\ d < c
      BY <1>1, <1>2, <1>3, <2>1, <3>1, <3>3 DEF M!NoCardIsForgotten, M!OnItsWay, M!Parameters,
                                                MonitorTypeOK
    <3>4. CASE d > c
      BY <1>2, <2>1, <3>4 DEF M!OnItsWay
    <3> QED  BY <1>1, <3>2, <3>3, <3>4 DEF M!Parameters
  <2> QED  BY <2>3, <2>4, <2>5 DEF M!NoCardIsForgotten
<1>5. CASE /\ ~\E e \in srcs : e.card = c
           /\ present[c] /\ srcs' = srcs \cup {M!Current(c)}
           /\ queued' = [e \in srcs' |-> IF e \in srcs THEN queued[e] ELSE 0]
           /\ UNCHANGED <<stage, hidden>>
  <2>1. M!Current(c) \in M!Plugs /\ M!Current(c).card = c /\ M!Current(c).nr = born[c]
    BY DEF M!Current, M!Plugs, MonitorTypeOK
  <2>2. queued' \in [srcs' -> Nat]
    BY <1>5 DEF MonitorTypeOK
  <2>3. MonitorTypeOK'
    BY <1>2, <1>5, <2>1, <2>2 DEF MonitorTypeOK, M!Nothing
  <2>4. Stages' /\ BatchIsTrue'
    BY <1>2, <1>5 DEF Stages, BatchIsTrue, M!Nothing
  <2>5. Past' /\ M!OneEntryEach'
    BY <1>2, <1>5, <2>1 DEF Past, M!OneEntryEach, MonitorTypeOK
  <2>6. ASSUME NEW d \in Cards, M!Wanted(d)'
        PROVE  (M!Current(d) \in srcs \cup hidden \/ M!OnItsWay(d))'
    <3>1. M!Wanted(d) /\ UNCHANGED M!Current(d)
      BY <1>2, <2>6 DEF M!Wanted, M!Current
    <3>2. CASE d = c
      BY <1>5, <3>1, <3>2
    <3>3. CASE d # c /\ d < c
      BY <1>1, <1>2, <1>3, <1>5, <3>1, <3>3 DEF M!NoCardIsForgotten, M!OnItsWay, M!Parameters,
                                                MonitorTypeOK
    <3>4. CASE d > c
      BY <1>2, <1>5, <3>4 DEF M!OnItsWay
    <3> QED  BY <1>1, <3>2, <3>3, <3>4 DEF M!Parameters
  <2> QED  BY <2>3, <2>4, <2>5, <2>6 DEF M!NoCardIsForgotten
<1>6. CASE stage' = "end" /\ UNCHANGED <<srcs, queued, hidden>>
  BY <1>2, <1>6
     DEF MonitorTypeOK, Stages, Past, BatchIsTrue, M!OneEntryEach, M!NoCardIsForgotten,
         M!OnItsWay, M!Alive, M!Current
<1> QED  BY <1>4, <1>5, <1>6 DEF M!Scan

\* The steps that leave the cards and the list as they are.
LEMMA DispatchKeeps ==
    ASSUME M!Parameters, MonitorInv,
           \/ M!Register \/ M!EpollWait \/ M!EpollFails \/ M!TakeSignal \/ M!TakeNode
           \/ M!EndOfBatch \/ M!Clear \/ M!Retry
    PROVE  MonitorInv'
<1> USE DEF MonitorInv
<1>1. UNCHANGED <<present, born, queued, srcs, hidden>>
  BY DEF M!Register, M!EpollWait, M!EpollFails, M!TakeSignal, M!TakeNode, M!EndOfBatch,
         M!Clear, M!Retry,
         M!environment, M!batch
<1>2. /\ \A d \in Cards : (M!Wanted(d)' <=> M!Wanted(d)) /\ UNCHANGED M!Current(d)
      /\ \A e \in M!Plugs : M!Alive(e)' <=> M!Alive(e)
  BY <1>1 DEF M!Wanted, M!Current, M!Alive, M!Plugs
<1>3. Past' /\ M!OneEntryEach'
  BY <1>1 DEF Past, M!OneEntryEach
<1> DEFINE Batches == [reads : SUBSET srcs, hangups : SUBSET srcs, node : BOOLEAN, signal : BOOLEAN]
<1>4. M!Nothing \in Batches
  BY DEF M!Nothing
<1>5. ready \in Batches
  BY DEF MonitorTypeOK
<1>6. CASE M!Register
  <2>1. UNCHANGED <<ready, creations, retry, at>> /\ stage = "scan" /\ stage' \in {"wait", "clear"}
        /\ registered' \in SUBSET srcs /\ ready = M!Nothing
    BY <1>6 DEF M!Register, M!environment, Stages
  <2>2. MonitorTypeOK' /\ Stages' /\ BatchIsTrue'
    BY <1>1, <2>1 DEF MonitorTypeOK, Stages, BatchIsTrue, M!Nothing
  <2>3. \A d \in Cards : M!Wanted(d) => ~(at < d)
    BY <1>6 DEF M!Register, M!LastCard, M!Wanted, M!Parameters, MonitorTypeOK
  <2>4. M!NoCardIsForgotten'
    BY <1>1, <1>2, <2>1, <2>3 DEF M!NoCardIsForgotten, M!OnItsWay
  <2> QED  BY <1>3, <2>2, <2>4
<1>7. CASE M!EpollWait
  <2>1. PICK reads \in SUBSET M!Readable, hangups \in SUBSET M!HungUp,
             n \in BOOLEAN, s \in BOOLEAN :
             ready' = [reads |-> reads, hangups |-> hangups, node |-> n, signal |-> s]
    BY <1>7 DEF M!EpollWait
  <2>2. /\ UNCHANGED <<registered, creations, retry, at>> /\ stage = "wait" /\ stage' = "batch"
        /\ ready'.reads = reads /\ ready'.hangups = hangups
    BY <1>7, <2>1 DEF M!EpollWait, M!environment
  <2>3. reads \subseteq srcs /\ hangups \subseteq srcs
    BY DEF M!Readable, M!HungUp, MonitorTypeOK
  <2>4. MonitorTypeOK'
    BY <1>1, <2>1, <2>2, <2>3 DEF MonitorTypeOK
  <2>5. Stages'
    BY <2>2 DEF Stages
  <2>6. BatchIsTrue'
    BY <1>1, <1>2, <2>2, <2>3 DEF BatchIsTrue, M!Readable, M!HungUp, MonitorTypeOK
  <2>7. M!NoCardIsForgotten'
    BY <1>1, <1>2, <2>2 DEF M!NoCardIsForgotten, M!OnItsWay
  <2> QED  BY <1>3, <2>4, <2>5, <2>6, <2>7
<1>8. CASE M!EpollFails \/ M!TakeSignal \/ M!EndOfBatch
  <2>1. /\ UNCHANGED <<registered, creations, retry, at>> /\ stage \in {"wait", "batch"}
        /\ \/ stage' = "clear" /\ ready' = M!Nothing
           \/ stage' = "wait" /\ stage = "batch" /\ ready' = ready /\ M!Idle(ready)
    BY <1>8 DEF M!EpollFails, M!TakeSignal, M!EndOfBatch, M!environment, M!batch, Stages
  <2>2. M!Idle(ready) => ready = M!Nothing
    BY DEF M!Idle, M!Nothing, MonitorTypeOK
  <2>3. ready' \in Batches
    BY <1>4, <1>5, <2>1
  <2>4. MonitorTypeOK'
    BY <1>1, <2>1, <2>3 DEF MonitorTypeOK
  <2>5. Stages' /\ BatchIsTrue'
    BY <1>1, <2>1, <2>2 DEF Stages, BatchIsTrue, M!Nothing
  <2>6. M!NoCardIsForgotten'
    BY <1>1, <1>2, <2>1 DEF M!NoCardIsForgotten, M!OnItsWay, Stages
  <2> QED  BY <1>3, <2>4, <2>5, <2>6
<1>9. CASE M!TakeNode
  <2>1. /\ UNCHANGED <<registered, at>> /\ stage = "batch" /\ ~creations' /\ retry' = creations
        /\ ~retry
        /\ \/ creations /\ stage' = "clear" /\ ready' = M!Nothing
           \/ ~creations /\ stage' = stage /\ ready' = [ready EXCEPT !.node = FALSE]
    BY <1>9 DEF M!TakeNode, Stages
  <2>2. /\ ready' \in Batches
        /\ creations' \in BOOLEAN /\ retry' \in BOOLEAN
    BY <1>4, <1>5, <1>9, <2>1 DEF MonitorTypeOK, M!TakeNode
  <2>3. MonitorTypeOK'
    BY <1>1, <2>1, <2>2 DEF MonitorTypeOK
  <2>4. /\ ready'.reads \subseteq ready.reads /\ ready'.hangups \subseteq ready.hangups
    BY <2>1 DEF MonitorTypeOK, M!Nothing
  <2>5. Stages' /\ BatchIsTrue'
    BY <1>1, <1>2, <2>1, <2>4 DEF Stages, BatchIsTrue, MonitorTypeOK
  <2>6. M!NoCardIsForgotten'
    BY <1>1, <1>2, <2>1 DEF M!NoCardIsForgotten, M!OnItsWay
  <2> QED  BY <1>3, <2>3, <2>5, <2>6
<1>10. CASE M!Clear \/ M!Retry
  <2>1. /\ UNCHANGED <<creations, ready>> /\ stage \in {"clear", "sleep"} /\ registered' = {}
        /\ \/ stage' = "sleep" /\ retry' = retry /\ retry /\ at' = at
           \/ stage' = "end" /\ retry' = retry /\ ~retry /\ at' = at
           \/ stage' = "scan" /\ ~retry' /\ retry' \in BOOLEAN /\ at' = -1
    BY <1>10 DEF M!Clear, M!Retry, M!environment, M!batch, Stages
  <2>2. MonitorTypeOK'
    BY <1>1, <2>1 DEF MonitorTypeOK
  <2>3. Stages' /\ BatchIsTrue'
    BY <1>1, <2>1 DEF Stages, BatchIsTrue, M!Nothing
  <2>4. M!NoCardIsForgotten'
    BY <1>1, <1>2, <2>1 DEF M!NoCardIsForgotten, M!OnItsWay, M!Parameters
  <2> QED  BY <1>3, <2>2, <2>3, <2>4
<1> QED  BY <1>6, <1>7, <1>8, <1>9, <1>10

LEMMA TakeEventKeeps ==
  ASSUME M!Parameters, MonitorInv, NEW e \in srcs, M!TakeEvent(e)
  PROVE  MonitorInv'
<1> USE DEF MonitorInv
<1>1. /\ UNCHANGED <<present, born, creations, srcs, registered, stage, at, retry, hidden>>
      /\ stage = "batch" /\ e \in ready.reads /\ ready' = [ready EXCEPT !.reads = @ \ {e}]
      /\ \/ ~M!Alive(e) /\ queued' = queued
         \/ M!Alive(e) /\ queued[e] > 0 /\ queued' = [queued EXCEPT ![e] = @ - 1]
  BY DEF M!TakeEvent, M!environment
<1>2. /\ ready'.reads = ready.reads \ {e} /\ ready'.hangups = ready.hangups
      /\ ready'.node = ready.node /\ ready'.signal = ready.signal
  BY <1>1 DEF MonitorTypeOK
<1>3. queued' \in [srcs -> Nat] /\ \A f \in srcs : f # e => queued'[f] = queued[f]
  BY <1>1 DEF MonitorTypeOK
<1>4. MonitorTypeOK'
  BY <1>1, <1>3 DEF MonitorTypeOK
<1>5. BatchIsTrue'
  BY <1>1, <1>2, <1>3 DEF BatchIsTrue, M!Alive, M!Current, MonitorTypeOK
<1>6. Stages' /\ Past' /\ M!OneEntryEach' /\ M!NoCardIsForgotten'
  BY <1>1 DEF Stages, Past, M!OneEntryEach, M!NoCardIsForgotten, M!OnItsWay, M!Wanted, M!Current
<1> QED  BY <1>4, <1>5, <1>6

\* Only an entry whose card has gone is freed.
LEMMA TakeHangupKeeps ==
  ASSUME M!Parameters, MonitorInv, NEW e \in srcs, M!TakeHangup(e)
  PROVE  MonitorInv'
<1> USE DEF MonitorInv
<1>1. /\ UNCHANGED <<present, born, creations, stage, at, retry, hidden>>
      /\ stage = "batch" /\ e \in ready.hangups /\ ready' = [ready EXCEPT !.hangups = @ \ {e}]
      /\ registered' = registered \ {e} /\ srcs' = srcs \ {e}
      /\ queued' = [f \in srcs' |-> queued[f]]
  BY DEF M!TakeHangup, M!environment
<1>2. /\ ready'.reads = ready.reads /\ ready'.hangups = ready.hangups \ {e}
      /\ ready'.node = ready.node /\ ready'.signal = ready.signal
  BY <1>1 DEF MonitorTypeOK
<1>3. e \notin ready.reads /\ ~M!Alive(e)
  BY <1>1 DEF BatchIsTrue
<1>4. ready' \in [reads : SUBSET srcs', hangups : SUBSET srcs', node : BOOLEAN, signal : BOOLEAN]
  BY <1>1, <1>3 DEF MonitorTypeOK
<1>5. MonitorTypeOK'
  BY <1>1, <1>4 DEF MonitorTypeOK
<1>6. BatchIsTrue'
  BY <1>1, <1>2, <1>3 DEF BatchIsTrue, M!Alive, M!Current, MonitorTypeOK
<1>7. Stages' /\ Past' /\ M!OneEntryEach'
  BY <1>1 DEF Stages, Past, M!OneEntryEach
<1>8. \A c \in Cards : M!Wanted(c) => M!Current(c) # e
  BY <1>3 DEF M!Wanted, M!Alive, M!Current
<1>9. M!NoCardIsForgotten'
  BY <1>1, <1>8 DEF M!NoCardIsForgotten, M!OnItsWay, M!Wanted, M!Current
<1> QED  BY <1>5, <1>6, <1>7, <1>9

LEMMA EndKeeps == ASSUME M!Parameters, MonitorInv, M!End PROVE MonitorInv'
  BY DEF MonitorInv, M!End, MonitorTypeOK, Stages, Past, BatchIsTrue, M!OneEntryEach,
         M!NoCardIsForgotten,
         M!OnItsWay, M!environment, M!batch, M!Nothing

\* What the cards do: a new plug is not the one an entry is of, and is told of.
LEMMA EnvironmentKeeps == ASSUME M!Parameters, MonitorInv, M!Environment PROVE MonitorInv'
<1> USE DEF MonitorInv
<1>1. ASSUME NEW c \in Cards, M!Plug(c) PROVE MonitorInv'
  <2>1. /\ UNCHANGED <<queued, srcs, registered, stage, at, retry, ready, hidden>>
        /\ creations' /\ creations' \in BOOLEAN
        /\ ~present[c] /\ present' = [present EXCEPT ![c] = TRUE]
        /\ born' = [born EXCEPT ![c] = @ + 1]
    BY <1>1 DEF M!Plug, M!batch
  <2>2. MonitorTypeOK'
    BY <2>1 DEF MonitorTypeOK
  <2>3. \A e \in srcs : e.card \in Cards /\ e.nr \in Nat
    BY DEF MonitorTypeOK, M!Plugs
  <2>4. Past' /\ \A e \in srcs : M!Alive(e)' => M!Alive(e)
    BY <2>1, <2>3 DEF Past, M!Alive, M!Current, MonitorTypeOK
  <2>5. BatchIsTrue'
    BY <2>1, <2>4 DEF BatchIsTrue, MonitorTypeOK
  <2>6. Stages' /\ M!OneEntryEach' /\ M!NoCardIsForgotten'
    BY <2>1 DEF Stages, M!OneEntryEach, M!NoCardIsForgotten, M!OnItsWay
  <2> QED  BY <2>2, <2>4, <2>5, <2>6
<1>2. ASSUME NEW c \in Cards, M!Unplug(c) PROVE MonitorInv'
  <2>1. /\ UNCHANGED <<born, creations, queued, srcs, registered, stage, at, retry, ready, hidden>>
        /\ present' = [present EXCEPT ![c] = FALSE]
    BY <1>2 DEF M!Unplug, M!batch
  <2>2. \A e \in srcs : M!Alive(e)' => M!Alive(e)
    BY <2>1 DEF M!Alive, M!Current, MonitorTypeOK, M!Plugs
  <2>3. \A d \in Cards : M!Wanted(d)' => M!Wanted(d)
    BY <2>1 DEF M!Wanted, MonitorTypeOK
  <2>4. MonitorTypeOK' /\ Past' /\ Stages' /\ M!OneEntryEach'
    BY <2>1 DEF MonitorTypeOK, Past, Stages, M!OneEntryEach
  <2>5. BatchIsTrue'
    BY <2>1, <2>2 DEF BatchIsTrue, MonitorTypeOK
  <2>6. M!NoCardIsForgotten'
    BY <2>1, <2>3 DEF M!NoCardIsForgotten, M!OnItsWay, M!Current
  <2> QED  BY <2>4, <2>5, <2>6
<1>3. CASE M!OtherNode \/ M!Interrupt
  BY <1>3 DEF M!OtherNode, M!Interrupt, M!batch, MonitorTypeOK, Stages, Past, BatchIsTrue,
              M!OneEntryEach,
              M!NoCardIsForgotten, M!OnItsWay, M!Wanted, M!Current, M!Alive
<1>4. ASSUME NEW e \in srcs, M!ElementEvent(e) PROVE MonitorInv'
  <2>1. /\ UNCHANGED <<present, born, creations, srcs, registered, stage, at, retry, ready, hidden>>
        /\ queued' = [queued EXCEPT ![e] = @ + 1]
    BY <1>4 DEF M!ElementEvent, M!environment, M!batch
  <2>2. MonitorTypeOK' /\ \A f \in srcs : queued'[f] >= queued[f]
    BY <2>1 DEF MonitorTypeOK
  <2>3. BatchIsTrue'
    BY <2>1, <2>2 DEF BatchIsTrue, M!Alive, M!Current, MonitorTypeOK
  <2>4. Stages' /\ Past' /\ M!OneEntryEach' /\ M!NoCardIsForgotten'
    BY <2>1 DEF Stages, Past, M!OneEntryEach, M!NoCardIsForgotten, M!OnItsWay, M!Wanted,
                M!Current
  <2> QED  BY <2>2, <2>3, <2>4
<1> QED  BY <1>1, <1>2, <1>3, <1>4 DEF M!Environment

LEMMA NextIInv == ASSUME M!Parameters, MonitorInv, [M!Next]_(M!vars) PROVE MonitorInv'
<1>1. CASE UNCHANGED M!vars
  BY <1>1 DEF M!vars, M!environment, M!batch, MonitorInv, MonitorTypeOK, Stages, Past,
              BatchIsTrue, M!OneEntryEach,
              M!NoCardIsForgotten, M!OnItsWay, M!Wanted, M!Current, M!Alive
<1> QED
  BY <1>1, DispatchKeeps, EndKeeps, EnvironmentKeeps, ScanKeeps, TakeEventKeeps, TakeHangupKeeps
     DEF M!Next, M!Dispatch

-----------------------------------------------------------------------------
\* The data of the epoll set is the address of an entry: neither the set nor a batch
\* holds one that has been freed (run_dispatcher, remove_source_entry).
THEOREM EntriesAreValid == ASSUME M!Parameters PROVE M!Spec => []M!PointersAreValid
<1>1. MonitorInv => M!PointersAreValid
  BY DEF MonitorInv, MonitorTypeOK, M!PointersAreValid
<1> QED  BY <1>1, InitIInv, NextIInv, PTL DEF M!Spec

\* The monitor is never stuck in the read of one card (print_event).
THEOREM NeverStuck == ASSUME M!Parameters PROVE M!Spec => []M!ReadNeverWaits
<1>1. MonitorInv => M!ReadNeverWaits
  BY DEF MonitorInv, BatchIsTrue, M!ReadNeverWaits
<1> QED  BY <1>1, InitIInv, NextIInv, PTL DEF M!Spec

\* A card has one entry, whenever it was plugged (prepare_source_entry).
THEOREM OneEntry == ASSUME M!Parameters PROVE M!Spec => []M!OneEntryEach
<1>1. MonitorInv => M!OneEntryEach
  BY DEF MonitorInv
<1> QED  BY <1>1, InitIInv, NextIInv, PTL DEF M!Spec

\* A card that appears at any moment is watched, or the scan that finds it is to come
\* (check_control_cdev, monitor): but for one plugged again too soon.
THEOREM EveryCardIsFound == ASSUME M!Parameters PROVE M!Spec => []M!NoCardIsForgotten
<1>1. MonitorInv => M!NoCardIsForgotten
  BY DEF MonitorInv
<1> QED  BY <1>1, InitIInv, NextIInv, PTL DEF M!Spec
==============================================================================
