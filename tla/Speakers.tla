------------------------------ MODULE Speakers ------------------------------
(***************************************************************************)
(* Who said what: the clean stretches of each diarized speaker, the names  *)
(* the voices are given by their likeness to the enrolled profiles, and    *)
(* the speaker of every word, with the gaps filled from its neighbours.    *)
(* Times are whole frames; likenesses and activities are small integers.   *)
(***************************************************************************)
EXTENDS Integers, Sequences, FiniteSets, SequencesExt

CONSTANTS
  Diarizations,       \* sequences of [speaker, start, end]
  Likenesses,         \* cluster -> profile -> the dot product of the two
  Thresholds, Margins,\* what a name takes
  Tracks,             \* frame -> speaker -> 0..2, 2 for heard
  Sentences           \* sequences of words [start, end, ends]

\* A likeness for each profile, from the least there is.
ASSUME SpeakersAssumption ==
  /\ Likenesses \subseteq Seq(Seq(Nat)) \ {<<>>}
  /\ \A like \in Likenesses : \A c \in DOMAIN like : Len(like[c]) = Len(like[1])
  /\ Thresholds \subseteq Int /\ Margins \subseteq Int

VARIABLES spans, named, worded  \* the last answers of clean_spans, match and attribute + smooth

speakersVars == <<spans, named, worded>>

\* clean_spans: a segment is trimmed, and gives up to every other speaker in it the
\* shorter of its two sides.
Trim == 1
Overlaps(o, a, b) == o.start < b /\ o.end > a
LongerSide(o, cut) ==
  IF o.start - cut.a >= cut.b - o.end THEN [a |-> cut.a, b |-> o.start] ELSE [a |-> o.end, b |-> cut.b]
Cut(seg, diarization) ==
  FoldLeft(LAMBDA cut, o : IF o.speaker # seg.speaker /\ Overlaps(o, cut.a, cut.b) THEN LongerSide(o, cut) ELSE cut,
           [a |-> seg.start + Trim, b |-> seg.end - Trim], diarization)
CleanSpans(diarization) ==
  {span \in {[speaker |-> seg.speaker, cut |-> Cut(seg, diarization)] : seg \in ToSet(diarization)} :
     span.cut.b - span.cut.a >= 1}

\* match: pairs from the likeliest down, each voice and each profile taken once, a
\* voice left unnamed whose best is not clear of its next.
Pairs(like) == {[cluster |-> c, name |-> n, score |-> like[c][n]] : c \in DOMAIN like, n \in DOMAIN like[1]}
Before(p, q) == \/ p.score > q.score
                \/ p.score = q.score /\ p.cluster > q.cluster
                \/ p.score = q.score /\ p.cluster = q.cluster /\ p.name > q.name
ClearOfTheRest(like, p, taken, margin) ==
  \A n \in DOMAIN like[p.cluster] \ ({p.name} \union {t.name : t \in taken}) : p.score - like[p.cluster][n] >= margin
Clear(like, p, taken, margin) ==
  \A n \in DOMAIN like[p.cluster] \ {p.name} : p.score - like[p.cluster][n] >= margin
Taking(like, p, taken, threshold, margin) ==
  IF /\ p.score >= threshold
     /\ \A t \in taken : t.cluster # p.cluster /\ t.name # p.name
     /\ Clear(like, p, taken, margin)
  THEN taken \union {p} ELSE taken
Weakest(pairs) == CHOOSE p \in pairs : \A q \in pairs \ {p} : Before(q, p)
Matched(like, threshold, margin) ==
  LET taken[pairs \in SUBSET Pairs(like)] ==
        IF pairs = {} THEN {}
        ELSE Taking(like, Weakest(pairs), taken[pairs \ {Weakest(pairs)}], threshold, margin)
  IN  taken[Pairs(like)]
\* evaluate's outcome: the rule it chooses the threshold and the margin by.
Outcome(likes, threshold, margin) ==
  \E n \in DOMAIN likes : /\ likes[n] >= threshold
                          /\ \A m \in DOMAIN likes \ {n} : likes[n] - likes[m] >= margin

\* attribute: the speaker whose mean activity over the word's frames is above the
\* threshold, unless two were heard in one of them.
Frames(track, w) == {f \in DOMAIN track : f >= w.start /\ f < (IF w.end > w.start THEN w.end ELSE w.start + 1)}
Heard(track, f) == {s \in DOMAIN track[f] : track[f][s] = 2}
Candidates(track, w) == UNION {Heard(track, f) : f \in Frames(track, w)}
Activity(track, frames, s) == MapThenSumSet(LAMBDA f : track[f][s], frames)
Loudest(track, w) ==
  {s \in Candidates(track, w) :
     /\ Activity(track, Frames(track, w), s) > Cardinality(Frames(track, w))
     /\ \A f \in Frames(track, w) : Cardinality(Heard(track, f)) <= 1
     /\ \A r \in DOMAIN track[1] :
          Activity(track, Frames(track, w), r) < Activity(track, Frames(track, w), s)
          \/ (Activity(track, Frames(track, w), r) = Activity(track, Frames(track, w), s) /\ r >= s)}
Word(w, speaker, candidates) ==
  [start |-> w.start, end |-> w.end, ends |-> w.ends, speaker |-> speaker, candidates |-> candidates]
Attributed(track, words) == [i \in DOMAIN words |-> Word(words[i], Loudest(track, words[i]), Candidates(track, words[i]))]

\* smooth: a word nobody was clearly heard in joins the next speaker if it starts a
\* phrase, else the one before, among those who were heard in it.
StartsPhrase(words, i) == i = 1 \/ words[i - 1].ends \/ words[i].start - words[i - 1].end > 0
Nearest(words, range, latest) ==
  LET known == {j \in range : words[j].speaker # {}}
  IN IF known = {} THEN {}
     ELSE words[CHOOSE j \in known : \A k \in known : IF latest THEN k <= j ELSE k >= j].speaker
AnyNeighbour(word, speaker) == speaker # {}
Allowed(word, speaker) == speaker # {} /\ (word.candidates = {} \/ speaker \subseteq word.candidates)
Joined(words, i) ==
  LET before == Nearest(words, 1..(i - 1), TRUE)
      after == Nearest(words, (i + 1)..Len(words), FALSE)
      order == IF StartsPhrase(words, i) THEN <<after, before>> ELSE <<before, after>>
  IN CASE words[i].speaker # {} -> words[i].speaker
       [] words[i].speaker = {} /\ Allowed(words[i], order[1]) -> order[1]
       [] words[i].speaker = {} /\ ~Allowed(words[i], order[1]) /\ Allowed(words[i], order[2]) -> order[2]
       [] OTHER -> {}
Smoothed(words) ==
  FoldLeft(LAMBDA done, i : [j \in DOMAIN words |->
             IF j = i THEN Word(done[i], Joined(done, i), done[i].candidates) ELSE done[j]],
           words, [i \in DOMAIN words |-> i])

\* turns: a sentence is split wherever its speaker changes.
Turns(words) ==
  FoldLeft(LAMBDA out, w : IF out # <<>> /\ Last(Last(out)).speaker = w.speaker
                           THEN [out EXCEPT ![Len(out)] = Append(@, w)] ELSE Append(out, <<w>>),
           <<>>, words)

SpeakersInit == spans = {} /\ named = {} /\ worded = {}
NameSpans(d) == /\ spans' = {[of |-> d, cuts |-> CleanSpans(d)]} /\ named' = {} /\ worded' = {}
NameVoices(like, threshold, margin) ==
  /\ named' = {[like |-> like, threshold |-> threshold, margin |-> margin,
                names |-> Matched(like, threshold, margin)]}
  /\ spans' = {} /\ worded' = {}
NameWords(track, words) ==
  LET given == Smoothed(Attributed(track, words))
  IN worded' = {[track |-> track, words |-> given, turns |-> Turns(given)]} /\ spans' = {} /\ named' = {}
SpeakersNext ==
  /\ spans = {} /\ named = {} /\ worded = {}
  /\ \/ \E d \in Diarizations : NameSpans(d)
     \/ \E like \in Likenesses, threshold \in Thresholds, margin \in Margins : NameVoices(like, threshold, margin)
     \/ \E track \in Tracks, words \in Sentences : NameWords(track, words)
SpeakersSpec == SpeakersInit /\ [][SpeakersNext]_speakersVars

-----------------------------------------------------------------------------
SpeakersTypeOK == \A x \in worded : \A i \in DOMAIN x.words : Cardinality(x.words[i].speaker) <= 1

\* A name is given only to a voice that clears the threshold and beats its next-best by the
\* margin, never to two voices; a voice with such a name goes without it only when one at
\* least as like took it, and alone in its recording it is named exactly when the evaluation
\* that chose the threshold counts it as named.
NamesAreClear ==
  \A x \in named :
    /\ \A p \in x.names : /\ p.score >= x.threshold
                          /\ \A n \in DOMAIN x.like[p.cluster] \ {p.name} : p.score - x.like[p.cluster][n] >= x.margin
                          /\ \A q \in x.names : p # q => p.cluster # q.cluster /\ p.name # q.name
    /\ \A c \in DOMAIN x.like :
         Outcome(x.like[c], x.threshold, x.margin) /\ ~(\E p \in x.names : p.cluster = c) =>
           \A n \in DOMAIN x.like[c] : (\A m \in DOMAIN x.like[c] : x.like[c][m] <= x.like[c][n]) =>
             \E p \in x.names : p.name = n /\ p.score >= x.like[c][n]
\* A stretch a voice is judged by has nobody else talking in it, and a word spoken over
\* another voice is given to nobody who was not heard in it.
VoicesApart ==
  /\ \A x \in spans : \A span \in x.cuts, o \in ToSet(x.of) :
       o.speaker # span.speaker => ~Overlaps(o, span.cut.a, span.cut.b)
  /\ \A x \in worded : \A i \in DOMAIN x.words :
       x.words[i].candidates # {} => x.words[i].speaker \subseteq x.words[i].candidates
  /\ \A x \in worded : FlattenSeq(x.turns) = x.words
                       /\ \A k \in DOMAIN x.turns, i, j \in 1..3 :
                            {i, j} \subseteq DOMAIN x.turns[k] => x.turns[k][i].speaker = x.turns[k][j].speaker

=============================================================================
