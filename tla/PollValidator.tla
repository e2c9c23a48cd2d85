---------------------------- MODULE PollValidator ----------------------------
(***************************************************************************)
(* CreatePollRequest.Validate: the options of a new poll, from their texts *)
(* to the identifiers that votes and counters are kept under.  A text is a *)
(* sequence of symbols.                                                    *)
(***************************************************************************)
EXTENDS Integers, Sequences, FiniteSets, SequencesExt, FiniteSetsExt

CONSTANT Symbols  \* what texts are written in

ASSUME SymbolsAssumption == {"a", "-", "x", "id:"} \subseteq Symbols

MinOptions == 2
MaxOptions == 10

Text == Seq(Symbols)

\* The one upper-case letter of the model's texts.
ToLower(t) == [i \in DOMAIN t |-> IF t[i] = "A" THEN "a" ELSE t[i]]

TrimSpace(t) ==
    LET ink == {i \in DOMAIN t : t[i] # " "}
    IN IF ink = {} THEN <<>> ELSE SubSeq(t, Min(ink), Max(ink))

Slug(t) == ToLower([i \in DOMAIN t |-> IF t[i] = " " THEN "-" ELSE t[i]])

\* The keys of `seen`: one map for texts and, behind a prefix, for identifiers.
TextKey(t) == ToLower(t)
IdKey(id) == <<"id:">> \o id

\* The identifier of the option in place i, counted from 0: it is not looked up
\* again once it has its suffix.
Suffixed(id, seen, i) ==
    IF IdKey(id) \in seen THEN id \o <<"-">> \o [k \in 1 .. i |-> "x"] ELSE id

\* One pass of the loop, over the text of the option in place i.
Pass(text, i, before) ==
    LET seen == before.seen \cup {TextKey(text)}
        id == Suffixed(Slug(text), seen, i)
    IN IF ~before.ok \/ text = <<>> \/ TextKey(text) \in before.seen
       THEN [before EXCEPT !.ok = FALSE]
       ELSE [ok |-> TRUE, seen |-> seen \cup {IdKey(id)}, ids |-> Append(before.ids, id)]

\* The loop: what is known after the first n options.
Loop(texts) ==
    LET after[n \in 0 .. Len(texts)] ==
          IF n = 0 THEN [ok |-> TRUE, seen |-> {}, ids |-> <<>>]
          ELSE Pass(TrimSpace(texts[n]), n - 1, after[n - 1])
    IN after[Len(texts)]

\* The browser sends no identifiers; a refused request has no options.
Validate(texts) ==
    IF Len(texts) \in MinOptions .. MaxOptions /\ Loop(texts).ok
    THEN Loop(texts).ids ELSE <<>>

\* Options differ in their texts, and where two were given one identifier, exactly
\* one of them got it by a suffix.
NearlyUnique(texts, ids) ==
    LET suffixed == {i \in DOMAIN ids : ids[i] # Slug(TrimSpace(texts[i]))}
    IN \A i, j \in DOMAIN ids :
          i # j => /\ ToLower(TrimSpace(texts[i])) # ToLower(TrimSpace(texts[j]))
                   /\ ids[i] = ids[j] => (i \in suffixed) # (j \in suffixed)
=============================================================================
