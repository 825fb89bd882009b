---------------------------- MODULE MCTokenizer ------------------------------
EXTENDS Tokenizer

\* A few characters of each kind: e and A with marks of three classes and what
\* they compose to, a singleton, a mark that is two, an excluded composite, Hangul.
Acute == 769
Circumflex == 770
Breve == 774
Diaeresis == 776
Ring == 778
DotBelow == 803
Cedilla == 807
Nukta == 2364
MCLetter == {197, 233, 383, 553, 2325, 2392, 7709, 7865, 7879, 8491, 4352, 4449, 4520, 44032, 44033, 20013}
MCNumber == {178, 1632}
MCCcc == (Acute :> 230) @@ (Circumflex :> 230) @@ (Breve :> 230) @@ (Diaeresis :> 230) @@ (Ring :> 230)
         @@ (DotBelow :> 220) @@ (Cedilla :> 202) @@ (Nukta :> 7) @@ (836 :> 230)
MCCompose == (<<101, Acute>> :> 233) @@ (<<101, Cedilla>> :> 553) @@ (<<553, Breve>> :> 7709)
             @@ (<<101, DotBelow>> :> 7865) @@ (<<7865, Circumflex>> :> 7879) @@ (<<65, Ring>> :> 197)
MCDecomp == [c \in Range(MCCompose) |-> CHOOSE p \in DOMAIN MCCompose : MCCompose[p] = c]
            @@ (8491 :> <<197>>) @@ (836 :> <<Diaeresis, Acute>>) @@ (2392 :> <<2325, Nukta>>)
MCOther == {0, 1, 11, 133, 8203}
MCMark == DOMAIN MCCcc
MCPunct == {8211}
MCLower == (65 :> <<97>>) @@ (197 :> <<229>>) @@ (304 :> <<105, 775>>)

Bl == [type |-> "ByteLevel", use_regex |-> TRUE, prefix |-> FALSE]
Spacing == [Bl EXCEPT !.prefix = TRUE]
Plain == [Bl EXCEPT !.use_regex = FALSE]
Digits(individual) == [type |-> "Digits", individual |-> individual]
Qwen2 == [type |-> "Split"]
StepLists == {<<Bl>>, <<Spacing>>, <<Digits(TRUE), Bl>>, <<Digits(FALSE), Spacing>>, <<Qwen2, Plain>>,
              <<Qwen2, Bl>>, <<Plain>>, <<Digits(TRUE), Qwen2, Plain>>, <<Digits(TRUE), Digits(FALSE), Bl>>, <<Bl, Digits(TRUE)>>}

Key(b) == [i \in DOMAIN b |-> byte_to_cp[b[i]]]
Entries(list) == [i \in DOMAIN list |-> [id |-> i - 1, key |-> Key(list[i])]]
Added(id, content, special, normalized) == [id |-> id, content |-> content, special |-> special, normalized |-> normalized]
Bpe1(vocab, merges, added, steps, nfc, ignore, typed, limit) ==
  [wordpiece |-> FALSE, supported |-> TRUE, vocab |-> Entries(vocab), merges |-> [i \in DOMAIN merges |-> <<Key(merges[i][1]), Key(merges[i][2])>>],
   added |-> added, steps |-> steps, nfc |-> nfc, ignore_merges |-> ignore, typed |-> typed, limit |-> limit]
Single(set) == {<<x>> : x \in set}
Listed(set) == FoldSet(LAMBDA x, s : Append(s, x), <<>>, set)
Chars(set) == {utf8_encode(c) : c \in set}

\* Merges that overlap, in several orders, one pair twice.
a == <<97>>
b == <<98>>
c == <<99>>
Strings1 == <<a, b, c, a \o b, b \o c, a \o b \o c, a \o a, a \o a \o a, b \o a>>
Pairs == {<<a, b>>, <<b, c>>, <<a, b \o c>>, <<a \o b, c>>, <<a, a>>, <<a \o a, a>>, <<a, a \o a>>, <<b, a>>}
Orders == {<<p, q, r, s>> : p \in {<<b, c>>, <<a, a>>}, q \in {<<a, b>>, <<a, a>>, <<b, a>>}, r \in Pairs, s \in {<<a, b>>, <<a, b \o c>>, <<a, a \o a>>}}
Merging == {Bpe1(Strings1, o, <<>>, <<Bl>>, FALSE, FALSE, Single({97, 98, 99}), 5) : o \in Orders}
           \cup {Bpe1(SubSeq(Strings1, 1 + drop, 9), <<>>, <<>>, <<Bl>>, FALSE, TRUE, Single({97, 98, 99}), 5) : drop \in {0, 1}}
           \cup {Bpe1(SubSeq(Strings1, 1, 3), <<<<a, b>>>>, <<>>, <<Bl>>, FALSE, FALSE, Single({97}), 2)}

\* Text of every class for the patterns.
Splitting == {Bpe1(<<<<32>>, a>>, <<>>, <<>>, steps, FALSE, FALSE, Chars({39, 115, 32, 10, 49, 33}), 4) : steps \in StepLists}
             \cup {Bpe1(<<<<32>>, a>>, <<>>, <<>>, steps, FALSE, FALSE, Chars({32, 9, 10, 33, 97}), 5) : steps \in {<<Bl>>, <<Qwen2, Plain>>}}
             \cup {Bpe1(<<<<32>>, a>>, <<>>, <<>>, steps, FALSE, FALSE, Chars({39, 76, 108, 383, 178, 82, 101}), 5) :
                     steps \in {<<Bl>>, <<Qwen2, Plain>>, <<Digits(TRUE), Bl>>}}

\* Marks in any order, with added tokens of either kind; every byte has a token.
Every == Listed(UNION {Single(Range(utf8_encode(x))) : x \in MCLetter \cup MCMark \cup {65, 101}})
Normal == {Bpe1(Every, <<>>, added, <<Qwen2, Plain>>, TRUE, FALSE, Chars({101, Acute, Circumflex, Cedilla, DotBelow, 233}), 8) :
             added \in {<<>>, <<Added(50, <<101, 101>>, TRUE, FALSE), Added(51, utf8_encode(233), FALSE, TRUE)>>}}
          \cup {Bpe1(Every, <<>>, <<>>, <<Qwen2, Plain>>, TRUE, FALSE, Chars({4352, 4449, 4520, 44032}), 9),
                Bpe1(Every, <<>>, <<>>, <<Qwen2, Plain>>, TRUE, FALSE, Chars({553, 7709, Breve, 836, 8491, 65, Ring, 2392, Nukta}), 6)}
Overlapping == {Bpe1(<<a, b, <<60>>, <<62>>>>, <<>>, <<Added(10, <<60, 97>>, TRUE, FALSE), Added(11, <<60, 97, 62>>, TRUE, FALSE),
                       Added(12, <<97, 98>>, FALSE, TRUE), Added(2, <<60>>, FALSE, TRUE)>>, <<Bl>>, FALSE, FALSE, Single({97, 98, 60, 62}), 6)}

\* Bytes of every kind UTF-8 tells apart.
Raw == {Bpe1(<<>>, <<>>, <<>>, <<Bl>>, FALSE, FALSE, Single({65, 128, 144, 160, 194, 224, 237, 240, 244, 245}), 4)}

\* WordPiece: entries that overlap, words too long, and what is around the text.
Bert(clean, accents, post, added, typed) ==
  [wordpiece |-> TRUE, vocab |-> [i \in 1 .. 9 |-> [id |-> i, content |->
     <<<<91, 85, 93>>, a, a \o b, <<35, 35>> \o b, <<35, 35>> \o a, <<35, 35>> \o b \o a, <<45>>, utf8_encode(20013), <<35, 35>> \o utf8_encode(233)>>[i]]],
   normalizer |-> [clean_text |-> clean, chinese |-> TRUE, lowercase |-> TRUE, strip_accents |-> accents],
   unk |-> <<91, 85, 93>>, prefix |-> <<35, 35>>, max_word |-> 4, post |-> post, added |-> added, nfc |-> FALSE,
   typed |-> Chars(typed), limit |-> 5]
Around == <<[text |-> FALSE, ids |-> <<20>>], [text |-> TRUE, ids |-> <<>>], [text |-> FALSE, ids |-> <<1>>]>>
Sep == Added(20, <<91, 83>>, TRUE, FALSE)
Words1 == {Bert(TRUE, "null", <<>>, <<>>, {97, 98, 45, 32, 65}), Bert(TRUE, "false", <<>>, <<>>, {97, 233, Acute, 11, 20013, 133}),
           Bert(FALSE, "true", <<>>, <<>>, {97, 304, Acute, 8211, 9, 0}), Bert(TRUE, "null", Around, <<Sep>>, {97, 91, 83}),
           Bert(TRUE, "null", Around, <<>>, {97})}

MCFiles == Merging \cup Splitting \cup Normal \cup Overlapping \cup Raw \cup Words1
MCTyped(f) == f.typed

\* A token whose content NFC makes shorter.
ShortenedFiles == {Bpe1(<<<<101>>, <<97>>>>, <<>>, <<Added(20, <<97, 101>> \o utf8_encode(Acute), FALSE, TRUE)>>, <<Qwen2, Plain>>, TRUE, FALSE,
                        Chars({101, 97, Acute}), 4)}
=============================================================================
