--------------------------- MODULE ParserSession ----------------------------
(***************************************************************************)
(* The text search parser as PostgreSQL calls it in one backend: start,    *)
(* get the lexemes one by one, end (jbparser.c, jbparserImpl.cpp).  A      *)
(* session is a ParserState and the vector of words it points to.  The     *)
(* ParserState is palloc'ed: an error ends it.  The vector is new'ed: only *)
(* end_parse deletes it.  Between two calls of a session the caller's      *)
(* dictionary templates may run SQL, so sessions and jiebaparser_reset     *)
(* interleave.                                                             *)
(*                                                                         *)
(* init() is one step here; JiebaShare models it in full.  A text is cut   *)
(* into some tiling of its runes, which is what SentenceCut promises.      *)
(***************************************************************************)
EXTENDS Utf8, FiniteSets

CONSTANTS
  Sessions,      \* identities of ParserStates
  Vectors,       \* addresses of TParseWd objects
  CodeTexts,     \* texts in UTF-8, as sequences of code points
  ByteTexts,     \* other texts, as sequences of bytes
  Dictionaries,  \* functions from words (bytes) to tags
  Null,
  MaxResets,     \* bound: calls of jiebaparser_reset
  MaxErrors      \* bound: sessions ended by an error

ParserState == [wordVct: Vectors, size: Nat, pos: Nat]

ASSUME SessionAssumption ==
  /\ Null \notin Dictionaries \cup ParserState
  /\ \A cs \in CodeTexts : cs \in Seq(CodePoint)
  /\ \A bytes \in ByteTexts : bytes \in Seq(Byte)
  /\ MaxResets \in Nat /\ MaxErrors \in Nat

VARIABLES
  files,    \* what init() would load, Null if it would fail
  gInited, gJiaba,
  heap,     \* the words of each TParseWd that is allocated
  pst,      \* per session, its ParserState, Null if it has none
  call,     \* per session, what was asked: the text and its words
  got,      \* per session, the lexemes delivered
  ended,    \* sessions that were told that there is no more
  cutOff,   \* sessions that were open when a reset failed
  resets, errors

vars == <<files, gInited, gJiaba, heap, pst, call, got, ended, cutOff,
          resets, errors>>

-----------------------------------------------------------------------------
(* Types of tokens.                                                        *)

lex_descr == <<
  "eng", "nz", "n", "m", "i", "l", "d", "s", "t", "mq", "nr", "j", "a", "r",
  "b", "f", "nrt", "v", "z", "ns", "q", "vn", "c", "nt", "u", "o", "zg", "nrfg",
  "df", "p", "g", "y", "ad", "vg", "ng", "x", "ul", "k", "ag", "dg", "rr", "rg",
  "an", "vq", "e", "uv", "tg", "mg", "ud", "vi", "vd", "uj", "uz", "h", "ug", "rz">>

\* parse_init: lex_descr_map, the type of a token
TypeOf(token) == 100 + CHOOSE k \in 1..Len(lex_descr) : lex_descr[k] = token

Tokens == {lex_descr[k] : k \in 1..Len(lex_descr)}

\* load_lextype: the types PostgreSQL knows of
LexTypes == {TypeOf(t) : t \in Tokens}

\* PosTagger::SpecialRule: of the ASCII runes, the first half of the word's length
SpecialRule(runes) ==
  LET ascii == SelectSeq(runes, LAMBDA r : r.rune < 128)
      half  == Len(runes) \div 2
      eng   == SubSeq(ascii, 1, IF Len(ascii) < half THEN Len(ascii) ELSE half)
  IN  IF eng = <<>> THEN "x"
      ELSE IF \A k \in 1..Len(eng) : eng[k].rune \in 48..57 THEN "m" ELSE "eng"

\* PosTagger::LookupTag: the dictionary's tag, if the word is there and has one
LookupTag(word, dict) ==
  IF ~DecodeRunes(word).ok THEN "x"
  ELSE IF word \in DOMAIN dict /\ dict[word] # "" THEN dict[word]
       ELSE SpecialRule(DecodeRunes(word).runes)

\* Faulty: a tag that is not in the table keeps type's first value.
TypeMinusOne(tag) == IF tag \in Tokens THEN TypeOf(tag) ELSE -1

\* get_word: a tag that is not in the table has type 'x', the character
LexemeType(tag) == IF tag \in Tokens THEN TypeOf(tag) ELSE 120

-----------------------------------------------------------------------------
(* Words.                                                                  *)

\* QuerySegment: the dictionary words of len runes inside w
Short(text, runes, w, len, dict) ==
  LET all == [k \in 1..Length(w)-len+1 |->
                GetWord(text, runes, WordRange(w.left + k - 1, w.left + k + len - 2))]
  IN  IF Length(w) > len THEN Selected(all, {k \in DOMAIN all : all[k] \in DOMAIN dict})
                         ELSE <<>>

\* GetWordsFromWordRanges, of the ranges of Cut or of CutForSearch
Words(text, ws, dict, query) ==
  LET runes == DecodeRunes(text).runes
      short(w) == IF query THEN Short(text, runes, w, 2, dict) \o Short(text, runes, w, 3, dict)
                           ELSE <<>>
  IN  Concat([k \in 1..Len(ws) |-> Append(short(ws[k]), GetWord(text, runes, ws[k]))])

\* a text that does not decode has no words
Cuts(text, dict, query) ==
  {Words(text, ws, dict, query) : ws \in Tilings(0, Len(DecodeRunes(text).runes))}

-----------------------------------------------------------------------------
Utf8Texts == {EncodeText(cs) : cs \in CodeTexts}

Texts == Utf8Texts \cup ByteTexts

Open == {s \in Sessions : pst[s] # Null}

Init ==
  /\ files \in Dictionaries
  /\ gInited = FALSE /\ gJiaba = Null
  /\ heap = <<>>
  /\ pst = [s \in Sessions |-> Null]
  /\ call = [s \in Sessions |-> Null]
  /\ got = [s \in Sessions |-> <<>>]
  /\ ended = {} /\ cutOff = {}
  /\ resets = 0 /\ errors = 0

\* Faulty: gInited is not touched when init() fails.
LoadKeepsFlag == gJiaba' = files /\ gInited' = (gInited \/ files # Null)

\* init(): parse_init succeeds or leaves no parser
Load == gJiaba' = files /\ gInited' = (files # Null)

\* init_parse_state; without a parser wordVct is left as palloc returned it
InitParseState(s, text, query, dict) ==
  IF dict = Null
  THEN /\ \E v \in Vectors : pst' = [pst EXCEPT ![s] = [wordVct |-> v, size |-> 0, pos |-> 0]]
       /\ call' = [call EXCEPT ![s] = [text |-> text, query |-> query, words |-> <<>>]]
       /\ UNCHANGED heap
  ELSE \E v \in Vectors, words \in Cuts(text, dict, query) :
         /\ v \notin DOMAIN heap
         /\ heap' = [u \in DOMAIN heap \cup {v} |-> IF u = v THEN words ELSE heap[u]]
         /\ pst' = [pst EXCEPT ![s] = [wordVct |-> v, size |-> Len(words), pos |-> 0]]
         /\ call' = [call EXCEPT ![s] = [text |-> text, query |-> query, words |-> words]]

\* jbprs_start, jbprs_start_q; where init(0) fails its error leaves all as it was
Start(s, text, query) ==
  /\ s \notin Open
  /\ IF gInited THEN UNCHANGED <<gJiaba, gInited>> ELSE files # Null /\ Load
  /\ InitParseState(s, text, query, gJiaba')
  /\ UNCHANGED <<files, got, ended, cutOff, resets, errors>>

\* jbprs_lextype
LexType ==
  /\ ~gInited /\ files # Null
  /\ Load
  /\ UNCHANGED <<files, heap, pst, call, got, ended, cutOff, resets, errors>>

\* Faulty: the position is not looked at.
GetWordUnbounded(s) ==
  /\ s \in Open \ ended
  /\ LET p    == pst[s]
         word == heap[p.wordVct][1]
     IN  /\ p.size > 0
         /\ got' = [got EXCEPT ![s] = Append(@, [word |-> word, type |-> LexemeType(LookupTag(word, gJiaba))])]
         /\ pst' = [pst EXCEPT ![s].pos = @ + 1]
  /\ UNCHANGED <<files, gInited, gJiaba, heap, call, ended, cutOff, resets, errors>>

\* jbprs_getlexeme: the next word and the type of its tag in the dictionary of
\* now, or type 0: that was all, or there is no parser any more
GetLexeme(s) ==
  /\ s \in Open \ ended
  /\ LET p    == pst[s]
         word == heap[p.wordVct][p.pos + 1]
     IN  IF gJiaba = Null \/ p.pos >= p.size
         THEN ended' = ended \cup {s} /\ UNCHANGED <<pst, got>>
         ELSE /\ got' = [got EXCEPT ![s] = Append(@,
                  [word |-> word, type |-> LexemeType(LookupTag(word, gJiaba))])]
              /\ pst' = [pst EXCEPT ![s].pos = @ + 1]
              /\ UNCHANGED ended
  /\ UNCHANGED <<files, gInited, gJiaba, heap, call, cutOff, resets, errors>>

\* the ParserState is gone: pfree, or the end of its memory context
Forget(s) ==
  /\ pst' = [pst EXCEPT ![s] = Null]
  /\ call' = [call EXCEPT ![s] = Null]
  /\ got' = [got EXCEPT ![s] = <<>>]
  /\ ended' = ended \ {s}
  /\ cutOff' = cutOff \ {s}

\* Faulty: the vector is not deleted.
EndLeaks(s) ==
  /\ s \in ended
  /\ Forget(s)
  /\ UNCHANGED <<files, gInited, gJiaba, heap, resets, errors>>

\* jbprs_end, which PostgreSQL calls when it has got type 0
End(s) ==
  /\ s \in ended
  /\ heap' = [v \in DOMAIN heap \ {pst[s].wordVct} |-> heap[v]]
  /\ Forget(s)
  /\ UNCHANGED <<files, gInited, gJiaba, resets, errors>>

\* an error in the caller, in one of its dictionary templates for instance
Error(s) ==
  /\ errors < MaxErrors
  /\ s \in Open
  /\ errors' = errors + 1
  /\ Forget(s)
  /\ UNCHANGED <<files, gInited, gJiaba, heap, resets>>

\* jiebaparser_reset: parse_uninit(), init(1); an error of it may be caught
Reset ==
  /\ resets < MaxResets
  /\ resets' = resets + 1
  /\ Load
  /\ cutOff' = IF files = Null THEN Open ELSE cutOff
  /\ UNCHANGED <<files, heap, pst, call, got, ended, errors>>

ReplaceFiles ==
  /\ files' \in (Dictionaries \cup {Null}) \ {files}
  /\ UNCHANGED <<gInited, gJiaba, heap, pst, call, got, ended, cutOff, resets, errors>>

Next ==
  \/ \E s \in Sessions, text \in Texts, query \in BOOLEAN : Start(s, text, query)
  \/ \E s \in Sessions : GetLexeme(s) \/ End(s) \/ Error(s)
  \/ LexType \/ Reset \/ ReplaceFiles

Spec == Init /\ [][Next]_vars

-----------------------------------------------------------------------------
\* Every variable stays in its domain.
TypeOK ==
  /\ files \in Dictionaries \cup {Null} /\ gJiaba \in Dictionaries \cup {Null}
  /\ gInited \in BOOLEAN
  /\ DOMAIN heap \subseteq Vectors
  /\ \A v \in DOMAIN heap : heap[v] \in Seq(Seq(Byte))
  /\ pst \in [Sessions -> ParserState \cup {Null}]
  /\ \A s \in Open : pst[s].pos \in 0..pst[s].size
  /\ ended \subseteq Open /\ cutOff \subseteq Open
  /\ resets \in 0..MaxResets /\ errors \in 0..MaxErrors

\* The pointer a ParserState has never been given a value for, or that of a deleted
\* or of another session's vector, is never used: an open session points to its
\* own words, though gInited, gJiaba and the sessions change independently.
OwnWords ==
  /\ \A s \in Open : /\ pst[s].wordVct \in DOMAIN heap
                     /\ heap[pst[s].wordVct] = call[s].words
  /\ \A s, t \in Open : pst[s].wordVct = pst[t].wordVct => s = t

\* The caller gets the words of its text in their order, each once, and is told
\* that there are no more only after the last: unless a reset failed meanwhile,
\* which ends all open sessions early and without an error.
InOrder ==
  \A s \in Open :
    /\ Len(got[s]) <= Len(call[s].words)
    /\ \A k \in 1..Len(got[s]) : got[s][k].word = call[s].words[k]
    /\ s \in ended \ cutOff => Len(got[s]) = Len(call[s].words)

\* A text that is UTF-8 is decoded to its code points: encoded they are the text.
DecodedRight ==
  \A s \in Open : call[s].text \in Utf8Texts =>
    LET runes == DecodeRunes(call[s].text).runes
    IN  EncodeText([k \in 1..Len(runes) |-> runes[k].rune]) = call[s].text

\* No byte of a text gets lost between decoding it, cutting its runes and cutting
\* its bytes at the words' ends; of a text that does not decode nothing is left.
BytesKept ==
  \A s \in Open : LET c == call[s] IN
    IF DecodeRunes(c.text).ok
    THEN ~c.query => Concat(c.words) = c.text
    ELSE c.words = <<>>

\* Every type handed to PostgreSQL is one that jbprs_lextype told it of, though the
\* tag comes from a dictionary that may have been replaced since the cut, and 'x'
\* for tags outside of the table is a character.
TypesDeclared ==
  \A s \in Open : \A k \in 1..Len(got[s]) : got[s][k].type \in LexTypes

\* Memory is only lost by errors: as many vectors are allocated as sessions are
\* open or were ended by an error.
LeaksBounded ==
  Cardinality(DOMAIN heap) = Cardinality(Open) + errors
=============================================================================
