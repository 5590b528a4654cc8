---------------------------- MODULE KeyspaceProofs ----------------------------
(***************************************************************************)
(* The key space for any requests, numbers and times: ranges, bits, expiry  *)
(* and refusals.                                                            *)
(***************************************************************************)
EXTENDS Keyspace, TLAPS, FiniteSetTheorems, SequenceTheorems

-----------------------------------------------------------------------------
(***************************************************************************)
(* What the builder makes of a request of this module's commands.           *)
(***************************************************************************)

\* The bytes of words, and words: those of requests, those of numbers and those the
\* builder spells out (the provers do not know that a literal is a STRING).
Byte == STRING \cup {WordOf(n)[1] : n \in Int} \cup {"GET", "COUNT", "OR", "BYTE", "BIT"}
Word == Seq(Byte)

\* What an argument is parsed as.
Kind == {"str", "i64", "u64", "f64"}

\* The items of an array of words.
Items(ws) == [i \in DOMAIN ws |-> BulkStr(ws[i])]

\* A sequence of one.
LEMMA OneIsSeq ==
    \A x, S : x \in S => <<x>> \in Seq(S) /\ <<x>>[1] = x
OBVIOUS

\* A number is written as a word.
LEMMA NumbersAreWords ==
    ASSUME NEW n \in Int
    PROVE  WordOf(n) \in Word
<1>1. WordOf(n) = <<WordOf(n)[1]>>
  BY OneIsSeq, Zenon DEF WordOf
<1>2. WordOf(n)[1] \in Byte
  BY DEF Byte
<1> QED BY <1>1, <1>2, OneIsSeq DEF Word

\* A word that parses as a number is read as the number it is written for.
LEMMA ReadNumber ==
    ASSUME NEW w \in DOMAIN NumberOf
    PROVE  /\ NumberOf[w] \in Numbers /\ NumberOf[w] \in Int
           /\ WordOf(NumberOf[w]) = w
BY CmdBuilderAssumption DEF NumberOf

\* The words of a request are words of the model.
LEMMA RequestWords ==
    ASSUME NEW words \in Requests
    PROVE  /\ words \in Seq(Word) /\ words # <<>>
           /\ Tail(words) \in Seq(Word) /\ words[1] \in Word
           /\ Len(Tail(words)) = Len(words) - 1
           /\ \A i \in 1..Len(Tail(words)) : Tail(words)[i] = words[i + 1]
<1>1. Seq(STRING) \subseteq Word
  BY SeqMonotonic DEF Byte, Word
<1>2. words \in Seq(Word) /\ words # <<>>
  BY <1>1, RequestsAssumption
<1> QED BY <1>2

\* An array of words, taken apart.
LEMMA ItemsOfWords ==
    ASSUME NEW ws \in Seq(Word)
    PROVE  /\ Len(Items(ws)) = Len(ws) /\ DOMAIN Items(ws) = 1..Len(ws)
           /\ \A i \in 1..Len(ws) :
                 /\ Items(ws)[i].type = "BulkStr" /\ Items(ws)[i].value = ws[i]
                 /\ Items(ws)[i].length = Len(ws[i])
           /\ Items(ws) \in Seq({BulkStr(w) : w \in Word})
BY DEF Items, BulkStr, Resp

\* The items after the name are those of the words after it.
LEMMA TailOfItems ==
    ASSUME NEW ws \in Seq(Word), ws # <<>>
    PROVE  Tail(Items(ws)) = Items(Tail(ws)) /\ Head(Items(ws)) = BulkStr(ws[1])
<1>1. Tail(ws) \in Seq(Word) /\ Len(Tail(ws)) = Len(ws) - 1 /\ Len(ws) \in Nat \ {0}
  OBVIOUS
<1>2. Items(ws) \in Seq({BulkStr(w) : w \in Word}) /\ Len(Items(ws)) = Len(ws)
  BY ItemsOfWords
<1>3. Items(Tail(ws)) \in Seq({BulkStr(w) : w \in Word}) /\ Len(Items(Tail(ws))) = Len(ws) - 1
  BY <1>1, ItemsOfWords
<1>4. /\ Tail(Items(ws)) \in Seq({BulkStr(w) : w \in Word}) /\ Len(Tail(Items(ws))) = Len(ws) - 1
      /\ \A i \in 1..Len(ws) - 1 : Tail(Items(ws))[i] = Items(ws)[i + 1]
  BY <1>1, <1>2
<1>5. \A i \in 1..Len(ws) - 1 : Items(ws)[i + 1] = BulkStr(ws[i + 1])
  BY <1>1 DEF Items
<1>6. \A i \in 1..Len(ws) - 1 : Items(Tail(ws))[i] = BulkStr(Tail(ws)[i])
  BY <1>1 DEF Items
<1>7. \A i \in 1..Len(ws) - 1 : Tail(ws)[i] = ws[i + 1]
  BY <1>1
<1>8. \A i \in 1..Len(Tail(Items(ws))) : Tail(Items(ws))[i] = Items(Tail(ws))[i]
  BY <1>1, <1>4, <1>5, <1>6, <1>7
<1>9. Tail(Items(ws)) = Items(Tail(ws))
  BY <1>3, <1>4, <1>8, SeqEqual
<1>10. Head(Items(ws)) = BulkStr(ws[1])
  BY <1>1, <1>2 DEF Items
<1> QED BY <1>9, <1>10

\* The rest of a sequence after n items.
LEMMA RestOfSeq ==
    ASSUME NEW S, NEW s \in Seq(S), NEW n \in Nat, n <= Len(s)
    PROVE  /\ SubSeq(s, n + 1, Len(s)) \in Seq(S)
           /\ Len(SubSeq(s, n + 1, Len(s))) = Len(s) - n
           /\ \A i \in 1..Len(s) - n : SubSeq(s, n + 1, Len(s))[i] = s[n + i]
BY SubSeqProperties

\* The arguments that were popped and the items that are left.
LEMMA PoppedItems ==
    ASSUME NEW ws \in Seq(Word), NEW n \in Nat, n <= Len(ws)
    PROVE  /\ Words(SubSeq(Items(ws), 1, n)) = SubSeq(ws, 1, n)
           /\ SubSeq(Items(ws), n + 1, Len(Items(ws))) = Items(SubSeq(ws, n + 1, Len(ws)))
           /\ Words(Items(ws)) = ws
           /\ SubSeq(ws, 1, n) \in Seq(Word) /\ Len(SubSeq(ws, 1, n)) = n
           /\ SubSeq(ws, n + 1, Len(ws)) \in Seq(Word)
           /\ Len(SubSeq(ws, n + 1, Len(ws))) = Len(ws) - n
           /\ \A i \in 1..n : SubSeq(ws, 1, n)[i] = ws[i]
           /\ \A i \in 1..Len(ws) - n : SubSeq(ws, n + 1, Len(ws))[i] = ws[n + i]
<1> DEFINE S == {BulkStr(w) : w \in Word}
           head == SubSeq(ws, 1, n)
           rest == SubSeq(ws, n + 1, Len(ws))
<1>1. /\ Items(ws) \in Seq(S) /\ Len(Items(ws)) = Len(ws) /\ Len(ws) \in Nat
      /\ DOMAIN Items(ws) = 1..Len(ws)
  BY ItemsOfWords
<1>2. /\ head \in Seq(Word) /\ Len(head) = n /\ \A i \in 1..n : head[i] = ws[i]
  OBVIOUS
<1>3. /\ rest \in Seq(Word) /\ Len(rest) = Len(ws) - n
      /\ \A i \in 1..Len(ws) - n : rest[i] = ws[n + i]
  BY RestOfSeq
<1>4. \A i \in 1..Len(ws) : Items(ws)[i] = BulkStr(ws[i]) /\ Items(ws)[i].value = ws[i]
  BY ItemsOfWords DEF Items
<1> HIDE DEF S, head, rest
<1>5. /\ SubSeq(Items(ws), 1, n) \in Seq(S) /\ Len(SubSeq(Items(ws), 1, n)) = n
      /\ DOMAIN SubSeq(Items(ws), 1, n) = 1..n
      /\ \A i \in 1..n : SubSeq(Items(ws), 1, n)[i] = Items(ws)[i]
  BY <1>1
<1>6. Words(SubSeq(Items(ws), 1, n)) = head
  <2>1. Words(SubSeq(Items(ws), 1, n)) = [i \in 1..n |-> ws[i]]
    BY <1>1, <1>4, <1>5 DEF Words
  <2>2. head = [i \in 1..n |-> ws[i]]
    BY <1>2
  <2> QED BY <2>1, <2>2
<1>7. Words(Items(ws)) = ws
  BY <1>1, <1>4 DEF Words
<1>8. /\ SubSeq(Items(ws), n + 1, Len(ws)) \in Seq(S)
      /\ Len(SubSeq(Items(ws), n + 1, Len(ws))) = Len(ws) - n
      /\ \A i \in 1..Len(ws) - n : SubSeq(Items(ws), n + 1, Len(ws))[i] = Items(ws)[n + i]
  <2>1. n <= Len(Items(ws))
    BY <1>1
  <2> DEFINE m == Len(Items(ws))
  <2>2. /\ SubSeq(Items(ws), n + 1, m) \in Seq(S)
        /\ Len(SubSeq(Items(ws), n + 1, m)) = m - n
        /\ \A i \in 1..m - n : SubSeq(Items(ws), n + 1, m)[i] = Items(ws)[n + i]
    BY <1>1, <2>1, RestOfSeq
  <2>3. m = Len(ws)
    BY <1>1
  <2> HIDE DEF m
  <2> QED BY <2>2, <2>3
<1>9. /\ Items(rest) \in Seq(S) /\ Len(Items(rest)) = Len(ws) - n
      /\ \A i \in 1..Len(ws) - n : Items(rest)[i] = BulkStr(rest[i])
  BY <1>3, ItemsOfWords DEF S, Items
<1>10. SubSeq(Items(ws), n + 1, Len(ws)) = Items(rest)
  <2>1. \A i \in 1..Len(ws) - n : SubSeq(Items(ws), n + 1, Len(ws))[i] = Items(rest)[i]
    <3> SUFFICES ASSUME NEW i \in 1..Len(ws) - n
                 PROVE  SubSeq(Items(ws), n + 1, Len(ws))[i] = Items(rest)[i]
      OBVIOUS
    <3>1. n + i \in 1..Len(ws)
      BY <1>1
    <3> QED BY <3>1, <1>3, <1>4, <1>8, <1>9
  <2> QED BY <1>8, <1>9, <2>1, SeqEqual
<1> QED BY <1>1, <1>2, <1>3, <1>6, <1>7, <1>10 DEF head, rest

\* Arguments that are not refused are there and parse.
LEMMA NotRefused ==
    ASSUME NEW ws \in Seq(Word), NEW kinds \in Seq(Kind), Refused(Items(ws), kinds) = {}
    PROVE  Len(kinds) <= Len(ws) /\ \A i \in 1..Len(kinds) : Parses(ws[i], kinds[i])
<1>1. Len(Items(ws)) = Len(ws) /\ Len(ws) \in Nat /\ Len(kinds) \in Nat /\ DOMAIN kinds = 1..Len(kinds)
  <2>1. Len(ws) \in Nat /\ Len(kinds) \in Nat /\ DOMAIN kinds = 1..Len(kinds)
    OBVIOUS
  <2> QED BY <2>1, ItemsOfWords
<1>2. \A i \in DOMAIN kinds : ~(i > Len(Items(ws))) /\ Parses(Items(ws)[i].value, kinds[i])
  BY DEF Refused
<1>3. Len(kinds) <= Len(ws)
  <2>1. CASE Len(kinds) = 0
    BY <1>1, <2>1
  <2>2. CASE Len(kinds) \in 1..Len(kinds)
    BY <1>1, <1>2, <2>2
  <2> QED BY <1>1, <2>1, <2>2
<1>4. \A i \in 1..Len(kinds) : Items(ws)[i].value = ws[i]
  <2>1. \A i \in 1..Len(kinds) : i \in 1..Len(ws)
    BY <1>1, <1>3
  <2> QED BY <2>1, ItemsOfWords
<1> QED BY <1>1, <1>2, <1>3, <1>4

\* The arguments of a signature, popped from the words of a request.
LEMMA PoppedArgs ==
    ASSUME NEW ws \in Seq(Word), NEW kinds \in Seq(Kind), Refused(Items(ws), kinds) = {},
           NEW n, n = Len(kinds)
    PROVE  /\ Words(SubSeq(Items(ws), 1, n)) = SubSeq(ws, 1, n)
           /\ SubSeq(Items(ws), n + 1, Len(Items(ws))) = Items(SubSeq(ws, n + 1, Len(ws)))
           /\ n \in Nat /\ n <= Len(ws) /\ Len(ws) \in Nat
           /\ SubSeq(ws, 1, n) \in Seq(Word) /\ Len(SubSeq(ws, 1, n)) = n
           /\ SubSeq(ws, n + 1, Len(ws)) \in Seq(Word)
           /\ \A i \in 1..n : SubSeq(ws, 1, n)[i] = ws[i] /\ Parses(ws[i], kinds[i])
<1>1. n \in Nat /\ n <= Len(ws) /\ Len(ws) \in Nat /\ \A i \in 1..n : Parses(ws[i], kinds[i])
  BY NotRefused
<1>2. /\ Words(SubSeq(Items(ws), 1, n)) = SubSeq(ws, 1, n)
      /\ SubSeq(Items(ws), n + 1, Len(Items(ws))) = Items(SubSeq(ws, n + 1, Len(ws)))
      /\ SubSeq(ws, 1, n) \in Seq(Word) /\ Len(SubSeq(ws, 1, n)) = n
      /\ SubSeq(ws, n + 1, Len(ws)) \in Seq(Word)
      /\ \A i \in 1..n : SubSeq(ws, 1, n)[i] = ws[i]
  BY <1>1, PoppedItems
<1> QED BY <1>1, <1>2

\* The same, of what the builder goes on with.
LEMMA Pops ==
    ASSUME NEW ws \in Seq(Word), NEW kinds \in Seq(Kind), Refused(Items(ws), kinds) = {}
    PROVE  /\ Words(SubSeq(Items(ws), 1, Len(kinds))) \in Seq(Word)
           /\ Len(Words(SubSeq(Items(ws), 1, Len(kinds)))) = Len(kinds)
           /\ \E u \in Seq(Word) : SubSeq(Items(ws), Len(kinds) + 1, Len(Items(ws))) = Items(u)
           /\ \A i \in 1..Len(kinds) : /\ Words(SubSeq(Items(ws), 1, Len(kinds)))[i] = ws[i]
                                       /\ Parses(ws[i], kinds[i])
<1> DEFINE n == Len(kinds)
           args == Words(SubSeq(Items(ws), 1, n))
           rest == SubSeq(Items(ws), n + 1, Len(Items(ws)))
           u == SubSeq(ws, n + 1, Len(ws))
<1>1. /\ args = SubSeq(ws, 1, n) /\ rest = Items(u)
      /\ SubSeq(ws, 1, n) \in Seq(Word) /\ Len(SubSeq(ws, 1, n)) = n /\ u \in Seq(Word)
      /\ \A i \in 1..n : SubSeq(ws, 1, n)[i] = ws[i] /\ Parses(ws[i], kinds[i])
  BY PoppedArgs, Zenon
<1>2. \E v \in Seq(Word) : rest = Items(v)
  <2> HIDE DEF u, rest
  <2> QED BY <1>1
<1> HIDE DEF args, n
<1> QED BY <1>1, <1>2, Zenon DEF n, args

\* The error of arguments that are refused.
LEMMA RefusedIsError ==
    ASSUME NEW items, NEW kinds
    PROVE  RefusedWith(items, kinds).name \in Errors
BY DEF RefusedWith, Error, Errors

\* The name of a command, in either case.
LEMMA NameOfRequest ==
    ASSUME NEW w \in Word, NEW name \in DataCommand, Upper(w) = <<name>>
    PROVE  Len(w) = 1 /\ (name # "GET" => w = <<name>>)
<1>1. CASE w \in DOMAIN UpperCase
  <2>1. w = <<"get">> \/ w = <<"count">> \/ w = <<"or">>
    BY <1>1 DEF UpperCase
  <2>2. CASE w = <<"get">>
    <3>1. Upper(w) = <<"GET">>
      BY <1>1, <2>2 DEF Upper, UpperCase
    <3> QED BY <2>2, <3>1
  <2>3. CASE w = <<"count">>
    <3>1. Upper(w) = <<"COUNT">>
      BY <1>1, <2>3 DEF Upper, UpperCase
    <3> QED BY <3>1 DEF DataCommand
  <2>4. CASE w = <<"or">>
    <3>1. Upper(w) = <<"OR">>
      BY <1>1, <2>4 DEF Upper, UpperCase
    <3> QED BY <3>1 DEF DataCommand
  <2> QED BY <2>1, <2>2, <2>3, <2>4
<1>2. CASE w \notin DOMAIN UpperCase
  BY <1>2 DEF Upper
<1> QED BY <1>1, <1>2

\* A request goes to the builder of its command with the words after its name.
LEMMA RequestIsBuilt ==
    ASSUME NEW words \in Requests
    PROVE  \E name \in DataCommand :
               /\ Upper(words[1]) = <<name>>
               /\ name # "GET" => words[1] = <<name>>
               /\ from_resp(Request(words)) = FromArray(name, Items(Tail(words)))
<1>1. PICK name \in DataCommand : Upper(words[1]) = <<name>>
  BY RequestsAssumption
<1>2. words \in Seq(Word) /\ words # <<>> /\ words[1] \in Word
  BY RequestWords
<1>3. Len(words[1]) = 1 /\ (name # "GET" => words[1] = <<name>>)
  BY <1>1, <1>2, NameOfRequest
<1> DEFINE t == Request(words)
<1>4. /\ t.type = "Array" /\ t.length = Len(Items(words)) /\ t.value = Items(words)
  BY DEF Request, Array, Resp, Items
<1>5. t.length # 0
  <2>1. Len(words) # 0
    BY <1>2
  <2> QED BY <1>2, <1>4, <2>1, ItemsOfWords
<1>6. Head(t.value) = BulkStr(words[1]) /\ Tail(t.value) = Items(Tail(words))
  BY <1>2, <1>4, TailOfItems
<1>7. /\ Head(t.value).type = "BulkStr" /\ Head(t.value).length # 0
      /\ Head(t.value).value = words[1]
  BY <1>3, <1>6 DEF BulkStr, Resp
<1>8. Len(Upper(words[1])) = 1 /\ Upper(words[1])[1] = name
  BY <1>1
<1> HIDE DEF t
<1>9. from_resp(t) = FromArray(name, Items(Tail(words)))
  BY <1>4, <1>5, <1>6, <1>7, <1>8, Zenon DEF from_resp
<1> QED BY <1>1, <1>3, <1>9 DEF t

\* The table of signatures is that of its part.
LEMMA SignatureParts ==
    ASSUME NEW name
    PROVE  /\ name \in DOMAIN StringSignature =>
                 name \in DOMAIN Signature /\ Signature[name] = StringSignature[name]
           /\ name \in DOMAIN SessionSignature /\ name \notin DOMAIN StringSignature =>
                 name \in DOMAIN Signature /\ Signature[name] = SessionSignature[name]
           /\ /\ name \in DOMAIN BitSignature /\ name \notin DOMAIN StringSignature
              /\ name \notin DOMAIN SessionSignature /\ name \notin DOMAIN SortedSetSignature
              => name \in DOMAIN Signature /\ Signature[name] = BitSignature[name]
           /\ /\ name \notin DOMAIN StringSignature /\ name \notin DOMAIN SessionSignature
              /\ name \notin DOMAIN SortedSetSignature /\ name \notin DOMAIN BitSignature
              => name \notin DOMAIN Signature
<1>1. DOMAIN Signature = UNION {DOMAIN StringSignature, DOMAIN SessionSignature,
                                DOMAIN SortedSetSignature, DOMAIN BitSignature}
  BY Zenon DEF Signature
<1>2. ASSUME name \in DOMAIN Signature
      PROVE  Signature[name] =
                IF name \in DOMAIN StringSignature THEN StringSignature[name]
                ELSE IF name \in DOMAIN SessionSignature THEN SessionSignature[name]
                ELSE IF name \in DOMAIN SortedSetSignature THEN SortedSetSignature[name]
                ELSE BitSignature[name]
  BY <1>1, <1>2, Zenon DEF Signature
<1>3. /\ name \in DOMAIN Signature <=>
            \/ name \in DOMAIN StringSignature \/ name \in DOMAIN SessionSignature
            \/ name \in DOMAIN SortedSetSignature \/ name \in DOMAIN BitSignature
  BY <1>1
<1>4. ASSUME name \in DOMAIN StringSignature
      PROVE  Signature[name] = StringSignature[name]
  BY <1>2, <1>3, <1>4, Zenon
<1>5. ASSUME name \in DOMAIN SessionSignature, name \notin DOMAIN StringSignature
      PROVE  Signature[name] = SessionSignature[name]
  BY <1>2, <1>3, <1>5, Zenon
<1>6. ASSUME name \in DOMAIN BitSignature, name \notin DOMAIN StringSignature,
             name \notin DOMAIN SessionSignature, name \notin DOMAIN SortedSetSignature
      PROVE  Signature[name] = BitSignature[name]
  BY <1>2, <1>3, <1>6, Zenon
<1> QED BY <1>3, <1>4, <1>5, <1>6

\* The commands that only pop arguments, with their arguments; the others have a
\* builder of their own.
LEMMA Signatures ==
    /\ \A name \in {"GET", "LLEN", "TYPE", "INCR", "KEYS", "STRLEN"} :
          name \in DOMAIN Signature /\ Signature[name] = <<"str">>
    /\ "LRANGE" \in DOMAIN Signature /\ Signature["LRANGE"] = <<"str", "i64", "i64">>
    /\ "SETBIT" \in DOMAIN Signature /\ Signature["SETBIT"] = <<"str", "u64", "u64">>
    /\ "GETBIT" \in DOMAIN Signature /\ Signature["GETBIT"] = <<"str", "u64">>
    /\ \A name \in {"RPUSH", "LPUSH", "BITOP", "SET", "LPOP", "BITCOUNT"} : name \notin DOMAIN Signature
<1> DEFINE A == StringSignature
           B == SessionSignature
           C == SortedSetSignature
           D == BitSignature
<1>1. \A name \in {"GET", "LLEN", "TYPE"} : name \in DOMAIN A /\ A[name] = <<"str">>
  BY DEF StringSignature
<1>2. "LRANGE" \in DOMAIN A /\ A["LRANGE"] = <<"str", "i64", "i64">>
  BY DEF StringSignature
<1>3. \A name \in {"INCR", "KEYS"} : name \in DOMAIN B /\ B[name] = <<"str">>
  BY DEF SessionSignature
<1>4. /\ "STRLEN" \in DOMAIN D /\ D["STRLEN"] = <<"str">>
      /\ "SETBIT" \in DOMAIN D /\ D["SETBIT"] = <<"str", "u64", "u64">>
      /\ "GETBIT" \in DOMAIN D /\ D["GETBIT"] = <<"str", "u64">>
  BY DEF BitSignature
<1>5. \A name \in {"INCR", "KEYS", "STRLEN", "SETBIT", "GETBIT"} : name \notin DOMAIN A
  BY DEF StringSignature
<1>6. \A name \in {"STRLEN", "SETBIT", "GETBIT"} : name \notin DOMAIN B
  BY DEF SessionSignature
<1>7. \A name \in {"STRLEN", "SETBIT", "GETBIT"} : name \notin DOMAIN C
  BY DEF SortedSetSignature
<1>8. \A name \in {"RPUSH", "LPUSH", "BITOP", "SET", "LPOP", "BITCOUNT"} :
         name \notin DOMAIN A /\ name \notin DOMAIN B /\ name \notin DOMAIN C /\ name \notin DOMAIN D
  BY DEF StringSignature, SessionSignature, SortedSetSignature, BitSignature
<1> HIDE DEF A, B, C, D
<1>9. \A name \in {"GET", "LLEN", "TYPE"} : name \in DOMAIN Signature /\ Signature[name] = <<"str">>
  BY <1>1, SignatureParts DEF A
<1>10. "LRANGE" \in DOMAIN Signature /\ Signature["LRANGE"] = <<"str", "i64", "i64">>
  BY <1>2, SignatureParts DEF A
<1>11. \A name \in {"INCR", "KEYS"} : name \in DOMAIN Signature /\ Signature[name] = <<"str">>
  BY <1>3, <1>5, SignatureParts DEF A, B
<1>12. /\ "STRLEN" \in DOMAIN Signature /\ Signature["STRLEN"] = <<"str">>
       /\ "SETBIT" \in DOMAIN Signature /\ Signature["SETBIT"] = <<"str", "u64", "u64">>
       /\ "GETBIT" \in DOMAIN Signature /\ Signature["GETBIT"] = <<"str", "u64">>
  BY <1>4, <1>5, <1>6, <1>7, SignatureParts DEF A, B, C, D
<1>13. \A name \in {"RPUSH", "LPUSH", "BITOP", "SET", "LPOP", "BITCOUNT"} : name \notin DOMAIN Signature
  BY <1>8, SignatureParts DEF A, B, C, D
<1> QED BY <1>9, <1>10, <1>11, <1>12, <1>13

\* What the builder gives for a request that it does not refuse.
Fits(words, cmd) ==
    /\ cmd.name \in DataCommand
    /\ cmd.name # "GET" => words[1] = <<cmd.name>>
    /\ cmd.args \in Seq(Word) /\ Len(cmd.args) >= 1
    /\ cmd.name = "SET" => Len(cmd.args) >= 2
    /\ cmd.name = "LPOP" /\ Len(cmd.args) # 1 => NumberOf[cmd.args[2]] \in Nat
    /\ cmd.name = "SETBIT" =>
          /\ NumberOf[cmd.args[2]] \in Nat /\ cmd.args[3] \in DOMAIN NumberOf
          /\ cmd.args[1] = words[2] /\ cmd.args[3] = words[4]

\* A word that parses as an unsigned number is one.
LEMMA ParsedNumber ==
    ASSUME NEW w
    PROVE  /\ Parses(w, "u64") => w \in DOMAIN NumberOf /\ NumberOf[w] \in Nat
           /\ Parses(w, "i64") => w \in DOMAIN NumberOf
<1>1. Parses(w, "u64") => w \in DOMAIN NumberOf /\ NumberOf[w] >= 0
  BY Zenon DEF Parses
<1>2. Parses(w, "i64") => w \in DOMAIN NumberOf
  BY Zenon DEF Parses
<1> QED BY <1>1, <1>2, ReadNumber

\* A command that only pops arguments has the first words after its name.
LEMMA BuiltBySignature ==
    ASSUME NEW ws \in Seq(Word), NEW name \in DOMAIN Signature, Signature[name] \in Seq(Kind),
           name \in {"GET", "LLEN", "TYPE", "INCR", "KEYS", "STRLEN", "LRANGE", "SETBIT", "GETBIT"}
    PROVE  LET cmd == FromArray(name, Items(ws))
               n == Len(Signature[name])
           IN \/ cmd.name \in Errors
              \/ /\ cmd.name = name /\ cmd.args = SubSeq(ws, 1, n)
                 /\ n <= Len(ws) /\ \A i \in 1..n : Parses(ws[i], Signature[name][i])
<1> DEFINE kinds == Signature[name]
           n == Len(kinds)
<1>1. FromArray(name, Items(ws)) = IF Refused(Items(ws), kinds) # {} THEN RefusedWith(Items(ws), kinds)
                                   ELSE Built(name, Words(SubSeq(Items(ws), 1, n)))
  <2>1. /\ name \notin {"RPUSH", "LPUSH"} /\ name \notin {"SUBSCRIBE", "WATCH"}
        /\ name \notin {"REPLCONF", "CONFIG"}
        /\ name # "GEOPOS" /\ name # "XADD" /\ name # "XRANGE" /\ name # "ACL" /\ name # "BITOP"
        /\ name # "SET" /\ name # "LPOP" /\ name # "BLPOP" /\ name # "XREAD"
        /\ name # "BITCOUNT" /\ name # "GEODIST"
    OBVIOUS
  <2> QED BY <2>1, Zenon DEF FromArray, WithArgs
<1>2. CASE Refused(Items(ws), kinds) # {}
  BY <1>1, <1>2, RefusedIsError
<1>3. CASE Refused(Items(ws), kinds) = {}
  <2>1. n \in Nat /\ n <= Len(ws) /\ \A i \in 1..n : Parses(ws[i], kinds[i])
    BY <1>3, NotRefused
  <2>2. FromArray(name, Items(ws)) = Built(name, SubSeq(ws, 1, n))
    BY <1>1, <1>3, <2>1, PoppedItems
  <2> QED BY <2>1, <2>2 DEF Built
<1> QED BY <1>2, <1>3

\* The words that the model spells out, and a word in upper case.
LEMMA UpperIsWord ==
    /\ <<"BYTE">> \in Word /\ <<"BIT">> \in Word
    /\ \A w \in Word : Upper(w) \in Word
<1>1. \A s \in {"GET", "COUNT", "OR", "BYTE", "BIT"} : <<s>> \in Word
  BY OneIsSeq DEF Byte, Word
<1>2. ASSUME NEW w \in Word, w \in DOMAIN UpperCase
      PROVE  UpperCase[w] \in Word
  <2>1. w = <<"get">> \/ w = <<"count">> \/ w = <<"or">>
    BY <1>2 DEF UpperCase
  <2>2. <<"get">> # <<"count">> /\ <<"get">> # <<"or">> /\ <<"count">> # <<"or">>
    OBVIOUS
  <2>3. UpperCase[w] = <<"GET">> \/ UpperCase[w] = <<"COUNT">> \/ UpperCase[w] = <<"OR">>
    BY <1>2, <2>1, <2>2, Zenon DEF UpperCase
  <2>4. <<"GET">> \in Word /\ <<"COUNT">> \in Word /\ <<"OR">> \in Word
    BY <1>1
  <2> QED BY <2>3, <2>4
<1> QED BY <1>1, <1>2 DEF Upper

\* The argument of SET or BITOP, with the words before it.
LEMMA BuiltWithArg ==
    ASSUME NEW name \in {"SET", "BITOP"}, NEW before \in Seq(Word), NEW key \in Word,
           NEW values \in Seq(Word)
    PROVE  LET cmd == CmdArg(name, before, key, values)
           IN \/ cmd.name \in Errors
              \/ /\ cmd.name = name /\ cmd.args \in Seq(Word) /\ Len(cmd.args) >= 1
                 /\ Len(values) = 1 => Len(cmd.args) >= Len(before) + 1
<1> DEFINE cmd == CmdArg(name, before, key, values)
           kinds == ArgSignature[key[1]]
           n == Len(kinds)
<1>1. CASE Len(key) # 1 \/ key[1] \notin DOMAIN ArgSignature
  BY <1>1 DEF CmdArg, Error, Errors
<1>2. CASE ~(Len(key) # 1 \/ key[1] \notin DOMAIN ArgSignature)
  <2>1. n \in Nat
    BY <1>2 DEF ArgSignature
  <2> HIDE DEF n
  <2>2. \/ cmd.name \in Errors
        \/ n <= Len(values) /\ cmd = Built(name, before \o <<key>> \o SubSeq(values, 1, n))
        \/ Len(values) # 1 /\ Len(values) >= n /\ key[1] = "SETUSER"
           /\ cmd = Built(name, <<key>> \o SubSeq(values, 1, 2))
    <3>1. cmd = LET Short == IF key[1] \in {"SETUSER", "AND", "OR"} THEN "MissingArgument" ELSE "Dummy"
                IN IF Len(values) < n THEN Error(Short)
                   ELSE IF \E i \in 1..n : ~Parses(values[i], kinds[i]) THEN Error("ParseError")
                   ELSE IF key[1] # "SETUSER"
                   THEN Built(name, before \o <<key>> \o SubSeq(values, 1, n))
                   ELSE IF Len(values) = 1 THEN Error("MissingArgument")
                   ELSE IF ~AclRule(values[2]) THEN Error("UnsupportedCmd")
                   ELSE Built(name, <<key>> \o SubSeq(values, 1, 2))
      BY <1>2, Zenon DEF CmdArg, n
    <3> HIDE DEF cmd, kinds
    <3>2. \A e \in {"MissingArgument", "Dummy", "ParseError", "UnsupportedCmd"} : Error(e).name \in Errors
      BY DEF Error, Errors
    <3>3. Len(values) \in Nat
      OBVIOUS
    <3> QED BY <2>1, <3>1, <3>2, <3>3
  <2> HIDE DEF cmd
  <2>3. CASE n <= Len(values) /\ cmd = Built(name, before \o <<key>> \o SubSeq(values, 1, n))
    <3>1. SubSeq(values, 1, n) \in Seq(Word) /\ Len(SubSeq(values, 1, n)) = n
      BY <2>1, <2>3
    <3>2. /\ before \o <<key>> \in Seq(Word) /\ Len(before \o <<key>>) = Len(before) + 1
          /\ Len(before) \in Nat
      OBVIOUS
    <3>3. /\ cmd.name = name /\ cmd.args = before \o <<key>> \o SubSeq(values, 1, n)
      BY <2>3 DEF Built
    <3>4. cmd.args \in Seq(Word) /\ Len(cmd.args) = Len(before) + 1 + n
      BY <3>1, <3>2, <3>3
    <3> QED BY <2>1, <3>2, <3>3, <3>4 DEF cmd
  <2>4. CASE /\ Len(values) # 1 /\ Len(values) >= n /\ key[1] = "SETUSER"
             /\ cmd = Built(name, <<key>> \o SubSeq(values, 1, 2))
    <3>1. n = 1
      BY <2>4 DEF n, ArgSignature
    <3>2. SubSeq(values, 1, 2) \in Seq(Word) /\ Len(SubSeq(values, 1, 2)) = 2
      BY <2>4, <3>1
    <3>3. /\ cmd.name = name /\ cmd.args = <<key>> \o SubSeq(values, 1, 2)
      BY <2>4 DEF Built
    <3>4. cmd.args \in Seq(Word) /\ Len(cmd.args) = 3
      BY <3>2, <3>3
    <3> QED BY <2>4, <3>3, <3>4, SMTT(30) DEF cmd
  <2> QED BY <2>2, <2>3, <2>4 DEF cmd
<1> QED BY <1>1, <1>2

\* A command or an error.
IsBuilt(cmd, name, least) ==
    \/ cmd.name \in Errors
    \/ cmd.name = name /\ cmd.args \in Seq(Word) /\ Len(cmd.args) >= least

\* SET has a key and a value.
LEMMA BuiltSet ==
    ASSUME NEW ws \in Seq(Word)
    PROVE  IsBuilt(FromArray("SET", Items(ws)), "SET", 2)
<1> DEFINE kinds == <<"str", "str">>
           Args(items) == Words(SubSeq(items, 1, Len(kinds)))
           Rest(items) == SubSeq(items, Len(kinds) + 1, Len(items))
           cmd == FromArray("SET", Items(ws))
           args == Args(Items(ws))
           rest == Rest(Items(ws))
           opt == Args(rest)
<1>1. "SET" \notin DOMAIN Signature
  BY Signatures
<1>2. cmd = IF Refused(Items(ws), kinds) # {} THEN RefusedWith(Items(ws), kinds)
            ELSE IF rest = <<>> THEN Built("SET", args)
            ELSE IF Refused(rest, kinds) # {} THEN RefusedWith(rest, kinds)
            ELSE CmdArg("SET", args, opt[1], <<opt[2]>>)
  BY <1>1, Zenon DEF FromArray, set, WithArgs
<1>3. Len(kinds) = 2 /\ kinds \in Seq(Kind)
  BY DEF Kind
<1>4. ASSUME NEW vs \in Seq(Word), Refused(Items(vs), kinds) = {}
      PROVE  /\ Args(Items(vs)) \in Seq(Word) /\ Len(Args(Items(vs))) = 2
             /\ \E u \in Seq(Word) : Rest(Items(vs)) = Items(u)
  <2> DEFINE n == Len(kinds)
  <2>1. n = 2
    BY <1>3
  <2>2. kinds \in Seq(Kind)
    BY <1>3
  <2> HIDE DEF kinds
  <2>3. /\ Words(SubSeq(Items(vs), 1, n)) = SubSeq(vs, 1, n)
        /\ SubSeq(Items(vs), n + 1, Len(Items(vs))) = Items(SubSeq(vs, n + 1, Len(vs)))
        /\ SubSeq(vs, 1, n) \in Seq(Word) /\ Len(SubSeq(vs, 1, n)) = n
        /\ SubSeq(vs, n + 1, Len(vs)) \in Seq(Word)
    BY <1>4, <2>2, PoppedArgs, Zenon
  <2>4. Len(SubSeq(vs, 1, n)) = 2
    BY <2>1, <2>3, Zenon
  <2> QED BY <2>3, <2>4, Zenon
<1> HIDE DEF kinds, Args, Rest, cmd
<1>5. CASE Refused(Items(ws), kinds) # {}
  <2>1. cmd.name \in Errors
    BY <1>2, <1>5, RefusedIsError
  <2> QED BY <2>1 DEF cmd, IsBuilt
<1>6. CASE Refused(Items(ws), kinds) = {} /\ Refused(rest, kinds) # {} /\ rest # <<>>
  <2>1. cmd.name \in Errors
    BY <1>2, <1>6, RefusedIsError
  <2> QED BY <2>1 DEF cmd, IsBuilt
<1>7. CASE Refused(Items(ws), kinds) = {} /\ rest = <<>>
  <2>1. args \in Seq(Word) /\ Len(args) >= 2
    <3>1. args \in Seq(Word) /\ Len(args) = 2
      BY <1>4, <1>7, Zenon
    <3> HIDE DEF args
    <3> QED BY <3>1
  <2>2. cmd = Built("SET", args)
    BY <1>2, <1>7
  <2>3. cmd.name = "SET" /\ cmd.args = args
    BY <2>2 DEF Built
  <2> QED BY <2>1, <2>3, Zenon DEF cmd, IsBuilt
<1>8. CASE Refused(Items(ws), kinds) = {} /\ rest # <<>> /\ Refused(rest, kinds) = {}
  <2> DEFINE v == <<opt[2]>>
  <2>1. args \in Seq(Word) /\ Len(args) = 2
    BY <1>4, <1>8
  <2>2. opt \in Seq(Word) /\ Len(opt) = 2
    BY <1>4, <1>8
  <2>3. opt[1] \in Word /\ v \in Seq(Word) /\ Len(v) = 1
    <3> HIDE DEF opt
    <3> QED BY <2>2
  <2>4. cmd = CmdArg("SET", args, opt[1], v)
    BY <1>2, <1>8
  <2> HIDE DEF args, opt, v
  <2>5. \/ cmd.name \in Errors
        \/ cmd.name = "SET" /\ cmd.args \in Seq(Word) /\ Len(cmd.args) >= 2 + 1
    BY <2>1, <2>3, <2>4, BuiltWithArg
  <2>6. IsBuilt(cmd, "SET", 2)
    BY <2>5 DEF IsBuilt
  <2> QED BY <2>6 DEF cmd
<1> QED BY <1>5, <1>6, <1>7, <1>8

\* A push has a key, and every word after it is a value.
LEMMA BuiltPush ==
    ASSUME NEW ws \in Seq(Word), NEW name \in {"RPUSH", "LPUSH"}
    PROVE  IsBuilt(FromArray(name, Items(ws)), name, 1)
<1> DEFINE kinds == <<"str">>
           args == Words(SubSeq(Items(ws), 1, Len(kinds)))
           rest == SubSeq(Items(ws), Len(kinds) + 1, Len(Items(ws)))
           cmd == FromArray(name, Items(ws))
<1>1. /\ name \notin DOMAIN Signature /\ name \notin {"SUBSCRIBE", "WATCH"}
      /\ name \notin {"REPLCONF", "CONFIG"}
      /\ name # "GEOPOS" /\ name # "XADD" /\ name # "XRANGE" /\ name # "ACL" /\ name # "BITOP"
      /\ name # "SET" /\ name # "LPOP" /\ name # "BLPOP" /\ name # "XREAD"
      /\ name # "BITCOUNT" /\ name # "GEODIST"
  BY Signatures
<1>2. cmd = IF Refused(Items(ws), kinds) # {} THEN RefusedWith(Items(ws), kinds)
            ELSE IF \A i \in DOMAIN rest : IsStr(rest[i]) THEN Built(name, args \o Words(rest))
            ELSE Error("MissingArgument")
  BY <1>1, Zenon DEF FromArray, WithArgs, AllOf
<1>3. Len(kinds) = 1 /\ kinds \in Seq(Kind)
  BY DEF Kind
<1> HIDE DEF kinds
<1>4. ASSUME Refused(Items(ws), kinds) = {}
      PROVE  /\ args \in Seq(Word) /\ Len(args) = Len(kinds)
             /\ \E u \in Seq(Word) : rest = Items(u)
  <2>1. kinds \in Seq(Kind)
    BY <1>3
  <2> QED BY <1>4, <2>1, Pops, Zenon
<1> HIDE DEF args, rest, cmd
<1>5. CASE \/ Refused(Items(ws), kinds) # {}
           \/ Refused(Items(ws), kinds) = {} /\ ~(\A i \in DOMAIN rest : IsStr(rest[i]))
  <2>1. Error("MissingArgument").name \in Errors
    BY DEF Error, Errors
  <2>2. cmd.name \in Errors
    BY <1>2, <1>5, <2>1, RefusedIsError, Zenon
  <2> QED BY <2>2 DEF cmd, IsBuilt
<1>6. CASE Refused(Items(ws), kinds) = {} /\ \A i \in DOMAIN rest : IsStr(rest[i])
  <2>1. PICK u \in Seq(Word) : rest = Items(u)
    BY <1>4, <1>6
  <2>2. Words(rest) = u
    BY <2>1, PoppedItems
  <2>3. args \in Seq(Word) /\ Len(args) = 1
    BY <1>3, <1>4, <1>6, Zenon
  <2>4. args \o u \in Seq(Word) /\ Len(args \o u) >= 1
    BY <2>3, SMTT(30)
  <2>5. cmd = Built(name, args \o u)
    BY <1>2, <1>6, <2>2, Zenon
  <2>6. cmd.name = name /\ cmd.args = args \o u
    BY <2>5 DEF Built
  <2> QED BY <2>4, <2>6, Zenon DEF cmd, IsBuilt
<1> QED BY <1>5, <1>6

\* LPOP has a key and perhaps a length.
LEMMA BuiltLpop ==
    ASSUME NEW ws \in Seq(Word)
    PROVE  LET cmd == FromArray("LPOP", Items(ws))
           IN /\ IsBuilt(cmd, "LPOP", 1)
              /\ cmd.name \notin Errors /\ Len(cmd.args) # 1 => NumberOf[cmd.args[2]] \in Nat
<1> DEFINE kinds == IF Len(Items(ws)) < 2 THEN <<"str">> ELSE <<"str", "u64">>
           args == Words(SubSeq(Items(ws), 1, Len(kinds)))
           cmd == FromArray("LPOP", Items(ws))
<1>1. "LPOP" \notin DOMAIN Signature
  BY Signatures
<1>2. cmd = IF Refused(Items(ws), kinds) # {} THEN RefusedWith(Items(ws), kinds)
            ELSE Built("LPOP", args)
  BY <1>1, Zenon DEF FromArray, lpop, WithArgs
<1>3. /\ kinds \in Seq(Kind)
      /\ Len(kinds) = 1 \/ (Len(kinds) = 2 /\ kinds[2] = "u64")
  <2>1. CASE Len(Items(ws)) < 2
    BY <2>1 DEF Kind
  <2>2. CASE ~(Len(Items(ws)) < 2)
    BY <2>2 DEF Kind
  <2> QED BY <2>1, <2>2
<1> HIDE DEF kinds
<1>4. CASE Refused(Items(ws), kinds) # {}
  <2> HIDE DEF cmd
  <2>1. cmd.name \in Errors
    BY <1>2, <1>4, RefusedIsError, Zenon
  <2> QED BY <2>1, Zenon DEF cmd, IsBuilt
<1>5. CASE Refused(Items(ws), kinds) = {}
  <2>1. /\ args \in Seq(Word) /\ Len(args) = Len(kinds)
        /\ \A i \in 1..Len(kinds) : args[i] = ws[i] /\ Parses(ws[i], kinds[i])
    <3>1. kinds \in Seq(Kind)
      BY <1>3
    <3> QED BY <1>5, <3>1, Pops, Zenon
  <2> HIDE DEF args, cmd
  <2>2. cmd.name = "LPOP" /\ cmd.args = args
    BY <1>2, <1>5 DEF Built
  <2>3. Len(args) >= 1
    BY <1>3, <2>1
  <2>4. ASSUME Len(args) # 1
        PROVE  NumberOf[args[2]] \in Nat
    <3>1. 2 \in 1..Len(kinds) /\ kinds[2] = "u64"
      BY <1>3, <2>1, <2>4
    <3>2. Parses(args[2], "u64")
      BY <2>1, <3>1, Zenon
    <3> QED BY <3>2, ParsedNumber
  <2> QED BY <2>1, <2>2, <2>3, <2>4, Zenon DEF cmd, IsBuilt
<1> QED BY <1>4, <1>5

\* BITCOUNT has a key and perhaps more.
LEMMA BuiltBitcount ==
    ASSUME NEW ws \in Seq(Word)
    PROVE  IsBuilt(FromArray("BITCOUNT", Items(ws)), "BITCOUNT", 1)
<1> DEFINE one == <<"str">>
           three == <<"str", "i64", "i64">>
           Args(kinds) == Words(SubSeq(Items(ws), 1, Len(kinds)))
           rest == SubSeq(Items(ws), Len(three) + 1, Len(Items(ws)))
           unit == Upper(rest[1].value)
           cmd == FromArray("BITCOUNT", Items(ws))
<1>1. "BITCOUNT" \notin DOMAIN Signature
  BY Signatures
<1>2. cmd = IF Len(Items(ws)) <= 1
            THEN IF Refused(Items(ws), one) # {} THEN RefusedWith(Items(ws), one) ELSE Built("BITCOUNT", Args(one))
            ELSE IF Refused(Items(ws), three) # {} THEN RefusedWith(Items(ws), three)
            ELSE IF rest = <<>> THEN Built("BITCOUNT", Args(three) \o <<<<"BYTE">>>>)
            ELSE IF Len(rest) = 1 /\ IsStr(rest[1]) /\ unit \in {<<"BYTE">>, <<"BIT">>}
            THEN Built("BITCOUNT", Args(three) \o <<unit>>)
            ELSE Error("InvalidArgument")
  BY <1>1, Zenon DEF FromArray, bitcount, WithArgs
<1>3. one \in Seq(Kind) /\ Len(one) = 1 /\ three \in Seq(Kind) /\ Len(three) = 3
  BY DEF Kind
<1> HIDE DEF one, three
<1>4. ASSUME NEW kinds \in {one, three}, Refused(Items(ws), kinds) = {}
      PROVE  Args(kinds) \in Seq(Word) /\ Len(Args(kinds)) = Len(kinds)
  <2>1. kinds \in Seq(Kind)
    BY <1>3
  <2> QED BY <1>4, <2>1, Pops, Zenon
<1> HIDE DEF Args, rest, unit, cmd
<1>5. \/ cmd.name \in Errors
      \/ Refused(Items(ws), one) = {} /\ cmd = Built("BITCOUNT", Args(one))
      \/ /\ Refused(Items(ws), three) = {}
         /\ \E w \in {<<"BYTE">>, <<"BIT">>} : cmd = Built("BITCOUNT", Args(three) \o <<w>>)
  <2>1. Error("InvalidArgument").name \in Errors
    BY DEF Error, Errors
  <2>2. RefusedWith(Items(ws), one).name \in Errors /\ RefusedWith(Items(ws), three).name \in Errors
    BY RefusedIsError
  <2> QED BY <1>2, <2>1, <2>2, Zenon
<1>6. CASE cmd.name \in Errors
  BY <1>6, Zenon DEF cmd, IsBuilt
<1>7. CASE Refused(Items(ws), one) = {} /\ cmd = Built("BITCOUNT", Args(one))
  <2> DEFINE args == Args(one)
  <2>1. args \in Seq(Word) /\ Len(args) = 1
    BY <1>3, <1>4, <1>7, Zenon
  <2> HIDE DEF args
  <2>2. Len(args) >= 1
    BY <2>1
  <2>3. cmd.name = "BITCOUNT" /\ cmd.args = args
    BY <1>7 DEF Built, args
  <2> QED BY <2>1, <2>2, <2>3, Zenon DEF cmd, IsBuilt
<1>8. CASE /\ Refused(Items(ws), three) = {}
           /\ \E w \in {<<"BYTE">>, <<"BIT">>} : cmd = Built("BITCOUNT", Args(three) \o <<w>>)
  <2> DEFINE args == Args(three)
  <2>1. PICK w \in {<<"BYTE">>, <<"BIT">>} : cmd = Built("BITCOUNT", args \o <<w>>)
    BY <1>8, Zenon
  <2>2. args \in Seq(Word) /\ Len(args) = 3
    BY <1>3, <1>4, <1>8, Zenon
  <2> HIDE DEF args
  <2>3. w \in Word
    BY UpperIsWord, Zenon
  <2>4. args \o <<w>> \in Seq(Word) /\ Len(args \o <<w>>) >= 1
    BY <2>2, <2>3
  <2>5. cmd.name = "BITCOUNT" /\ cmd.args = args \o <<w>>
    BY <2>1 DEF Built
  <2> QED BY <2>4, <2>5, Zenon DEF cmd, IsBuilt
<1> QED BY <1>5, <1>6, <1>7, <1>8

\* BITOP has an operation.
LEMMA BuiltBitop ==
    ASSUME NEW ws \in Seq(Word)
    PROVE  IsBuilt(FromArray("BITOP", Items(ws)), "BITOP", 1)
<1> DEFINE kinds == <<"str", "str", "str", "str">>
           args == Words(SubSeq(Items(ws), 1, Len(kinds)))
           cmd == FromArray("BITOP", Items(ws))
<1>1. "BITOP" \notin DOMAIN Signature
  BY Signatures
<1>2. cmd = IF Refused(Items(ws), kinds) # {} THEN RefusedWith(Items(ws), kinds)
            ELSE CmdArg("BITOP", <<>>, Upper(args[1]), Tail(args))
  BY <1>1, Zenon DEF FromArray, WithArgs
<1>3. Len(kinds) = 4 /\ kinds \in Seq(Kind)
  BY DEF Kind
<1> HIDE DEF kinds
<1>4. CASE Refused(Items(ws), kinds) # {}
  <2> HIDE DEF cmd
  <2>1. cmd.name \in Errors
    BY <1>2, <1>4, RefusedIsError, Zenon
  <2> QED BY <2>1, Zenon DEF cmd, IsBuilt
<1>5. CASE Refused(Items(ws), kinds) = {}
  <2>1. args \in Seq(Word) /\ Len(args) = Len(kinds)
    <3>1. kinds \in Seq(Kind)
      BY <1>3
    <3> QED BY <1>5, <3>1, Pops, Zenon
  <2> HIDE DEF args, cmd
  <2>2. args[1] \in Word /\ Tail(args) \in Seq(Word) /\ <<>> \in Seq(Word)
    <3>1. args \in Seq(Word) /\ Len(args) = 4
      BY <1>3, <2>1, Zenon
    <3> QED BY <3>1
  <2>3. Upper(args[1]) \in Word
    BY <2>2, UpperIsWord
  <2>4. cmd = CmdArg("BITOP", <<>>, Upper(args[1]), Tail(args))
    BY <1>2, <1>5, Zenon
  <2>5. \/ cmd.name \in Errors
        \/ cmd.name = "BITOP" /\ cmd.args \in Seq(Word) /\ Len(cmd.args) >= 1
    BY <2>2, <2>3, <2>4, BuiltWithArg, Zenon
  <2> QED BY <2>5, Zenon DEF cmd, IsBuilt
<1> QED BY <1>4, <1>5

\* A command that only pops arguments fits.
LEMMA SignatureFits ==
    ASSUME NEW words \in Requests,
           NEW name \in {"GET", "LLEN", "TYPE", "INCR", "KEYS", "STRLEN", "LRANGE", "SETBIT", "GETBIT"},
           name # "GET" => words[1] = <<name>>
    PROVE  LET cmd == FromArray(name, Items(Tail(words)))
           IN cmd.name \in Errors \/ Fits(words, cmd)
<1> DEFINE ws == Tail(words)
           kinds == Signature[name]
           n == Len(kinds)
           cmd == FromArray(name, Items(ws))
<1>1. /\ name \in DOMAIN Signature /\ kinds \in Seq(Kind) /\ Len(kinds) >= 1 /\ Len(kinds) \in Nat
      /\ name = "SETBIT" => Len(kinds) = 3 /\ kinds[2] = "u64" /\ kinds[3] = "u64"
  <2>1. CASE name \in {"GET", "LLEN", "TYPE", "INCR", "KEYS", "STRLEN"}
    <3>1. name \in DOMAIN Signature /\ kinds = <<"str">> /\ name # "SETBIT"
      BY <2>1, Signatures
    <3> HIDE DEF kinds
    <3> QED BY <3>1 DEF Kind
  <2>2. CASE name = "LRANGE"
    <3>1. name \in DOMAIN Signature /\ kinds = <<"str", "i64", "i64">> /\ name # "SETBIT"
      BY <2>2, Signatures
    <3> HIDE DEF kinds
    <3> QED BY <3>1 DEF Kind
  <2>3. CASE name = "SETBIT"
    <3>1. name \in DOMAIN Signature /\ kinds = <<"str", "u64", "u64">>
      BY <2>3, Signatures
    <3> HIDE DEF kinds
    <3> QED BY <3>1 DEF Kind
  <2>4. CASE name = "GETBIT"
    <3>1. name \in DOMAIN Signature /\ kinds = <<"str", "u64">> /\ name # "SETBIT"
      BY <2>4, Signatures
    <3> HIDE DEF kinds
    <3> QED BY <3>1 DEF Kind
  <2> QED BY <2>1, <2>2, <2>3, <2>4
<1>2. /\ ws \in Seq(Word) /\ Len(ws) = Len(words) - 1 /\ Len(words) \in Nat
      /\ \A i \in 1..Len(ws) : ws[i] = words[i + 1]
  BY RequestWords
<1> HIDE DEF ws, kinds
<1>3. \/ cmd.name \in Errors
      \/ /\ cmd.name = name /\ cmd.args = SubSeq(ws, 1, n)
         /\ n <= Len(ws) /\ \A i \in 1..n : Parses(ws[i], kinds[i])
  BY <1>1, <1>2, BuiltBySignature, Zenon DEF kinds
<1> HIDE DEF cmd, n
<1>4. CASE cmd.name \in Errors
  BY <1>4, Zenon DEF cmd, ws
<1>5. CASE /\ cmd.name = name /\ cmd.args = SubSeq(ws, 1, n)
           /\ n <= Len(ws) /\ \A i \in 1..n : Parses(ws[i], kinds[i])
  <2> DEFINE args == SubSeq(ws, 1, n)
  <2>1. n \in Nat /\ n >= 1
    BY <1>1 DEF n
  <2>2. /\ args \in Seq(Word) /\ Len(args) = n /\ \A i \in 1..n : args[i] = ws[i]
    BY <1>2, <1>5, <2>1
  <2> HIDE DEF args
  <2>3. ASSUME name = "SETBIT"
        PROVE  /\ NumberOf[args[2]] \in Nat /\ args[3] \in DOMAIN NumberOf
               /\ args[1] = words[2] /\ args[3] = words[4]
    <3>1. n = 3 /\ kinds[2] = "u64" /\ kinds[3] = "u64"
      BY <1>1, <2>3 DEF n
    <3>2. Parses(ws[2], "u64") /\ Parses(ws[3], "u64")
      <4>1. 2 \in 1..n /\ 3 \in 1..n
        BY <3>1
      <4> QED BY <1>5, <3>1, <4>1, Zenon
    <3>3. args[1] = ws[1] /\ args[2] = ws[2] /\ args[3] = ws[3]
      BY <2>2, <3>1
    <3>4. ws[1] = words[2] /\ ws[3] = words[4]
      BY <1>2, <1>5, <3>1
    <3> QED BY <3>2, <3>3, <3>4, ParsedNumber
  <2>4. name \in DataCommand /\ name # "SET" /\ name # "LPOP" /\ Len(args) >= 1
    BY <2>1, <2>2 DEF DataCommand
  <2>5. cmd.name = name /\ cmd.args = args
    BY <1>5 DEF args
  <2>6. Fits(words, cmd)
    BY <2>2, <2>3, <2>4, <2>5, Zenon DEF Fits
  <2> QED BY <2>6 DEF cmd, ws
<1> QED BY <1>3, <1>4, <1>5

\* A command with a builder of its own fits.
LEMMA BuilderFits ==
    ASSUME NEW words \in Requests,
           NEW name \in {"SET", "RPUSH", "LPUSH", "LPOP", "BITCOUNT", "BITOP"}, words[1] = <<name>>
    PROVE  LET cmd == FromArray(name, Items(Tail(words)))
           IN cmd.name \in Errors \/ Fits(words, cmd)
<1> DEFINE cmd == FromArray(name, Items(Tail(words)))
<1>1. Tail(words) \in Seq(Word)
  BY RequestWords
<1>2. name \in DataCommand /\ name # "SETBIT"
  BY DEF DataCommand
<1>3. CASE name = "SET"
  <2>1. IsBuilt(cmd, "SET", 2)
    BY <1>1, <1>3, BuiltSet
  <2> HIDE DEF cmd
  <2>2. cmd.name \in Errors \/ (/\ cmd.name = "SET" /\ cmd.args \in Seq(Word)
                               /\ Len(cmd.args) >= 2 /\ Len(cmd.args) >= 1)
    BY <2>1 DEF IsBuilt
  <2>3. "SET" # "LPOP"
    OBVIOUS
  <2> QED BY <1>2, <1>3, <2>2, <2>3, Zenon DEF cmd, Fits
<1>4. CASE name = "LPOP"
  <2>1. IsBuilt(cmd, "LPOP", 1) /\ (cmd.name \notin Errors /\ Len(cmd.args) # 1 => NumberOf[cmd.args[2]] \in Nat)
    BY <1>1, <1>4, BuiltLpop, Zenon
  <2> HIDE DEF cmd
  <2>2. "LPOP" # "SET"
    OBVIOUS
  <2> QED BY <1>2, <1>4, <2>1, <2>2, Zenon DEF cmd, Fits, IsBuilt
<1>5. CASE name \in {"RPUSH", "LPUSH", "BITCOUNT", "BITOP"}
  <2>1. IsBuilt(cmd, name, 1)
    BY <1>1, <1>5, BuiltPush, BuiltBitcount, BuiltBitop
  <2> HIDE DEF cmd
  <2>2. name # "LPOP" /\ name # "SET"
    BY <1>5
  <2> QED BY <1>2, <2>1, <2>2, Zenon DEF cmd, Fits, IsBuilt
<1> QED BY <1>3, <1>4, <1>5

\* Every request is refused or becomes a command with the arguments it takes.
LEMMA RequestFits ==
    ASSUME NEW words \in Requests
    PROVE  LET cmd == from_resp(Request(words)) IN cmd.name \in Errors \/ Fits(words, cmd)
<1>1. PICK name \in DataCommand :
         /\ name # "GET" => words[1] = <<name>>
         /\ from_resp(Request(words)) = FromArray(name, Items(Tail(words)))
  BY RequestIsBuilt
<1>2. CASE name \in {"GET", "LLEN", "TYPE", "INCR", "KEYS", "STRLEN", "LRANGE", "SETBIT", "GETBIT"}
  BY <1>1, <1>2, SignatureFits, Zenon
<1>3. CASE name \in {"SET", "RPUSH", "LPUSH", "LPOP", "BITCOUNT", "BITOP"}
  <2>1. name # "GET"
    BY <1>3
  <2> QED BY <1>1, <1>3, <2>1, BuilderFits, Zenon
<1> QED BY <1>2, <1>3 DEF DataCommand

-----------------------------------------------------------------------------
(***************************************************************************)
(* What every command keeps: a map of well-formed items, and the expiry of  *)
(* each string.                                                             *)
(***************************************************************************)
IsItem(item) ==
    /\ item = StoreItem(item.type, item.value, item.expired_at)
    /\ \/ item.type = "string" /\ item.value \in Word
       \/ item.type = "list" /\ item.value \in Seq(Word)
       \/ item.type = "bitmap" /\ item.value \in Seq(SUBSET (0..7))

IsData(d) == d = [key \in DOMAIN d |-> d[key]] /\ \A key \in DOMAIN d : IsItem(d[key])

\* A string that is there before and after was a string and has its expiry.
KeepsExpiry(d, e) ==
    \A key \in DOMAIN d \cap DOMAIN e :
        e[key].type = "string" => d[key].type = "string" /\ e[key].expired_at = d[key].expired_at

\* A result of a command that is not SET.
Keeps(d, r) == IsData(r.data) /\ KeepsExpiry(d, r.data)

\* The parts of a result.
LEMMA Results ==
    /\ \A d, reply : /\ Outcome(d, reply).data = d /\ Outcome(d, reply).ok
                     /\ Outcome(d, reply).reply = reply
    /\ \A d, kind : Refuse(d, kind).data = d /\ ~Refuse(d, kind).ok
    /\ \A type, value, at : /\ StoreItem(type, value, at).type = type
                            /\ StoreItem(type, value, at).value = value
                            /\ StoreItem(type, value, at).expired_at = at
BY DEF Outcome, Refuse, StoreItem

\* What makes an item well formed.
LEMMA Stored ==
    ASSUME NEW value, NEW at
    PROVE  /\ value \in Word => IsItem(StoreItem("string", value, at))
           /\ value \in Seq(Word) => IsItem(StoreItem("list", value, at))
           /\ value \in Seq(SUBSET (0..7)) => IsItem(StoreItem("bitmap", value, at))
<1>1. ASSUME NEW type, NEW item, item = StoreItem(type, value, at)
      PROVE  /\ item.type = type /\ item.value = value
             /\ item = StoreItem(item.type, item.value, item.expired_at)
  BY <1>1, Results
<1> QED BY <1>1, Zenon DEF IsItem

\* An item with another value.
LEMMA WithValue ==
    ASSUME NEW item, item = StoreItem(item.type, item.value, item.expired_at), NEW value
    PROVE  [item EXCEPT !.value = value] = StoreItem(item.type, value, item.expired_at)
BY DEF StoreItem

\* A new item keeps the map, and the strings, when it is not a string or follows one.
LEMMA PutKeeps ==
    ASSUME NEW d, IsData(d), NEW key, NEW type, NEW value, NEW at,
           IsItem(StoreItem(type, value, at)),
           key \in DOMAIN d /\ type = "string" => d[key].type = "string" /\ d[key].expired_at = at
    PROVE  LET e == Put(d, key, StoreItem(type, value, at)) IN IsData(e) /\ KeepsExpiry(d, e)
<1> DEFINE item == StoreItem(type, value, at)
           e == Put(d, key, item)
<1>1. item.type = type /\ item.expired_at = at
  BY Results
<1>2. IsItem(item)
  OBVIOUS
<1> HIDE DEF item
<1>3. /\ DOMAIN e = DOMAIN d \cup {key} /\ e = [k \in DOMAIN e |-> e[k]]
      /\ \A k \in DOMAIN e : e[k] = IF k = key THEN item ELSE d[k]
  BY DEF Put
<1> HIDE DEF e
<1>4. IsData(e)
  BY <1>2, <1>3 DEF IsData
<1>5. KeepsExpiry(d, e)
  BY <1>1, <1>3 DEF KeepsExpiry
<1> QED BY <1>4, <1>5 DEF e, item

\* A map without a key.
LEMMA WithoutKeeps ==
    ASSUME NEW d, IsData(d), NEW key
    PROVE  IsData(Without(d, key)) /\ KeepsExpiry(d, Without(d, key))
<1> DEFINE e == Without(d, key)
<1>1. /\ DOMAIN e = DOMAIN d \ {key} /\ e = [k \in DOMAIN e |-> e[k]]
      /\ \A k \in DOMAIN e : e[k] = d[k]
  BY DEF Without, Restrict
<1> HIDE DEF e
<1>2. IsData(e) /\ KeepsExpiry(d, e)
  BY <1>1 DEF IsData, KeepsExpiry
<1> QED BY <1>2 DEF e

\* What changes nothing keeps everything.
LEMMA SameKeeps ==
    ASSUME NEW d, IsData(d), NEW r, r.data = d
    PROVE  Keeps(d, r)
BY DEF Keeps, KeepsExpiry

\* The commands that read change nothing.
LEMMA ReadsChangeNothing ==
    ASSUME NEW d, NEW t, NEW key, NEW args, NEW m, NEW n
    PROVE  /\ cmd_get(d, t, key).data = d
           /\ cmd_llen(d, key).data = d
           /\ cmd_lrange(d, key, m, n).data = d
           /\ cmd_getbit(d, key, m).data = d
           /\ cmd_strlen(d, key).data = d
           /\ cmd_bitcount(d, args).data = d
           /\ cmd_type(d, key).data = d
           /\ cmd_keys(d, key).data = d
<1>1. cmd_get(d, t, key).data = d
  BY Results, Zenon DEF cmd_get
<1>2. cmd_llen(d, key).data = d
  BY Results, Zenon DEF cmd_llen
<1>3. cmd_lrange(d, key, m, n).data = d
  BY Results, Zenon DEF cmd_lrange
<1>4. cmd_getbit(d, key, m).data = d
  BY Results, Zenon DEF cmd_getbit, ReadBits
<1>5. cmd_strlen(d, key).data = d
  BY Results, Zenon DEF cmd_strlen, ReadBits
<1>6. cmd_bitcount(d, args).data = d
  BY Results, Zenon DEF cmd_bitcount, ReadBits
<1>7. cmd_type(d, key).data = d
  BY Results, Zenon DEF cmd_type
<1>8. cmd_keys(d, key).data = d
  BY Results, Zenon DEF cmd_keys
<1> QED BY <1>1, <1>2, <1>3, <1>4, <1>5, <1>6, <1>7, <1>8, Zenon

\* INCR changes the value of a string only, and nothing when it is refused.
LEMMA IncrKeeps ==
    ASSUME NEW d, IsData(d), NEW key
    PROVE  Keeps(d, cmd_incr(d, key)) /\ (~cmd_incr(d, key).ok => cmd_incr(d, key).data = d)
<1> DEFINE item == IF key \in DOMAIN d THEN d[key] ELSE StoreItem("string", WordOf(0), None)
           i == NumberOf[item.value]
           r == cmd_incr(d, key)
           new == [item EXCEPT !.value = WordOf(i + 1)]
<1>1. IsItem(item)
  <2>1. WordOf(0) \in Word
    BY NumbersAreWords
  <2> QED BY <2>1, Results DEF IsData, IsItem
<1>2. key \in DOMAIN d => item = d[key]
  OBVIOUS
<1> HIDE DEF item
<1>3. CASE item.type # "string" \/ ~Parses(item.value, "i64")
  <2>1. r = Refuse(d, "UnprocessableError")
    BY <1>3, Zenon DEF cmd_incr, item
  <2> QED BY <2>1, Results, SameKeeps
<1>4. CASE item.type = "string" /\ Parses(item.value, "i64")
  <2>1. r = IF i < I64_MAX THEN Outcome(Put(d, key, new), Int64(i + 1))
            ELSE Refuse(d, "UnprocessableError")
    BY <1>4, Zenon DEF cmd_incr, item
  <2>2. CASE ~(i < I64_MAX)
    <3>1. r = Refuse(d, "UnprocessableError")
      BY <2>1, <2>2, Zenon
    <3> QED BY <3>1, Results, SameKeeps
  <2>3. CASE i < I64_MAX
    <3> DEFINE w == WordOf(i + 1)
    <3>1. w \in Word
      <4>1. i \in Int
        BY <1>4, ParsedNumber, ReadNumber
      <4>2. i + 1 \in Int
        BY <4>1
      <4> HIDE DEF i
      <4> QED BY <4>2, NumbersAreWords
    <3> HIDE DEF w
    <3>2. new = StoreItem("string", w, item.expired_at)
      BY <1>1, <1>4, WithValue DEF IsItem, w
    <3>3. IsItem(StoreItem("string", w, item.expired_at))
      BY <3>1, Stored, Zenon
    <3>4. key \in DOMAIN d => d[key].type = "string" /\ d[key].expired_at = item.expired_at
      BY <1>2, <1>4
    <3>5. r = Outcome(Put(d, key, StoreItem("string", w, item.expired_at)), Int64(i + 1))
      BY <2>1, <2>3, <3>2, Zenon
    <3>6. r.ok /\ r.data = Put(d, key, StoreItem("string", w, item.expired_at))
      BY <3>5, Results
    <3> QED BY <3>3, <3>4, <3>6, PutKeeps, Zenon DEF Keeps
  <2> QED BY <2>2, <2>3
<1> QED BY <1>3, <1>4

\* A list with other values in it.
LEMMA ListKeeps ==
    ASSUME NEW d, IsData(d), NEW key, NEW item, IsItem(item), item.type = "list",
           NEW list \in Seq(Word), NEW r, r.data = Put(d, key, [item EXCEPT !.value = list])
    PROVE  Keeps(d, r)
<1>1. [item EXCEPT !.value = list] = StoreItem("list", list, item.expired_at)
  BY WithValue DEF IsItem
<1>2. IsItem(StoreItem("list", list, item.expired_at))
  BY Stored, Zenon
<1>3. "list" # "string"
  OBVIOUS
<1>4. r.data = Put(d, key, StoreItem("list", list, item.expired_at))
  BY <1>1, Zenon
<1> QED BY <1>2, <1>3, <1>4, PutKeeps, Zenon DEF Keeps

\* A push changes the values of a list only, and nothing when it is refused.
LEMMA PushKeeps ==
    ASSUME NEW d, IsData(d), NEW key, NEW values \in Seq(Word),
           NEW r, r = cmd_rpush(d, key, values) \/ r = cmd_lpush(d, key, values)
    PROVE  Keeps(d, r) /\ (~r.ok => r.data = d)
<1> DEFINE item == IF key \in DOMAIN d THEN d[key] ELSE StoreItem("list", <<>>, None)
           right == item.value \o values
           left == Reverse(values) \o item.value
           Result(list) == IF item.type # "list" THEN Refuse(d, "UnsupportedCmd")
                           ELSE Outcome(Put(d, key, [item EXCEPT !.value = list]), Int64(Len(list)))
<1>1. IsItem(item)
  <2>1. <<>> \in Seq(Word)
    OBVIOUS
  <2>2. IsItem(StoreItem("list", <<>>, None))
    BY <2>1, Stored, Zenon
  <2> QED BY <2>2 DEF IsData
<1>2. r \in {Result(right), Result(left)}
  BY Zenon DEF cmd_rpush, cmd_lpush, Pushed
<1> HIDE DEF item
<1>3. CASE item.type # "list"
  <2>1. r = Refuse(d, "UnsupportedCmd")
    BY <1>2, <1>3, Zenon
  <2>2. r.data = d
    BY <2>1, Results
  <2> QED BY <2>2, SameKeeps, Zenon
<1>4. CASE item.type = "list"
  <2>1. item.value \in Seq(Word)
    BY <1>1, <1>4 DEF IsItem
  <2>2. Reverse(values) \in Seq(Word)
    BY DEF Reverse
  <2>3. right \in Seq(Word) /\ left \in Seq(Word)
    BY <2>1, <2>2
  <2> HIDE DEF right, left
  <2>4. PICK list \in {right, left} : r = Result(list)
    BY <1>2, Zenon
  <2>5. list \in Seq(Word)
    BY <2>3, <2>4
  <2>6. r.ok /\ r.data = Put(d, key, [item EXCEPT !.value = list])
    BY <1>4, <2>4, Results, Zenon
  <2> QED BY <1>1, <1>4, <2>5, <2>6, ListKeeps, Zenon
<1> QED BY <1>3, <1>4

\* LPOP changes the values of a list only, and nothing when it is refused.
LEMMA LpopKeeps ==
    ASSUME NEW d, IsData(d), NEW args, Len(args) # 1 => NumberOf[args[2]] \in Nat
    PROVE  LET r == cmd_lpop(d, args) IN Keeps(d, r) /\ (~r.ok => r.data = d)
<1> DEFINE key == args[1]
           item == d[key]
           m == IF Len(args) = 1 THEN 1 ELSE NumberOf[args[2]]
           n == Smaller(m, Len(item.value))
           r == cmd_lpop(d, args)
<1>1. CASE key \notin DOMAIN d
  <2>1. r = Outcome(d, NullBulkStr)
    BY <1>1, Zenon DEF cmd_lpop, Has
  <2>2. r.data = d
    BY <2>1, Results
  <2> HIDE DEF r
  <2> QED BY <2>2, SameKeeps, Zenon DEF r
<1>2. CASE key \in DOMAIN d /\ item.type # "list"
  <2>1. r = Refuse(d, "UnsupportedCmd")
    BY <1>2, Zenon DEF cmd_lpop, Has
  <2>2. r.data = d
    BY <2>1, Results
  <2> HIDE DEF r
  <2> QED BY <2>2, SameKeeps, Zenon DEF r
<1>3. CASE key \in DOMAIN d /\ item.type = "list"
  <2> DEFINE list == SubSeq(item.value, n + 1, Len(item.value))
  <2>1. IsItem(item) /\ item.value \in Seq(Word)
    BY <1>3 DEF IsData, IsItem
  <2>2. r.data = Put(d, key, [item EXCEPT !.value = list]) /\ r.ok
    <3>1. \E reply : r = Outcome(Put(d, key, [item EXCEPT !.value = list]), reply)
      BY <1>3, Zenon DEF cmd_lpop, Has
    <3> HIDE DEF r, list, item
    <3> QED BY <3>1, Results
  <2>3. list \in Seq(Word)
    <3>1. Len(item.value) \in Nat /\ m \in Nat
      BY <2>1
    <3>2. n \in Nat /\ n <= Len(item.value)
      BY <3>1 DEF Smaller
    <3> HIDE DEF n, item
    <3> QED BY <2>1, <3>2, RestOfSeq
  <2> HIDE DEF list, r, item
  <2>4. Keeps(d, r)
    BY <1>3, <2>1, <2>2, <2>3, ListKeeps, Zenon
  <2> QED BY <2>2, <2>4, Zenon DEF r
<1> QED BY <1>1, <1>2, <1>3

-----------------------------------------------------------------------------
(***************************************************************************)
(* Bitmaps.                                                                 *)
(***************************************************************************)
Map == Seq(SUBSET (0..7))

\* Where a bit is.
LEMMA Offset ==
    ASSUME NEW o \in Nat
    PROVE  /\ BlockOf(o) \in Nat /\ BlockOf(o) >= 1 /\ Blocks(o) = BlockOf(o)
           /\ BitOf(o) \in 0..7 /\ o = 8 * (BlockOf(o) - 1) + (7 - BitOf(o))
BY DEF BlockOf, Blocks, BitOf

\* Another offset is another place.
LEMMA OffsetIsOwn ==
    ASSUME NEW o \in Nat, NEW p \in Nat, BlockOf(o) = BlockOf(p), BitOf(o) = BitOf(p)
    PROVE  o = p
BY Offset

\* A map of zeros.
LEMMA ZerosAreMap ==
    ASSUME NEW n \in Nat
    PROVE  Zeros(n) \in Map /\ Len(Zeros(n)) = n /\ \A i \in 1..n : Zeros(n)[i] = {}
BY DEF Zeros, Map

\* Bitmap::extend adds zeros up to the byte of the offset.
LEMMA ExtendedMap ==
    ASSUME NEW map \in Map, NEW o \in Nat
    PROVE  LET e == Extended(map, o)
           IN /\ e \in Map /\ Len(e) \in Nat /\ BlockOf(o) <= Len(e) /\ Len(map) <= Len(e)
              /\ \A i \in 1..Len(e) : e[i] = IF i <= Len(map) THEN map[i] ELSE {}
<1> DEFINE n == Larger(Blocks(o) - Len(map), 0)
           z == Zeros(n)
           e == Extended(map, o)
<1>1. Len(map) \in Nat
  BY DEF Map
<1>2. n \in Nat /\ BlockOf(o) <= Len(map) + n
  <2>1. Blocks(o) \in Nat /\ Blocks(o) = BlockOf(o)
    BY Offset
  <2> QED BY <1>1, <2>1 DEF Larger
<1> HIDE DEF n
<1>3. z \in Map /\ Len(z) = n /\ \A i \in 1..n : z[i] = {}
  BY <1>2, ZerosAreMap
<1>4. e = map \o z
  BY DEF Extended, n
<1> HIDE DEF z, e
<1>5. e \in Map /\ Len(e) = Len(map) + n
  BY <1>1, <1>3, <1>4 DEF Map
<1>6. \A i \in 1..Len(e) : e[i] = IF i <= Len(map) THEN map[i] ELSE z[i - Len(map)]
  BY <1>1, <1>2, <1>3, <1>4, <1>5 DEF Map
<1>7. \A i \in 1..Len(e) : e[i] = IF i <= Len(map) THEN map[i] ELSE {}
  BY <1>1, <1>2, <1>3, <1>5, <1>6
<1> QED BY <1>1, <1>2, <1>5, <1>7 DEF e

\* The byte of a map with one bit changed.
WithBit(byte, b, bit) == IF bit = 1 THEN byte \cup {b} ELSE byte \ {b}

\* A bit set or cleared in its byte.
LEMMA MapWithBit ==
    ASSUME NEW map \in Map, NEW o \in Nat, BlockOf(o) <= Len(map), NEW bit \in {0, 1}
    PROVE  LET m == BitsSet(map, o, bit)
           IN /\ m \in Map /\ Len(m) = Len(map)
              /\ \A i \in 1..Len(map) :
                    m[i] = IF i = BlockOf(o) THEN WithBit(map[i], BitOf(o), bit) ELSE map[i]
<1> DEFINE k == BlockOf(o)
           b == BitOf(o)
           byte == WithBit(map[k], b, bit)
<1>1. Len(map) \in Nat /\ k \in 1..Len(map) /\ b \in 0..7
  BY Offset DEF Map
<1> HIDE DEF k, b
<1>2. map[k] \in SUBSET (0..7)
  BY <1>1 DEF Map
<1>3. byte \in SUBSET (0..7)
  BY <1>1, <1>2 DEF WithBit
<1> HIDE DEF byte
<1>4. BitsSet(map, o, bit) = [map EXCEPT ![k] = byte]
  BY DEF BitsSet, WithBit, k, b, byte
<1>5. /\ [map EXCEPT ![k] = byte] \in Map /\ Len([map EXCEPT ![k] = byte]) = Len(map)
      /\ \A i \in 1..Len(map) : [map EXCEPT ![k] = byte][i] = IF i = k THEN byte ELSE map[i]
  BY <1>1, <1>3 DEF Map
<1> QED BY <1>4, <1>5 DEF k, b, byte

\* SETBIT in all its cases: the byte of the offset is always there once the map was
\* made or extended, so the last error of the code is never given.
LEMMA SetbitCases ==
    ASSUME NEW d, IsData(d), NEW key, NEW o \in Nat, NEW bit
    PROVE  LET item == IF key \in DOMAIN d THEN d[key] ELSE StoreItem("bitmap", Zeros(Blocks(o)), None)
               old == BitAt(item.value, o)
               new == BitsSet(Extended(item.value, o), o, bit)
               r == cmd_setbit(d, key, o, bit)
           IN \/ item.type # "bitmap" /\ r = Refuse(d, "Dummy")
              \/ /\ IsItem(item) /\ item.type = "bitmap" /\ item.value \in Map
                 /\ \/ old = bit /\ r = Outcome(Put(d, key, item), Int64(old))
                    \/ old # bit /\ bit \notin {0, 1} /\ r = Refuse(Put(d, key, item), "ParseError")
                    \/ /\ old # bit /\ bit \in {0, 1}
                       /\ r = Outcome(Put(d, key, StoreItem("bitmap", new, item.expired_at)), Int64(old))
<1> DEFINE item == IF key \in DOMAIN d THEN d[key] ELSE StoreItem("bitmap", Zeros(Blocks(o)), None)
           old == BitAt(item.value, o)
           map == Extended(item.value, o)
           r == cmd_setbit(d, key, o, bit)
<1>1. CASE item.type # "bitmap"
  <2>1. r = Refuse(d, "Dummy")
    BY <1>1, Zenon DEF cmd_setbit
  <2> QED BY <1>1, <2>1
<1>2. CASE item.type = "bitmap"
  <2>1. IsItem(item)
    <3>1. Blocks(o) \in Nat
      BY Offset
    <3>2. Zeros(Blocks(o)) \in Map
      BY <3>1, ZerosAreMap
    <3>3. IsItem(StoreItem("bitmap", Zeros(Blocks(o)), None))
      BY <3>2, Stored, Zenon DEF Map
    <3> QED BY <3>3 DEF IsData
  <2>2. r = IF old = bit THEN Outcome(Put(d, key, item), Int64(old))
            ELSE IF bit \notin {0, 1} THEN Refuse(Put(d, key, item), "ParseError")
            ELSE IF BlockOf(o) > Len(map) THEN Refuse(Put(d, key, [item EXCEPT !.value = map]), "OutOfIndex")
            ELSE Outcome(Put(d, key, [item EXCEPT !.value = BitsSet(map, o, bit)]), Int64(old))
    BY <1>2, Zenon DEF cmd_setbit
  <2> HIDE DEF item
  <2>3. item.value \in Map
    BY <1>2, <2>1 DEF IsItem, Map
  <2>4. ~(BlockOf(o) > Len(map))
    <3>1. Len(map) \in Nat /\ BlockOf(o) <= Len(map) /\ BlockOf(o) \in Nat
      BY <2>3, ExtendedMap, Offset
    <3> HIDE DEF map
    <3> QED BY <3>1
  <2> DEFINE new == BitsSet(map, o, bit)
  <2> HIDE DEF new, old
  <2>5. [item EXCEPT !.value = new] = StoreItem("bitmap", new, item.expired_at)
    BY <1>2, <2>1, WithValue DEF IsItem
  <2> HIDE DEF r
  <2>6. \/ old = bit /\ r = Outcome(Put(d, key, item), Int64(old))
        \/ old # bit /\ bit \notin {0, 1} /\ r = Refuse(Put(d, key, item), "ParseError")
        \/ /\ old # bit /\ bit \in {0, 1}
           /\ r = Outcome(Put(d, key, StoreItem("bitmap", new, item.expired_at)), Int64(old))
    BY <2>2, <2>4, <2>5, Zenon DEF new
  <2> QED BY <1>2, <2>1, <2>3, <2>6, Zenon DEF new, old, r, item
<1> QED BY <1>1, <1>2

\* An item put where it is changes nothing.
LEMMA PutSame ==
    ASSUME NEW d, IsData(d), NEW key \in DOMAIN d
    PROVE  Put(d, key, d[key]) = d
<1>1. Put(d, key, d[key]) = [k \in DOMAIN d |-> d[k]]
  BY DEF Put
<1> QED BY <1>1 DEF IsData

\* SETBIT keeps the map and the strings; it is refused after a change only when the
\* bit is neither 0 nor 1 and the key is new.
LEMMA SetbitKeeps ==
    ASSUME NEW d, IsData(d), NEW key, NEW o \in Nat, NEW bit
    PROVE  LET r == cmd_setbit(d, key, o, bit)
           IN Keeps(d, r) /\ (~r.ok /\ r.data # d => bit \notin {0, 1} /\ key \notin DOMAIN d)
<1> DEFINE item == IF key \in DOMAIN d THEN d[key] ELSE StoreItem("bitmap", Zeros(Blocks(o)), None)
           old == BitAt(item.value, o)
           new == BitsSet(Extended(item.value, o), o, bit)
           r == cmd_setbit(d, key, o, bit)
<1>1. key \in DOMAIN d => item = d[key]
  OBVIOUS
<1>2. \/ item.type # "bitmap" /\ r = Refuse(d, "Dummy")
      \/ /\ IsItem(item) /\ item.type = "bitmap" /\ item.value \in Map
         /\ \/ old = bit /\ r = Outcome(Put(d, key, item), Int64(old))
            \/ old # bit /\ bit \notin {0, 1} /\ r = Refuse(Put(d, key, item), "ParseError")
            \/ /\ old # bit /\ bit \in {0, 1}
               /\ r = Outcome(Put(d, key, StoreItem("bitmap", new, item.expired_at)), Int64(old))
  BY SetbitCases, ZenonT(60)
<1> HIDE DEF item, old, r
<1>3. CASE item.type # "bitmap" /\ r = Refuse(d, "Dummy")
  <2>1. r.data = d
    BY <1>3, Results
  <2> QED BY <2>1, SameKeeps, Zenon DEF r
<1>4. ASSUME NEW value, IsItem(StoreItem("bitmap", value, item.expired_at)),
             r.data = Put(d, key, StoreItem("bitmap", value, item.expired_at))
      PROVE  Keeps(d, r)
  <2>1. "bitmap" # "string"
    OBVIOUS
  <2> QED BY <1>4, <2>1, PutKeeps, Zenon DEF Keeps
<1>5. CASE IsItem(item) /\ item.type = "bitmap" /\ r.data = Put(d, key, item)
  <2>1. item = StoreItem("bitmap", item.value, item.expired_at)
    BY <1>5 DEF IsItem
  <2>2. Keeps(d, r)
    BY <1>4, <1>5, <2>1, Zenon
  <2>3. key \in DOMAIN d => r.data = d
    BY <1>1, <1>5, PutSame
  <2>4. r.ok \/ bit \notin {0, 1}
    BY <1>2, <1>5, Results
  <2> QED BY <2>2, <2>3, <2>4, Zenon DEF r
<1>6. CASE /\ item.value \in Map /\ bit \in {0, 1}
           /\ r = Outcome(Put(d, key, StoreItem("bitmap", new, item.expired_at)), Int64(old))
  <2> DEFINE e == Extended(item.value, o)
  <2>1. e \in Map /\ BlockOf(o) <= Len(e)
    BY <1>6, ExtendedMap
  <2> HIDE DEF e
  <2>2. BitsSet(e, o, bit) \in Map
    BY <1>6, <2>1, MapWithBit
  <2>3. new \in Map
    BY <2>2 DEF e
  <2> HIDE DEF new
  <2>4. IsItem(StoreItem("bitmap", new, item.expired_at))
    BY <2>3, Stored, Zenon DEF Map
  <2>5. r.ok /\ r.data = Put(d, key, StoreItem("bitmap", new, item.expired_at))
    BY <1>6, Results
  <2> QED BY <1>4, <2>4, <2>5, Zenon DEF r
<1>7. ASSUME NEW x, NEW y
      PROVE  /\ r = Outcome(x, y) => r.data = x /\ r.ok
             /\ r = Refuse(x, y) => r.data = x
  BY Results
<1> HIDE DEF new
<1> QED BY <1>2, <1>3, <1>5, <1>6, <1>7, Zenon DEF new

\* The bits that BITOP reads of a key.
LEMMA BitsAreMap ==
    ASSUME NEW d, IsData(d), NEW key, key \in DOMAIN d => HasBits(d, key)
    PROVE  Bits(d, key) \in Map /\ (IF key \in DOMAIN d THEN MapOf(d, key) ELSE <<>>) = Bits(d, key)
<1>1. CASE key \notin DOMAIN d
  <2>1. <<>> \in Map
    BY DEF Map
  <2> QED BY <1>1, <2>1 DEF Bits
<1>2. CASE key \in DOMAIN d /\ d[key].type = "bitmap"
  <2>1. d[key].value \in Map
    BY <1>2 DEF IsData, IsItem, Map
  <2>2. Bits(d, key) = d[key].value
    BY <1>2 DEF Bits, MapOf, Has
  <2> QED BY <1>2, <2>1, <2>2 DEF Bits
<1>3. CASE key \in DOMAIN d /\ d[key].type = "string"
  <2> DEFINE s == d[key].value
             map == [i \in DOMAIN s |-> {b \in 0..7 : b \in BitsOfByte[s[i]]}]
  <2>1. s \in Word
    BY <1>3 DEF IsData, IsItem
  <2>2. Bits(d, key) = map
    BY <1>3 DEF Bits, MapOf, Has
  <2> HIDE DEF s
  <2>3. DOMAIN s = 1..Len(s) /\ Len(s) \in Nat
    BY <2>1 DEF Word
  <2>4. \A i \in DOMAIN s : {b \in 0..7 : b \in BitsOfByte[s[i]]} \in SUBSET (0..7)
    OBVIOUS
  <2>5. map \in [1..Len(s) -> SUBSET (0..7)]
    BY <2>3, <2>4
  <2> HIDE DEF map
  <2>6. map \in Map
    BY <2>3, <2>5, IsASeq DEF Map
  <2> QED BY <1>3, <2>2, <2>6 DEF Bits
<1> QED BY <1>1, <1>2, <1>3 DEF HasBits, Has

\* Two maps combined byte by byte.
Combined(op, m, n) ==
    [i \in 1..Larger(Len(m), Len(n)) |->
        IF op = "AND" THEN ByteAt(m, i) \cap ByteAt(n, i) ELSE ByteAt(m, i) \cup ByteAt(n, i)]

\* The combined map is one, as long as the longer of the two.
LEMMA CombinedMap ==
    ASSUME NEW op, NEW m \in Map, NEW n \in Map
    PROVE  /\ Combined(op, m, n) \in Map
           /\ Len(Combined(op, m, n)) = Larger(Len(m), Len(n))
           /\ Len(m) \in Nat /\ Len(n) \in Nat
<1> DEFINE len == Larger(Len(m), Len(n))
           Byte2(i) == IF op = "AND" THEN ByteAt(m, i) \cap ByteAt(n, i) ELSE ByteAt(m, i) \cup ByteAt(n, i)
<1>1. Len(m) \in Nat /\ Len(n) \in Nat
  BY DEF Map
<1>2. len \in Nat
  BY <1>1 DEF Larger
<1>3. \A i \in 1..len : ByteAt(m, i) \in SUBSET (0..7) /\ ByteAt(n, i) \in SUBSET (0..7)
  <2> SUFFICES ASSUME NEW i \in 1..len
               PROVE  ByteAt(m, i) \in SUBSET (0..7) /\ ByteAt(n, i) \in SUBSET (0..7)
    OBVIOUS
  <2>1. i <= Len(m) => m[i] \in SUBSET (0..7)
    BY <1>1, <1>2 DEF Map
  <2>2. i <= Len(n) => n[i] \in SUBSET (0..7)
    BY <1>1, <1>2 DEF Map
  <2> QED BY <2>1, <2>2 DEF ByteAt
<1> HIDE DEF len
<1>4. \A i \in 1..len : Byte2(i) \in SUBSET (0..7)
  BY <1>3
<1>5. Combined(op, m, n) = [i \in 1..len |-> Byte2(i)]
  BY DEF Combined, len
<1> HIDE DEF Byte2
<1>6. [i \in 1..len |-> Byte2(i)] \in Map /\ Len([i \in 1..len |-> Byte2(i)]) = len
  BY <1>2, <1>4 DEF Map
<1> QED BY <1>1, <1>5, <1>6 DEF len

\* BITOP in all its cases.
LEMMA BitopCases ==
    ASSUME NEW d, IsData(d), NEW op, NEW dest, NEW key1, NEW key2,
           NEW r, r = cmd_bitop(d, op, dest, key1, key2),
           NEW map, map = Combined(op, Bits(d, key1), Bits(d, key2))
    PROVE  \/ ~(op \in {"AND", "OR"} /\ Readable(d, key1) /\ Readable(d, key2)) /\ \E kind : r = Refuse(d, kind)
           \/ /\ op \in {"AND", "OR"} /\ Readable(d, key1) /\ Readable(d, key2)
              /\ r = Outcome(IF map = <<>> THEN Without(d, dest)
                             ELSE Put(d, dest, StoreItem("bitmap", map, None)),
                             Int64(Len(map)))
<1> DEFINE Source(key) == IF key \in DOMAIN d THEN MapOf(d, key) ELSE <<>>
           output == IF op = "AND" THEN combine(Source(key1), Source(key2), LAMBDA a, b : a \cap b)
                     ELSE combine(Source(key1), Source(key2), LAMBDA a, b : a \cup b)
<1>1. CASE op \notin {"AND", "OR"} \/ ~Readable(d, key1) \/ ~Readable(d, key2)
  <2>1. \E kind : r = Refuse(d, kind)
    BY <1>1, Zenon DEF cmd_bitop, Readable
  <2> QED BY <1>1, <2>1
<1>2. CASE op \in {"AND", "OR"} /\ Readable(d, key1) /\ Readable(d, key2)
  <2>1. ~(\E key \in {key1, key2} \cap DOMAIN d : ~HasBits(d, key))
    BY <1>2 DEF Readable
  <2>2. r = Outcome(IF output = <<>> THEN Without(d, dest) ELSE Put(d, dest, StoreItem("bitmap", output, None)),
                    Int64(Len(output)))
    BY <1>2, <2>1, Zenon DEF cmd_bitop
  <2>3. Source(key1) = Bits(d, key1) /\ Source(key2) = Bits(d, key2)
    BY DEF Bits
  <2>4. output = map
    BY <1>2, <2>3, Zenon DEF combine, Combined
  <2> HIDE DEF output
  <2> QED BY <1>2, <2>2, <2>4, Zenon
<1> QED BY <1>1, <1>2

\* BITOP keeps the map and the strings, and changes nothing when it is refused.
LEMMA BitopKeeps ==
    ASSUME NEW d, IsData(d), NEW op, NEW dest, NEW key1, NEW key2
    PROVE  LET r == cmd_bitop(d, op, dest, key1, key2) IN Keeps(d, r) /\ (~r.ok => r.data = d)
<1> DEFINE r == cmd_bitop(d, op, dest, key1, key2)
           output == Combined(op, Bits(d, key1), Bits(d, key2))
<1>1. \/ \E kind : r = Refuse(d, kind)
      \/ /\ op \in {"AND", "OR"} /\ Readable(d, key1) /\ Readable(d, key2)
         /\ r = Outcome(IF output = <<>> THEN Without(d, dest)
                        ELSE Put(d, dest, StoreItem("bitmap", output, None)),
                        Int64(Len(output)))
  <2>1. r = cmd_bitop(d, op, dest, key1, key2)
    OBVIOUS
  <2>2. output = Combined(op, Bits(d, key1), Bits(d, key2))
    OBVIOUS
  <2> HIDE DEF r, output
  <2> QED BY <2>1, <2>2, BitopCases
<1> HIDE DEF r
<1>2. CASE \E kind : r = Refuse(d, kind)
  <2>1. r.data = d
    BY <1>2, Results
  <2> QED BY <2>1, SameKeeps, Zenon DEF r
<1>3. CASE /\ Readable(d, key1) /\ Readable(d, key2)
           /\ r = Outcome(IF output = <<>> THEN Without(d, dest)
                          ELSE Put(d, dest, StoreItem("bitmap", output, None)),
                          Int64(Len(output)))
  <2>1. Bits(d, key1) \in Map /\ Bits(d, key2) \in Map
    BY <1>3, BitsAreMap DEF Readable
  <2>2. output \in Map
    BY <2>1, CombinedMap
  <2> HIDE DEF output
  <2>3. r.ok /\ r.data = IF output = <<>> THEN Without(d, dest) ELSE Put(d, dest, StoreItem("bitmap", output, None))
    BY <1>3, Results
  <2>4. IsItem(StoreItem("bitmap", output, None)) /\ "bitmap" # "string"
    BY <2>2, Stored DEF Map
  <2>5. CASE output = <<>>
    BY <2>3, <2>5, WithoutKeeps, Zenon DEF Keeps, r
  <2>6. CASE output # <<>>
    <3>1. r.data = Put(d, dest, StoreItem("bitmap", output, None))
      BY <2>3, <2>6
    <3> QED BY <2>3, <2>4, <3>1, PutKeeps, Zenon DEF Keeps, r
  <2> QED BY <2>5, <2>6
<1> QED BY <1>1, <1>2, <1>3

-----------------------------------------------------------------------------
(***************************************************************************)
(* A request, whatever it is.                                               *)
(***************************************************************************)

\* The arm of a command.
LEMMA ExecuteArms ==
    ASSUME NEW d, NEW t, NEW cmd
    PROVE  LET args == cmd.args
               r == Execute(d, t, cmd)
           IN /\ cmd.name \in Errors => r = Refuse(d, cmd.name)
              /\ cmd.name = "SET" => r = cmd_set(d, t, args)
              /\ cmd.name = "GET" => r = cmd_get(d, t, args[1])
              /\ cmd.name = "INCR" => r = cmd_incr(d, args[1])
              /\ cmd.name = "RPUSH" => r = cmd_rpush(d, args[1], Tail(args))
              /\ cmd.name = "LPUSH" => r = cmd_lpush(d, args[1], Tail(args))
              /\ cmd.name = "LLEN" => r = cmd_llen(d, args[1])
              /\ cmd.name = "LPOP" => r = cmd_lpop(d, args)
              /\ cmd.name = "LRANGE" => r = cmd_lrange(d, args[1], NumberOf[args[2]], NumberOf[args[3]])
              /\ cmd.name = "SETBIT" => r = cmd_setbit(d, args[1], NumberOf[args[2]], NumberOf[args[3]])
              /\ cmd.name = "GETBIT" => r = cmd_getbit(d, args[1], NumberOf[args[2]])
              /\ cmd.name = "STRLEN" => r = cmd_strlen(d, args[1])
              /\ cmd.name = "BITCOUNT" => r = cmd_bitcount(d, args)
              /\ cmd.name = "BITOP" => r = cmd_bitop(d, args[1][1], args[2], args[3], args[4])
              /\ cmd.name = "TYPE" => r = cmd_type(d, args[1])
              /\ cmd.name = "KEYS" => r = cmd_keys(d, args[1])
<1>1. \A name \in DataCommand : name \notin Errors
  BY DEF DataCommand, Errors
<1>2. /\ "SET" \notin Errors /\ "GET" \notin Errors /\ "INCR" \notin Errors /\ "RPUSH" \notin Errors
      /\ "LPUSH" \notin Errors /\ "LLEN" \notin Errors /\ "LPOP" \notin Errors /\ "LRANGE" \notin Errors
      /\ "SETBIT" \notin Errors /\ "GETBIT" \notin Errors /\ "STRLEN" \notin Errors
      /\ "BITCOUNT" \notin Errors /\ "BITOP" \notin Errors /\ "TYPE" \notin Errors /\ "KEYS" \notin Errors
  BY DEF Errors
<1> QED BY <1>2, Zenon DEF Execute

\* A request other than SET keeps the map and the strings, and is refused after a
\* change only as a SETBIT that makes a new key.
LEMMA RunKeeps ==
    ASSUME NEW d, IsData(d), NEW t, NEW words \in Requests,
           NEW cmd, cmd = from_resp(Request(words)), cmd.name # "SET",
           NEW r, r = Run(d, t, words)
    PROVE  /\ Keeps(d, r)
           /\ ~r.ok /\ r.data # d => /\ cmd.name = "SETBIT" /\ Fits(words, cmd)
                                     /\ NumberOf[cmd.args[3]] \notin {0, 1} /\ cmd.args[1] \notin DOMAIN d
<1> DEFINE args == cmd.args
<1>1. r = Execute(d, t, cmd)
  BY DEF Run
<1>2. cmd.name \in Errors \/ Fits(words, cmd)
  BY RequestFits, Zenon
<1>3. ASSUME r.data = d
      PROVE  Keeps(d, r)
  BY <1>3, SameKeeps
<1>4. CASE cmd.name \in Errors
  <2>1. r = Refuse(d, cmd.name)
    BY <1>1, <1>4, ExecuteArms, Zenon
  <2>2. r.data = d
    BY <2>1, Results
  <2> QED BY <1>3, <2>2
<1>5. CASE Fits(words, cmd) /\ cmd.name \in {"GET", "LLEN", "LRANGE", "GETBIT", "STRLEN", "BITCOUNT", "TYPE", "KEYS"}
  <2>1. \/ r = cmd_get(d, t, args[1]) \/ r = cmd_llen(d, args[1])
        \/ r = cmd_lrange(d, args[1], NumberOf[args[2]], NumberOf[args[3]])
        \/ r = cmd_getbit(d, args[1], NumberOf[args[2]])
        \/ r = cmd_strlen(d, args[1]) \/ r = cmd_bitcount(d, args)
        \/ r = cmd_type(d, args[1]) \/ r = cmd_keys(d, args[1])
    BY <1>1, <1>5, ExecuteArms, ZenonT(60)
  <2>2. r.data = d
    BY <2>1, ReadsChangeNothing
  <2> QED BY <1>3, <2>2
<1>6. CASE Fits(words, cmd) /\ cmd.name = "INCR"
  <2>1. r = cmd_incr(d, args[1])
    BY <1>1, <1>6, ExecuteArms, Zenon
  <2> QED BY <2>1, IncrKeeps, Zenon
<1>7. CASE Fits(words, cmd) /\ cmd.name \in {"RPUSH", "LPUSH"}
  <2>1. r \in {cmd_rpush(d, args[1], Tail(args)), cmd_lpush(d, args[1], Tail(args))}
    BY <1>1, <1>7, ExecuteArms, Zenon
  <2>2. args \in Seq(Word) /\ Len(args) >= 1
    BY <1>7 DEF Fits
  <2> HIDE DEF args
  <2>3. Tail(args) \in Seq(Word)
    BY <2>2
  <2> DEFINE values == Tail(args)
             key == args[1]
  <2> HIDE DEF values, key
  <2>4. values \in Seq(Word) /\ (r = cmd_rpush(d, key, values) \/ r = cmd_lpush(d, key, values))
    BY <2>1, <2>3 DEF values, key
  <2>5. Keeps(d, r) /\ (~r.ok => r.data = d)
    BY <2>4, PushKeeps
  <2> QED BY <2>5, Zenon
<1>8. CASE Fits(words, cmd) /\ cmd.name = "LPOP"
  <2>1. r = cmd_lpop(d, args)
    BY <1>1, <1>8, ExecuteArms, Zenon
  <2>2. Len(args) # 1 => NumberOf[args[2]] \in Nat
    BY <1>8, Zenon DEF Fits
  <2> HIDE DEF args
  <2> QED BY <2>1, <2>2, LpopKeeps
<1>9. CASE Fits(words, cmd) /\ cmd.name = "SETBIT"
  <2>1. r = cmd_setbit(d, args[1], NumberOf[args[2]], NumberOf[args[3]])
    BY <1>1, <1>9, ExecuteArms, Zenon
  <2>2. NumberOf[args[2]] \in Nat
    BY <1>9, Zenon DEF Fits
  <2>3. Keeps(d, r) /\ (~r.ok /\ r.data # d => NumberOf[args[3]] \notin {0, 1} /\ args[1] \notin DOMAIN d)
    <3> HIDE DEF args
    <3> QED BY <2>1, <2>2, SetbitKeeps
  <2> QED BY <1>9, <2>3, Zenon
<1>10. CASE Fits(words, cmd) /\ cmd.name = "BITOP"
  <2>1. r = cmd_bitop(d, args[1][1], args[2], args[3], args[4])
    BY <1>1, <1>10, ExecuteArms, Zenon
  <2> HIDE DEF args
  <2> QED BY <2>1, BitopKeeps
<1>11. Fits(words, cmd) => cmd.name \in DataCommand \ {"SET"}
  BY DEF Fits
<1> QED BY <1>2, <1>4, <1>5, <1>6, <1>7, <1>8, <1>9, <1>10, <1>11 DEF DataCommand

\* SET leaves a string with the deadline of its option.
LEMMA RunSet ==
    ASSUME NEW d, IsData(d), NEW t, NEW words \in Requests,
           NEW cmd, cmd = from_resp(Request(words)), cmd.name = "SET",
           NEW r, r = Run(d, t, words)
    PROVE  LET item == StoreItem("string", cmd.args[2], extract_deadline(t, cmd.args))
           IN IsItem(item) /\ r.ok /\ r.data = Put(d, cmd.args[1], item)
<1> DEFINE args == cmd.args
           item == StoreItem("string", args[2], extract_deadline(t, args))
<1>1. "SET" \notin Errors
  BY DEF Errors
<1>2. Fits(words, cmd)
  BY <1>1, RequestFits, Zenon
<1>3. args \in Seq(Word) /\ Len(args) >= 2
  BY <1>2 DEF Fits
<1>4. args[2] \in Word
  <2> HIDE DEF args
  <2> QED BY <1>3
<1>5. IsItem(item)
  BY <1>4, Stored, Zenon
<1>6. r = cmd_set(d, t, args)
  BY ExecuteArms, Zenon DEF Run
<1>7. r = Outcome(Put(d, args[1], item), Ok)
  BY <1>6, Zenon DEF cmd_set
<1> HIDE DEF item
<1>8. r.ok /\ r.data = Put(d, args[1], item)
  BY <1>7, Results
<1> QED BY <1>5, <1>8 DEF item

-----------------------------------------------------------------------------
(***************************************************************************)
(* The inductive invariant and the theorems.                                *)
(***************************************************************************)

\* A string that SET left, with PX or without an option, has the deadline that was
\* promised for it.
PromiseInv ==
    \A key \in DOMAIN promise :
        Has(data, key, "string") /\ promise[key].option # "EX" =>
            data[key].expired_at = promise[key].at

KeyspaceInv == IsData(data) /\ DOMAIN promise \subseteq DOMAIN data /\ PromiseInv

\* The deadline that is stored is the one that was promised, but for EX.
LEMMA DeadlineIsPromised ==
    ASSUME NEW args, Option(args) # "EX"
    PROVE  extract_deadline(now, args) = Promised(args).at
<1> DEFINE at == CASE Option(args) = "EX" -> now + 1000 * NumberOf[args[4]]
                   [] Option(args) = "PX" -> now + NumberOf[args[4]]
                   [] OTHER -> None
<1>1. extract_deadline(now, args) = at
  <2>1. CASE Option(args) = "PX"
    <3>1. extract_deadline(now, args) = now + NumberOf[args[4]]
      BY <2>1, Zenon DEF extract_deadline
    <3>2. at = now + NumberOf[args[4]]
      BY <2>1, Zenon
    <3> QED BY <3>1, <3>2, Zenon
  <2>2. CASE Option(args) # "PX"
    <3>1. extract_deadline(now, args) = None
      BY <2>2, Zenon DEF extract_deadline
    <3>2. at = None
      BY <2>2, Zenon
    <3> QED BY <3>1, <3>2, Zenon
  <2> QED BY <2>1, <2>2
<1> HIDE DEF at
<1>2. Promised(args) = [option |-> Option(args), at |-> at]
  BY Zenon DEF Promised, at
<1> QED BY <1>1, <1>2

\* A request keeps the invariant.
LEMMA HandleKeeps ==
    ASSUME KeyspaceInv, NEW words \in Requests, Handle(words)
    PROVE  KeyspaceInv'
<1> DEFINE cmd == from_resp(Request(words))
           r == Run(data, now, words)
<1>1. /\ data' = r.data
      /\ promise' = IF cmd.name = "SET" THEN Put(promise, cmd.args[1], Promised(cmd.args))
                    ELSE Restrict(promise, DOMAIN promise \cap DOMAIN r.data)
  BY DEF Handle
<1> HIDE DEF cmd, r
<1>2. cmd = from_resp(Request(words)) /\ r = Run(data, now, words)
  BY DEF cmd, r
<1>3. CASE cmd.name = "SET"
  <2> DEFINE key == cmd.args[1]
             at == extract_deadline(now, cmd.args)
             item == StoreItem("string", cmd.args[2], at)
             p == Promised(cmd.args)
  <2>1. IsItem(item) /\ data' = Put(data, key, item)
    BY <1>1, <1>2, <1>3, RunSet DEF KeyspaceInv
  <2>2. promise' = Put(promise, key, p)
    BY <1>1, <1>3
  <2>3. item.expired_at = at
    BY Results
  <2>4. p.option # "EX" => at = p.at
    <3>1. p.option = Option(cmd.args)
      BY DEF Promised
    <3> QED BY <3>1, DeadlineIsPromised
  <2> HIDE DEF key, at, item, p
  <2>5. /\ data' = [k \in DOMAIN data' |-> data'[k]] /\ DOMAIN data' = DOMAIN data \cup {key}
        /\ \A k \in DOMAIN data' : data'[k] = IF k = key THEN item ELSE data[k]
    BY <2>1 DEF Put
  <2>6. /\ DOMAIN promise' = DOMAIN promise \cup {key}
        /\ \A k \in DOMAIN promise' : promise'[k] = IF k = key THEN p ELSE promise[k]
    BY <2>2 DEF Put
  <2>7. IsData(data')
    BY <2>1, <2>5 DEF KeyspaceInv, IsData
  <2>8. DOMAIN promise' \subseteq DOMAIN data'
    BY <2>5, <2>6 DEF KeyspaceInv
  <2>9. PromiseInv'
    <3> SUFFICES ASSUME NEW k \in DOMAIN promise', k \in DOMAIN data', data'[k].type = "string",
                        promise'[k].option # "EX"
                 PROVE  data'[k].expired_at = promise'[k].at
      BY DEF PromiseInv, Has
    <3>1. CASE k = key
      BY <2>3, <2>4, <2>5, <2>6, <3>1
    <3>2. CASE k # key
      BY <2>5, <2>6, <3>2 DEF KeyspaceInv, PromiseInv, Has
    <3> QED BY <3>1, <3>2
  <2> QED BY <2>7, <2>8, <2>9 DEF KeyspaceInv
<1>4. CASE cmd.name # "SET"
  <2>1. IsData(data') /\ KeepsExpiry(data, data')
    BY <1>1, <1>2, <1>4, RunKeeps DEF KeyspaceInv, Keeps
  <2>2. /\ DOMAIN promise' = DOMAIN promise \cap DOMAIN data'
        /\ \A k \in DOMAIN promise' : promise'[k] = promise[k]
    BY <1>1, <1>4 DEF Restrict
  <2>3. PromiseInv'
    <3> SUFFICES ASSUME NEW k \in DOMAIN promise', k \in DOMAIN data', data'[k].type = "string",
                        promise'[k].option # "EX"
                 PROVE  data'[k].expired_at = promise'[k].at
      BY DEF PromiseInv, Has
    <3>1. k \in DOMAIN promise /\ k \in DOMAIN data /\ promise'[k] = promise[k]
      BY <2>2 DEF KeyspaceInv
    <3>2. data[k].type = "string" /\ data'[k].expired_at = data[k].expired_at
      BY <2>1, <3>1 DEF KeepsExpiry
    <3> QED BY <3>1, <3>2 DEF KeyspaceInv, PromiseInv, Has
  <2> QED BY <2>1, <2>2, <2>3 DEF KeyspaceInv
<1> QED BY <1>3, <1>4

\* Every key holds a well-formed item, whatever requests came, and every deadline that
\* a PX or a plain SET promised is the one that is stored, also after an INCR, a BITOP
\* over the key or a SET of another.
THEOREM KeyspaceInvCorrect == Spec => []KeyspaceInv
<1>1. Init => KeyspaceInv
  <2> SUFFICES ASSUME Init PROVE KeyspaceInv
    OBVIOUS
  <2>1. DOMAIN data = {} /\ data = [k \in DOMAIN data |-> data[k]] /\ DOMAIN promise = {}
    BY DEF Init, EmptyMap
  <2> QED BY <2>1 DEF KeyspaceInv, IsData, PromiseInv
<1>2. KeyspaceInv /\ [Next]_vars => KeyspaceInv'
  <2> SUFFICES ASSUME KeyspaceInv, [Next]_vars PROVE KeyspaceInv'
    OBVIOUS
  <2>1. ASSUME NEW words \in Requests, Handle(words) PROVE KeyspaceInv'
    BY <2>1, HandleKeeps
  <2>2. CASE Tick \/ UNCHANGED vars
    <3>1. data' = data /\ promise' = promise
      BY <2>2 DEF Tick, vars
    <3> QED BY <3>1 DEF KeyspaceInv, PromiseInv
  <2> QED BY <2>1, <2>2 DEF Next
<1> QED BY <1>1, <1>2, PTL DEF Spec

\* What SET leaves, with PX or without an option, is answered until its time and not
\* after it, for any requests in between.
THEOREM PxInTime == Spec => []PxExpiresOnTime
<1>1. ASSUME KeyspaceInv, NEW key \in DOMAIN promise, Has(data, key, "string"),
             promise[key].option # "EX"
      PROVE  GoneInTime(key)
  <2> DEFINE item == data[key]
  <2>1. key \in DOMAIN data /\ item.type = "string" /\ item.expired_at = promise[key].at
    BY <1>1 DEF Has, KeyspaceInv, PromiseInv
  <2>2. cmd_get(data, now, key) =
           Outcome(data, IF Expired(item, now) THEN NullBulkStr ELSE BulkStr(item.value))
    BY <2>1, Zenon DEF cmd_get, Has
  <2> HIDE DEF item
  <2>3. cmd_get(data, now, key).reply = IF Expired(item, now) THEN NullBulkStr ELSE BulkStr(item.value)
    BY <2>2, Results
  <2>4. BulkStr(item.value) # NullBulkStr
    <3>1. BulkStr(item.value).some = TRUE /\ NullBulkStr.some = FALSE
      BY DEF BulkStr, NullBulkStr, Resp
    <3> QED BY <3>1
  <2>5. Expired(item, now) <=> promise[key].at # None /\ now > promise[key].at
    BY <2>1, Zenon DEF Expired
  <2> QED BY <2>3, <2>4, <2>5, Zenon DEF GoneInTime
<1>2. KeyspaceInv => PxExpiresOnTime
  BY <1>1 DEF PxExpiresOnTime
<1> QED BY <1>2, KeyspaceInvCorrect, PTL

\* A command that is answered with an error has changed nothing, but for a SETBIT of
\* neither 0 nor 1 on a new key.
THEOREM RefusalsChangeNothing == Spec => []RefusedChangesNothing
<1>1. ASSUME KeyspaceInv, NEW words \in Requests, NEW r, r = Run(data, now, words),
             ~r.ok, r.data # data
      PROVE  words[1] = <<"SETBIT">> /\ words[4] \notin {WordOf(0), WordOf(1)} /\ words[2] \notin DOMAIN data
  <2> DEFINE cmd == from_resp(Request(words))
  <2>1. cmd.name # "SET"
    <3>1. ASSUME cmd.name = "SET" PROVE r.ok
      BY <1>1, <3>1, RunSet DEF KeyspaceInv
    <3> QED BY <1>1, <3>1
  <2>2. /\ cmd.name = "SETBIT" /\ Fits(words, cmd)
        /\ NumberOf[cmd.args[3]] \notin {0, 1} /\ cmd.args[1] \notin DOMAIN data
    BY <1>1, <2>1, RunKeeps DEF KeyspaceInv
  <2> HIDE DEF cmd
  <2>3. "SETBIT" # "GET"
    OBVIOUS
  <2>4. /\ words[1] = <<"SETBIT">> /\ words[2] = cmd.args[1] /\ words[4] = cmd.args[3]
        /\ cmd.args[3] \in DOMAIN NumberOf
    BY <2>2, <2>3, Zenon DEF Fits
  <2>5. ASSUME NEW bit \in {0, 1}, words[4] = WordOf(bit) PROVE FALSE
    <3> DEFINE n == NumberOf[words[4]]
    <3>1. n \in Numbers /\ WordOf(n) = words[4]
      BY <2>4, ReadNumber
    <3>2. n = bit
      <4> HIDE DEF n
      <4> QED BY <2>5, <3>1, WordOfAssumption
    <3> QED BY <2>2, <2>4, <3>2
  <2> QED BY <2>2, <2>4, <2>5
<1>2. KeyspaceInv => RefusedChangesNothing
  BY <1>1 DEF RefusedChangesNothing
<1> QED BY <1>2, KeyspaceInvCorrect, PTL

\* An array of bulk strings, with its length.
LEMMA RequestOf ==
    ASSUME NEW s \in Seq(Word)
    PROVE  Request(s) = Resp("Array", Len(s), TRUE, Items(s)) /\ [Request(s) EXCEPT !.length = Len(s)] = Request(s)
<1>1. Request(s) = Resp("Array", Len(s), TRUE, Items(s))
  <2>1. Len(Items(s)) = Len(s)
    BY ItemsOfWords
  <2>2. Request(s) = Resp("Array", Len(Items(s)), TRUE, Items(s))
    BY DEF Request, Array, Items
  <2> QED BY <2>1, <2>2, Zenon
<1>2. [Request(s) EXCEPT !.length = Len(s)] = Request(s)
  <2> DEFINE r == Request(s)
  <2>1. r = Resp("Array", Len(s), TRUE, Items(s))
    BY <1>1
  <2> HIDE DEF r
  <2>2. r = [field \in DOMAIN r |-> r[field]] /\ r.length = Len(s)
    BY <2>1 DEF Resp
  <2>3. [r EXCEPT !.length = Len(s)] = r
    BY <2>2
  <2> QED BY <2>3 DEF r
<1> QED BY <1>1, <1>2

\* The ends of a range that has items are those of the slice; the slice of one that has
\* none is empty.
LEMMA RangeEnds ==
    ASSUME NEW len \in Nat \ {0}, NEW start \in Int, NEW stop \in Int, stop >= -len
    PROVE  LET a == Larger(IF start < 0 THEN len + start ELSE start, 0)
               b == Smaller(IF stop < 0 THEN len + stop ELSE stop, len - 1)
           IN /\ a \in Nat /\ b \in Nat /\ b < len
              /\ start > stop /\ start > 0 /\ stop > 0 => b < a
              /\ start >= 0 /\ len > 0 /\ start > len - 1 => b < a
              /\ ~(start >= 0 /\ len > 0 /\ start > len - 1)
                    => a < len /\ RangeEnd(start, len) = a /\ RangeEnd(stop, len) = b
BY DEF Larger, Smaller, RangeEnd

\* The words of a list from one place to another, and how many they are.
LEMMA PartOfList ==
    ASSUME NEW list \in Seq(Word), NEW a \in Nat, NEW b \in Nat, b < Len(list)
    PROVE  LET s == SubSeq(list, a + 1, b + 1)
           IN /\ s \in Seq(Word) /\ Len(s) = IF b < a THEN 0 ELSE b - a + 1
              /\ b < a => s = <<>>
<1>1. \A m, n \in Nat : m = a + 1 /\ n = b + 1 =>
        LET s == SubSeq(list, m, n)
        IN /\ s \in Seq(Word) /\ Len(s) = IF b < a THEN 0 ELSE b - a + 1
           /\ b < a => s = <<>>
  OBVIOUS
<1> QED BY <1>1

\* LRANGE answers the slice of a list that has items, for a stop that is not before its
\* first item.
LEMMA RangeOfList ==
    ASSUME NEW d, IsData(d), NEW key \in DOMAIN d, d[key].type = "list", d[key].value # <<>>,
           NEW start \in Int, NEW stop \in Int, stop >= -Len(d[key].value)
    PROVE  cmd_lrange(d, key, start, stop).reply = Request(Slice(d[key].value, start, stop))
<1> DEFINE list == d[key].value
           len == Len(list)
           At(i) == IF i < 0 THEN len + i ELSE i
           a == Larger(At(start), 0)
           b == Smaller(At(stop), len - 1)
           nothing == \/ start > stop /\ start > 0 /\ stop > 0
                      \/ start >= 0 /\ len > 0 /\ start > len - 1
           min_index == RangeEnd(start, len)
           max_index == RangeEnd(stop, len)
           output_len == IF max_index < min_index THEN 0 ELSE max_index - min_index + 1
           r == cmd_lrange(d, key, start, stop)
           s == SubSeq(list, a + 1, b + 1)
           n == IF b < a THEN 0 ELSE b - a + 1
<1>1. list \in Seq(Word)
  BY DEF IsData, IsItem
<1>2. Slice(list, start, stop) = s
  BY DEF Slice
<1>3. r = IF nothing THEN Outcome(d, Array(<<>>))
          ELSE Outcome(d, [Request(IF len = 0 THEN <<>> ELSE SubSeq(list, min_index + 1, max_index + 1))
                              EXCEPT !.length = output_len])
  BY Zenon DEF cmd_lrange, Has
<1>4. list # <<>> /\ stop >= -len
  OBVIOUS
<1> HIDE DEF list, r
<1>5. len \in Nat \ {0}
  BY <1>1, <1>4
<1>6. /\ a \in Nat /\ b \in Nat /\ b < len
      /\ start > stop /\ start > 0 /\ stop > 0 => b < a
      /\ start >= 0 /\ len > 0 /\ start > len - 1 => b < a
      /\ ~(start >= 0 /\ len > 0 /\ start > len - 1) => a < len /\ min_index = a /\ max_index = b
  <2> HIDE DEF len
  <2>1. len \in Nat \ {0} /\ stop >= -len
    BY <1>4, <1>5
  <2> QED BY <2>1, RangeEnds, Zenon
<1> HIDE DEF min_index, max_index, At, a, b
<1>7. s \in Seq(Word) /\ Len(s) = n /\ (b < a => s = <<>>)
  BY <1>1, <1>6, PartOfList
<1> HIDE DEF s, len
<1>8. Request(<<>>) = Array(<<>>)
  <2>1. <<>> \in Seq(Word) /\ Len(<<>>) = 0
    OBVIOUS
  <2>2. Items(<<>>) = <<>>
    BY DEF Items
  <2> QED BY <2>1, <2>2, RequestOf, Zenon DEF Array
<1>9. CASE nothing
  <2>1. s = <<>>
    BY <1>6, <1>7, <1>9
  <2>2. r = Outcome(d, Array(<<>>))
    BY <1>3, <1>9, Zenon
  <2>3. r.reply = Array(<<>>)
    BY <2>2, Results
  <2>4. r.reply = Request(s)
    BY <1>8, <2>1, <2>3, Zenon
  <2> QED BY <1>2, <2>4, Zenon DEF list, r
<1>10. CASE ~nothing
  <2>1. min_index = a /\ max_index = b /\ len # 0
    BY <1>5, <1>6, <1>10
  <2>2. r = Outcome(d, [Request(s) EXCEPT !.length = n])
    BY <1>3, <1>10, <2>1, Zenon DEF s
  <2>3. [Request(s) EXCEPT !.length = n] = Request(s)
    BY <1>7, RequestOf, Zenon
  <2>4. r.reply = Request(s)
    <3>1. r = Outcome(d, Request(s))
      BY <2>2, <2>3, Zenon
    <3> QED BY <3>1, Results
  <2> QED BY <1>2, <2>4, Zenon DEF list, r
<1> QED BY <1>9, <1>10, Zenon

\* LRANGE answers the slice of the list as it is, for every pair of ends.
THEOREM RangesAreSlices == Spec => []RangeIsSlice
<1>1. ASSUME KeyspaceInv, NEW key \in DOMAIN data, NEW start \in Numbers, NEW stop \in Numbers,
             Has(data, key, "list"), data[key].value # <<>>, stop >= -Len(data[key].value)
      PROVE  cmd_lrange(data, key, start, stop).reply = Request(Slice(data[key].value, start, stop))
  BY <1>1, RangeOfList, CmdBuilderAssumption DEF KeyspaceInv, Has
<1>2. KeyspaceInv => RangeIsSlice
  BY <1>1, Zenon DEF RangeIsSlice
<1> QED BY <1>2, KeyspaceInvCorrect, PTL

\* A bit is one when the byte of its offset has it.
LEMMA OneAt ==
    ASSUME NEW map, NEW o
    PROVE  (BitAt(map, o) = 1) <=> BitOf(o) \in ByteAt(map, BlockOf(o))
BY DEF BitAt, ByteAt

\* A byte of the combined map is combined from the two bytes at its place.
LEMMA CombinedByte ==
    ASSUME NEW op, NEW m \in Map, NEW n \in Map, NEW k \in Nat, k >= 1
    PROVE  ByteAt(Combined(op, m, n), k) =
               IF op = "AND" THEN ByteAt(m, k) \cap ByteAt(n, k) ELSE ByteAt(m, k) \cup ByteAt(n, k)
<1> DEFINE c == Combined(op, m, n)
           len == Larger(Len(m), Len(n))
           Both == IF op = "AND" THEN ByteAt(m, k) \cap ByteAt(n, k) ELSE ByteAt(m, k) \cup ByteAt(n, k)
<1>1. Len(c) = len /\ Len(m) \in Nat /\ Len(n) \in Nat
  BY CombinedMap
<1>2. len \in Nat /\ Len(m) <= len /\ Len(n) <= len
  BY <1>1 DEF Larger
<1>3. k \in 1..len => c[k] = Both
  BY DEF Combined
<1> HIDE DEF c, len
<1>4. CASE k <= len
  BY <1>1, <1>2, <1>3, <1>4 DEF ByteAt, c
<1>5. CASE ~(k <= len)
  <2>1. ByteAt(c, k) = {} /\ ByteAt(m, k) = {} /\ ByteAt(n, k) = {}
    BY <1>1, <1>2, <1>5 DEF ByteAt
  <2> QED BY <2>1 DEF c
<1> QED BY <1>4, <1>5

\* What is left beside a key does not depend on what is stored there.
LEMMA BesidePut ==
    ASSUME NEW d, NEW key, NEW item
    PROVE  /\ Without(Put(d, key, item), key) = Without(d, key)
           /\ key \in DOMAIN Put(d, key, item) /\ Put(d, key, item)[key] = item
BY DEF Without, Put, Restrict

\* Nor on whether the key is still there.
LEMMA BesideWithout ==
    ASSUME NEW d, NEW key
    PROVE  Without(Without(d, key), key) = Without(d, key) /\ key \notin DOMAIN Without(d, key)
BY DEF Without, Restrict

\* BITOP leaves the combined map, answers its length, as STRLEN does, and changes no other key.
LEMMA BitopResult ==
    ASSUME NEW d, IsData(d), NEW op \in {"AND", "OR"}, NEW dest, NEW key1, NEW key2,
           Readable(d, key1), Readable(d, key2),
           NEW r, r = cmd_bitop(d, op, dest, key1, key2),
           NEW map, map = Combined(op, Bits(d, key1), Bits(d, key2))
    PROVE  /\ Bits(r.data, dest) = map
           /\ r.reply = Int64(Len(map)) /\ cmd_strlen(r.data, dest).reply = r.reply
           /\ Without(r.data, dest) = Without(d, dest)
<1> DEFINE item == StoreItem("bitmap", map, None)
<1>1. r = Outcome(IF map = <<>> THEN Without(d, dest) ELSE Put(d, dest, item), Int64(Len(map)))
  BY BitopCases
<1>2. r.reply = Int64(Len(map)) /\ r.data = IF map = <<>> THEN Without(d, dest) ELSE Put(d, dest, item)
  <2> HIDE DEF item
  <2> QED BY <1>1, Results
<1>3. CASE map = <<>>
  <2>1. r.data = Without(d, dest) /\ dest \notin DOMAIN r.data
    BY <1>2, <1>3, BesideWithout, Zenon
  <2>2. Bits(r.data, dest) = map
    BY <1>3, <2>1, Zenon DEF Bits
  <2>3. cmd_strlen(r.data, dest) = Outcome(r.data, Int64(0))
    BY <2>1, Zenon DEF cmd_strlen, ReadBits, Has, HasBits
  <2>4. Len(map) = 0
    BY <1>3
  <2>5. cmd_strlen(r.data, dest).reply = Int64(0)
    BY <2>3, Results
  <2>6. cmd_strlen(r.data, dest).reply = r.reply
    BY <1>2, <2>4, <2>5, Zenon
  <2>7. Without(r.data, dest) = Without(d, dest)
    BY <2>1, BesideWithout, Zenon
  <2> QED BY <1>2, <2>2, <2>6, <2>7, Zenon
<1>4. CASE map # <<>>
  <2>1. r.data = Put(d, dest, item) /\ dest \in DOMAIN r.data /\ r.data[dest] = item
    <3>1. r.data = Put(d, dest, item)
      BY <1>2, <1>4
    <3> HIDE DEF item
    <3> QED BY <3>1, BesidePut
  <2>2. item.type = "bitmap" /\ item.value = map
    BY Results
  <2> HIDE DEF item
  <2>3. Has(r.data, dest, "bitmap") /\ HasBits(r.data, dest) /\ ~Has(r.data, dest, "string")
    <3>1. "bitmap" # "string"
      OBVIOUS
    <3> QED BY <2>1, <2>2, <3>1, Zenon DEF Has, HasBits
  <2>4. MapOf(r.data, dest) = map
    BY <2>1, <2>2, <2>3, Zenon DEF MapOf
  <2>5. Bits(r.data, dest) = map
    BY <2>1, <2>4, Zenon DEF Bits
  <2>6. cmd_strlen(r.data, dest) = Outcome(r.data, Int64(Len(map)))
    BY <2>1, <2>3, <2>4, Zenon DEF cmd_strlen, ReadBits
  <2>7. cmd_strlen(r.data, dest).reply = Int64(Len(map))
    BY <2>6, Results
  <2>8. Without(r.data, dest) = Without(d, dest)
    BY <2>1, BesidePut
  <2> QED BY <1>2, <2>5, <2>7, <2>8, Zenon
<1> QED BY <1>3, <1>4

\* BITOP combines two maps bit by bit, strings and missing keys too, whatever the
\* destination is, and changes nothing else.
THEOREM BitopIsCombined == Spec => []BitopIsPointwise
<1> DEFINE PointwiseFor(op, dest, key1, key2) ==
               LET r == cmd_bitop(data, op, dest, key1, key2)
                   result == Bits(r.data, dest)
                   One(map, o) == BitAt(map, o) = 1
               IN /\ \A o \in Offsets :
                       One(result, o) <=> IF op = "AND" THEN One(Bits(data, key1), o) /\ One(Bits(data, key2), o)
                                          ELSE One(Bits(data, key1), o) \/ One(Bits(data, key2), o)
                  /\ r.reply = Int64(Len(result)) /\ cmd_strlen(r.data, dest).reply = r.reply
                  /\ Without(r.data, dest) = Without(data, dest)
<1>1. ASSUME KeyspaceInv, NEW op \in {"AND", "OR"}, NEW dest \in Keys, NEW key1 \in Keys, NEW key2 \in Keys,
             Readable(data, key1), Readable(data, key2)
      PROVE  PointwiseFor(op, dest, key1, key2)
  <2> DEFINE r == cmd_bitop(data, op, dest, key1, key2)
             m == Bits(data, key1)
             n == Bits(data, key2)
             map == Combined(op, m, n)
  <2>1. m \in Map /\ n \in Map
    BY <1>1, BitsAreMap, Zenon DEF KeyspaceInv, Readable
  <2>2. /\ Bits(r.data, dest) = map
        /\ r.reply = Int64(Len(map)) /\ cmd_strlen(r.data, dest).reply = r.reply
        /\ Without(r.data, dest) = Without(data, dest)
    <3>1. /\ r = cmd_bitop(data, op, dest, key1, key2)
          /\ map = Combined(op, Bits(data, key1), Bits(data, key2))
      OBVIOUS
    <3> HIDE DEF r, map
    <3> QED BY <1>1, <3>1, BitopResult DEF KeyspaceInv
  <2>3. ASSUME NEW o \in Offsets
        PROVE  (BitAt(map, o) = 1) <=> IF op = "AND" THEN BitAt(m, o) = 1 /\ BitAt(n, o) = 1
                                       ELSE BitAt(m, o) = 1 \/ BitAt(n, o) = 1
    <3> DEFINE k == BlockOf(o)
               b == BitOf(o)
    <3>1. k \in Nat /\ k >= 1
      BY Offset, KeyspaceAssumption
    <3> HIDE DEF m, n, k, b
    <3>2. ByteAt(map, k) = IF op = "AND" THEN ByteAt(m, k) \cap ByteAt(n, k) ELSE ByteAt(m, k) \cup ByteAt(n, k)
      BY <2>1, <3>1, CombinedByte
    <3> HIDE DEF map
    <3>3. /\ (BitAt(map, o) = 1) <=> b \in ByteAt(map, k)
          /\ (BitAt(m, o) = 1) <=> b \in ByteAt(m, k)
          /\ (BitAt(n, o) = 1) <=> b \in ByteAt(n, k)
      BY OneAt, Zenon DEF k, b
    <3> QED BY <3>2, <3>3
  <2> HIDE DEF map, r
  <2> QED BY <2>2, <2>3, Zenon DEF r
<1>2. KeyspaceInv => BitopIsPointwise
  <2>1. BitopIsPointwise <=> \A op \in {"AND", "OR"}, dest, key1, key2 \in Keys :
                                Readable(data, key1) /\ Readable(data, key2) => PointwiseFor(op, dest, key1, key2)
    BY DEF BitopIsPointwise
  <2> HIDE DEF PointwiseFor
  <2> QED BY <1>1, <2>1, Zenon
<1> QED BY <1>2, KeyspaceInvCorrect, PTL

-----------------------------------------------------------------------------
(***************************************************************************)
(* SETBIT and BITCOUNT.                                                     *)
(***************************************************************************)

\* A map m is the map n but for the bit at an offset.
DiffersAt(m, n, o, bit) ==
    \A i \in Nat \ {0} :
        ByteAt(m, i) = IF i = BlockOf(o) THEN WithBit(ByteAt(n, i), BitOf(o), bit) ELSE ByteAt(n, i)

\* A map whose bit is as asked for is the map with that bit.
LEMMA SameBit ==
    ASSUME NEW m, NEW n, NEW o \in Nat, NEW bit \in {0, 1}, BitAt(m, o) = bit,
           \A i \in Nat \ {0} : ByteAt(m, i) = ByteAt(n, i)
    PROVE  DiffersAt(m, n, o, bit)
<1>1. BlockOf(o) \in Nat \ {0}
  BY Offset
<1>2. (bit = 1) <=> BitOf(o) \in ByteAt(n, BlockOf(o))
  BY <1>1, OneAt
<1> QED BY <1>2 DEF DiffersAt, WithBit

\* Setting a bit of the extended map changes that bit.
LEMMA NewBit ==
    ASSUME NEW map \in Map, NEW o \in Nat, NEW bit \in {0, 1}
    PROVE  LET m == BitsSet(Extended(map, o), o, bit) IN m \in Map /\ DiffersAt(m, map, o, bit)
<1> DEFINE e == Extended(map, o)
           m == BitsSet(e, o, bit)
           k == BlockOf(o)
           b == BitOf(o)
<1>1. k \in Nat \ {0}
  BY Offset
<1>2. /\ e \in Map /\ Len(e) \in Nat /\ k <= Len(e) /\ Len(map) <= Len(e)
      /\ \A i \in 1..Len(e) : e[i] = IF i <= Len(map) THEN map[i] ELSE {}
  BY ExtendedMap, Zenon
<1>3. Len(map) \in Nat
  BY DEF Map
<1> HIDE DEF e
<1>4. /\ m \in Map /\ Len(m) = Len(e)
      /\ \A i \in 1..Len(e) : m[i] = IF i = k THEN WithBit(e[i], b, bit) ELSE e[i]
  BY <1>2, MapWithBit, Zenon
<1> HIDE DEF m, k, b
<1>5. ASSUME NEW i \in Nat \ {0}
      PROVE  ByteAt(m, i) = IF i = k THEN WithBit(ByteAt(map, i), b, bit) ELSE ByteAt(map, i)
  <2>1. CASE i <= Len(e)
    <3>1. i \in 1..Len(e)
      BY <1>2, <2>1
    <3>2. ByteAt(m, i) = m[i] /\ ByteAt(map, i) = e[i]
      BY <1>2, <1>4, <3>1, <2>1 DEF ByteAt
    <3> QED BY <1>4, <3>1, <3>2
  <2>2. CASE ~(i <= Len(e))
    <3>1. i # k /\ ~(i <= Len(map)) /\ ~(i <= Len(m))
      BY <1>1, <1>2, <1>3, <1>4, <2>2
    <3> QED BY <3>1 DEF ByteAt
  <2> QED BY <2>1, <2>2
<1>6. DiffersAt(m, map, o, bit)
  BY <1>5, Zenon DEF DiffersAt, k, b
<1> QED BY <1>4, <1>6, Zenon DEF m, e

\* SETBIT answers the bit that was there, leaves the map with the bit as it is asked
\* for, and changes no other key.
LEMMA SetbitResult ==
    ASSUME NEW d, IsData(d), NEW key, NEW o \in Nat, NEW bit \in {0, 1},
           key \in DOMAIN d => Has(d, key, "bitmap"),
           NEW r, r = cmd_setbit(d, key, o, bit),
           NEW before, before = Bits(d, key),
           NEW after, after = Bits(r.data, key)
    PROVE  /\ before \in Map /\ after \in Map
           /\ r.reply = Int64(BitAt(before, o))
           /\ Without(r.data, key) = Without(d, key)
           /\ DiffersAt(after, before, o, bit)
<1> DEFINE item == IF key \in DOMAIN d THEN d[key] ELSE StoreItem("bitmap", Zeros(Blocks(o)), None)
           old == BitAt(item.value, o)
           new == BitsSet(Extended(item.value, o), o, bit)
           same == StoreItem("bitmap", item.value, item.expired_at)
           other == StoreItem("bitmap", new, item.expired_at)
<1>1. item.type = "bitmap"
  BY Results DEF Has
<1>2. /\ IsItem(item) /\ item.value \in Map
      /\ \/ old = bit /\ r = Outcome(Put(d, key, item), Int64(old))
         \/ old # bit /\ r = Outcome(Put(d, key, other), Int64(old))
  <2> DEFINE q == cmd_setbit(d, key, o, bit)
  <2>1. \/ item.type # "bitmap" /\ q = Refuse(d, "Dummy")
        \/ /\ IsItem(item) /\ item.type = "bitmap" /\ item.value \in Map
           /\ \/ old = bit /\ q = Outcome(Put(d, key, item), Int64(old))
              \/ old # bit /\ bit \notin {0, 1} /\ q = Refuse(Put(d, key, item), "ParseError")
              \/ old # bit /\ bit \in {0, 1} /\ q = Outcome(Put(d, key, other), Int64(old))
    BY SetbitCases, ZenonT(60)
  <2>2. q = r
    OBVIOUS
  <2> HIDE DEF item, old, other, q
  <2> QED BY <1>1, <2>1, <2>2, Zenon
<1>3. before \in Map
  BY BitsAreMap DEF HasBits
<1>4. \A i \in Nat \ {0} : ByteAt(item.value, i) = ByteAt(before, i)
  <2>1. CASE key \in DOMAIN d
    <3>1. item = d[key] /\ before = d[key].value
      BY <2>1, Zenon DEF Bits, MapOf
    <3> QED BY <3>1
  <2>2. CASE key \notin DOMAIN d
    <3> DEFINE z == Zeros(Blocks(o))
    <3>1. Blocks(o) \in Nat
      BY Offset
    <3>2. Len(z) = Blocks(o) /\ \A i \in 1..Blocks(o) : z[i] = {}
      BY <3>1, ZerosAreMap
    <3>3. item.value = z /\ before = <<>>
      BY <2>2, Results DEF Bits
    <3> HIDE DEF item, z
    <3>4. ASSUME NEW i \in Nat \ {0} PROVE ByteAt(z, i) = {} /\ ByteAt(<<>>, i) = {}
      BY <3>1, <3>2 DEF ByteAt
    <3> QED BY <3>3, <3>4
  <2> QED BY <2>1, <2>2
<1> HIDE DEF item
<1>5. old = BitAt(before, o)
  <2>1. BlockOf(o) \in Nat \ {0}
    BY Offset
  <2>2. (BitAt(item.value, o) = 1) <=> (BitAt(before, o) = 1)
    BY <1>4, <2>1, OneAt
  <2> QED BY <2>2 DEF BitAt
<1> HIDE DEF old
<1>6. ASSUME NEW m, m \in Map, NEW i, i.type = "bitmap", i.value = m,
             r = Outcome(Put(d, key, i), Int64(old)), DiffersAt(m, before, o, bit)
      PROVE  /\ after \in Map /\ r.reply = Int64(BitAt(before, o))
             /\ Without(r.data, key) = Without(d, key) /\ DiffersAt(after, before, o, bit)
  <2>1. r.data = Put(d, key, i) /\ r.reply = Int64(old)
    BY <1>6, Results
  <2>2. Without(r.data, key) = Without(d, key) /\ key \in DOMAIN r.data /\ r.data[key] = i
    BY <2>1, BesidePut
  <2>3. after = m
    BY <1>6, <2>2, Zenon DEF Bits, MapOf, Has
  <2> QED BY <1>5, <1>6, <2>1, <2>2, <2>3, Zenon
<1>7. CASE old = bit /\ r = Outcome(Put(d, key, item), Int64(old))
  <2>1. DiffersAt(item.value, before, o, bit)
    BY <1>4, <1>7, SameBit DEF old
  <2> QED BY <1>1, <1>2, <1>3, <1>6, <1>7, <2>1, Zenon
<1>8. CASE r = Outcome(Put(d, key, other), Int64(old))
  <2>1. new \in Map /\ DiffersAt(new, item.value, o, bit)
    BY <1>2, NewBit, Zenon
  <2> HIDE DEF new
  <2>2. other.type = "bitmap" /\ other.value = new
    BY Results
  <2> HIDE DEF other
  <2>3. DiffersAt(new, before, o, bit)
    BY <1>4, <2>1 DEF DiffersAt
  <2> QED BY <1>3, <1>6, <1>8, <2>1, <2>2, <2>3, Zenon
<1> QED BY <1>2, <1>7, <1>8, Zenon

\* The places of the bits of a map that are one.
Places(map) == {p \in (Nat \ {0}) \X (0..7) : p[2] \in ByteAt(map, p[1])}

\* CountOnes counts them.
LEMMA OnesOfMap ==
    ASSUME NEW map \in Map
    PROVE  Ones(map, 1, Len(map)) = Places(map) /\ IsFiniteSet(Places(map))
<1> DEFINE len == Len(map)
           all == (1..len) \X (0..7)
<1>1. len \in Nat
  BY DEF Map
<1> HIDE DEF len
<1>2. IsFiniteSet(1..len) /\ IsFiniteSet(0..7)
  <2>1. 1 \in Int /\ len \in Int /\ 0 \in Int /\ 7 \in Int
    BY <1>1
  <2> QED BY <2>1, FS_Interval, Zenon
<1>3. IsFiniteSet(all)
  BY <1>2, FS_Product
<1>4. Ones(map, 1, len) = Places(map)
  BY <1>1 DEF Ones, Places, ByteAt, len
<1>5. Ones(map, 1, len) \subseteq all
  BY DEF Ones
<1> HIDE DEF all
<1>6. IsFiniteSet(Ones(map, 1, len))
  BY <1>3, <1>5, FS_Subset
<1> QED BY <1>4, <1>6, Zenon DEF len

\* Another bit is another count.
LEMMA CountFollows ==
    ASSUME NEW m \in Map, NEW n \in Map, NEW o \in Nat, NEW bit \in {0, 1}, DiffersAt(m, n, o, bit)
    PROVE  CountOnes(m, 1, Len(m)) = CountOnes(n, 1, Len(n)) + bit - BitAt(n, o)
<1> DEFINE k == BlockOf(o)
           b == BitOf(o)
           x == <<k, b>>
           old == BitAt(n, o)
           P == Places(m)
           Q == Places(n)
<1>1. k \in Nat \ {0} /\ b \in 0..7
  BY Offset
<1>2. old \in {0, 1} /\ ((old = 1) <=> b \in ByteAt(n, k))
  <2>1. old \in {0, 1}
    BY DEF BitAt
  <2> QED BY <2>1, OneAt, Zenon
<1>3. CountOnes(m, 1, Len(m)) = Cardinality(P) /\ CountOnes(n, 1, Len(n)) = Cardinality(Q)
  BY OnesOfMap, Zenon DEF CountOnes
<1>4. IsFiniteSet(P) /\ IsFiniteSet(Q)
  BY OnesOfMap
<1>5. \A i \in Nat \ {0} : ByteAt(m, i) = IF i = k THEN WithBit(ByteAt(n, i), b, bit) ELSE ByteAt(n, i)
  BY Zenon DEF DiffersAt
<1> HIDE DEF k, b, old
<1>6. (old = 1) <=> x \in Q
  BY <1>1, <1>2 DEF Places
<1>7. P = IF bit = 1 THEN Q \cup {x} ELSE Q \ {x}
  <2>1. CASE bit = 1
    BY <1>1, <1>5, <2>1 DEF Places, WithBit
  <2>2. CASE bit = 0
    BY <1>1, <1>5, <2>2 DEF Places, WithBit
  <2> QED BY <2>1, <2>2
<1> HIDE DEF P, Q, x
<1>8. Cardinality(Q) \in Nat
  BY <1>4, FS_CardinalityType
<1>9. /\ Cardinality(Q \cup {x}) = IF x \in Q THEN Cardinality(Q) ELSE Cardinality(Q) + 1
      /\ Cardinality(Q \ {x}) = IF x \in Q THEN Cardinality(Q) - 1 ELSE Cardinality(Q)
  BY <1>4, FS_AddElement, FS_RemoveElement
<1>10. Cardinality(P) = Cardinality(Q) + bit - old
  <2>1. CASE bit = 1
    BY <1>2, <1>6, <1>7, <1>8, <1>9, <2>1
  <2>2. CASE bit = 0
    BY <1>2, <1>6, <1>7, <1>8, <1>9, <2>2
  <2> QED BY <2>1, <2>2
<1> QED BY <1>3, <1>10, Zenon DEF old

\* The places are those of the offsets up to the last bit, one each.
LEMMA PlacesAreOffsets ==
    ASSUME NEW map \in Map
    PROVE  Cardinality({i \in 0..(8 * Len(map) - 1) : BitAt(map, i) > 0}) = Cardinality(Places(map))
<1> DEFINE len == Len(map)
           S == {i \in 0..(8 * len - 1) : BitAt(map, i) > 0}
           T == Places(map)
           f == [i \in S |-> <<BlockOf(i), BitOf(i)>>]
<1>1. len \in Nat
  BY DEF Map
<1>2. \A i \in Nat : BitAt(map, i) > 0 <=> BitOf(i) \in ByteAt(map, BlockOf(i))
  BY DEF BitAt, ByteAt
<1> HIDE DEF len
<1>3. S \subseteq Nat /\ IsFiniteSet(S)
  <2>1. IsFiniteSet(0..(8 * len - 1)) /\ S \subseteq 0..(8 * len - 1)
    BY <1>1, FS_Interval
  <2> QED BY <1>1, <2>1, FS_Subset
<1>4. \A i \in S : f[i] \in T
  BY <1>2, <1>3, Offset DEF Places
<1>5. \A i, j \in S : f[i] = f[j] => i = j
  <2> SUFFICES ASSUME NEW i \in S, NEW j \in S, f[i] = f[j] PROVE i = j
    OBVIOUS
  <2>1. BlockOf(i) = BlockOf(j) /\ BitOf(i) = BitOf(j)
    OBVIOUS
  <2> QED BY <1>3, <2>1, OffsetIsOwn
<1>6. ASSUME NEW p \in T PROVE \E i \in S : f[i] = p
  <2> DEFINE k == p[1]
             b == p[2]
             i == 8 * (k - 1) + (7 - b)
  <2>1. p = <<k, b>> /\ k \in Nat \ {0} /\ b \in 0..7 /\ b \in ByteAt(map, k)
    BY DEF Places
  <2>2. k <= len
    BY <2>1 DEF ByteAt, len
  <2> HIDE DEF k, b
  <2>3. i \in 0..(8 * len - 1) /\ BlockOf(i) = k /\ BitOf(i) = b
    BY <1>1, <2>1, <2>2 DEF BlockOf, BitOf
  <2> HIDE DEF i
  <2>4. i \in S
    BY <1>1, <1>2, <2>1, <2>3
  <2> QED BY <2>1, <2>3, <2>4
<1> HIDE DEF S, T
<1>7. f \in Bijection(S, T)
  <2>1. f \in [S -> T]
    BY <1>4
  <2> QED BY <1>5, <1>6, <2>1 DEF Bijection, Injection, IsInjective, Surjection
<1>8. Cardinality(T) = Cardinality(S)
  BY <1>3, <1>7, FS_Bijection DEF ExistsBijection
<1> QED BY <1>8 DEF S, T, len

\* BITCOUNT over all bits is BITCOUNT over all bytes.
LEMMA CountedInBits ==
    ASSUME NEW map \in Map
    PROVE  bit_count(map, 0, -1, "BIT") = CountOnes(map, 1, Len(map))
<1> DEFINE len == 8 * Len(map)
           From(i) == IF i < 0 THEN Larger(len + i, 0) ELSE i
           last == Smaller(From(-1), len - 1)
           S == {i \in 0..(len - 1) : BitAt(map, i) > 0}
<1>1. bit_count(map, 0, -1, "BIT") =
          IF len = 0 \/ From(0) > last THEN 0 ELSE Cardinality({i \in From(0)..last : BitAt(map, i) > 0})
  <2>1. "BIT" # "BYTE"
    OBVIOUS
  <2> QED BY <2>1, Zenon DEF bit_count
<1>2. Len(map) \in Nat
  BY DEF Map
<1>3. From(0) = 0 /\ (len # 0 => last = len - 1 /\ ~(0 > last)) /\ len \in Nat
  BY <1>2 DEF Larger, Smaller
<1>4. Cardinality(S) = CountOnes(map, 1, Len(map))
  BY PlacesAreOffsets, OnesOfMap, Zenon DEF CountOnes
<1> HIDE DEF From, last, len
<1>5. CASE len = 0
  <2>1. S = {}
    BY <1>5
  <2>2. Cardinality(S) = 0
    BY <2>1, FS_EmptySet
  <2> QED BY <1>1, <1>4, <1>5, <2>2, Zenon
<1>6. CASE len # 0
  BY <1>1, <1>3, <1>4, <1>6, Zenon
<1> QED BY <1>5, <1>6

\* SETBIT answers the old bit and changes that bit only, and BITCOUNT follows it, in
\* bits as in bytes.
THEOREM BitsChangeAlone == Spec => []BitsAreIndependent
<1> DEFINE Alone(key, at, bit) ==
               LET r == cmd_setbit(data, key, at, bit)
                   before == Bits(data, key)
                   after == Bits(r.data, key)
               IN /\ r.reply = Int64(BitAt(before, at))
                  /\ Without(r.data, key) = Without(data, key)
                  /\ \A o \in Offsets : BitAt(after, o) = IF o = at THEN bit ELSE BitAt(before, o)
                  /\ CountOnes(after, 1, Len(after)) = CountOnes(before, 1, Len(before)) + bit - BitAt(before, at)
                  /\ CountOnes(after, 1, Len(after)) = bit_count(after, 0, -1, "BIT")
<1>1. ASSUME KeyspaceInv, NEW key \in Keys, NEW at \in Offsets, NEW bit \in {0, 1},
             key \in DOMAIN data => Has(data, key, "bitmap")
      PROVE  Alone(key, at, bit)
  <2> DEFINE r == cmd_setbit(data, key, at, bit)
             before == Bits(data, key)
             after == Bits(r.data, key)
  <2>1. Offsets \subseteq Nat
    BY KeyspaceAssumption
  <2>2. /\ before \in Map /\ after \in Map /\ DiffersAt(after, before, at, bit)
        /\ r.reply = Int64(BitAt(before, at)) /\ Without(r.data, key) = Without(data, key)
    <3>1. r = cmd_setbit(data, key, at, bit) /\ before = Bits(data, key) /\ after = Bits(r.data, key)
      OBVIOUS
    <3>2. at \in Nat
      BY <2>1
    <3> HIDE DEF r, before, after
    <3> QED BY <1>1, <3>1, <3>2, SetbitResult DEF KeyspaceInv
  <2> HIDE DEF r, before, after
  <2>3. ASSUME NEW o \in Offsets PROVE BitAt(after, o) = IF o = at THEN bit ELSE BitAt(before, o)
    <3>1. o \in Nat /\ at \in Nat
      BY <2>1
    <3>2. BlockOf(o) \in Nat \ {0}
      BY <3>1, Offset
    <3>3. BlockOf(o) = BlockOf(at) /\ BitOf(o) = BitOf(at) => o = at
      BY <3>1, OffsetIsOwn
    <3>4. (BitAt(after, o) = 1) <=> IF o = at THEN bit = 1 ELSE BitAt(before, o) = 1
      BY <2>2, <3>2, <3>3, OneAt DEF DiffersAt, WithBit
    <3>5. BitAt(after, o) \in {0, 1} /\ BitAt(before, o) \in {0, 1}
      BY DEF BitAt
    <3> QED BY <3>4, <3>5
  <2>4. CountOnes(after, 1, Len(after)) = CountOnes(before, 1, Len(before)) + bit - BitAt(before, at)
    BY <2>1, <2>2, CountFollows
  <2>5. CountOnes(after, 1, Len(after)) = bit_count(after, 0, -1, "BIT")
    BY <2>2, CountedInBits
  <2> QED BY <2>2, <2>3, <2>4, <2>5, Zenon DEF r, before, after
<1>2. KeyspaceInv => BitsAreIndependent
  <2>1. BitsAreIndependent <=> \A key \in Keys, at \in Offsets, bit \in {0, 1} :
                                  (key \in DOMAIN data => Has(data, key, "bitmap")) => Alone(key, at, bit)
    BY DEF BitsAreIndependent
  <2> HIDE DEF Alone
  <2> QED BY <1>1, <2>1, Zenon
<1> QED BY <1>2, KeyspaceInvCorrect, PTL

=============================================================================
