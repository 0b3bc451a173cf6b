----------------------------- MODULE Addresses -----------------------------
(***************************************************************************)
(* The addresses of links, images and forms: src/utils/url_helper.cpp, the *)
(* test of src/utils/safety.cpp and the encoding of src/network/urlcode.c. *)
(* An address is a sequence of characters; "http:" is one of them, "j:"    *)
(* any other scheme.                                                       *)
(***************************************************************************)
EXTENDS Naturals, Sequences

CONSTANTS MaxUrl

Starts(s, prefix) == Len(s) >= Len(prefix) /\ SubSeq(s, 1, Len(prefix)) = prefix
From(s, i) == SubSeq(s, i, Len(s))

\* find_first_of from i on; one past the end if there is none.
Find(s, set, i) ==
  LET found == {k \in i..Len(s) : s[k] \in set}
  IN IF found = {} THEN Len(s) + 1 ELSE CHOOSE k \in found : \A j \in found : k <= j

authority == 4     \* what follows "http:" "/" "/"

httpUrl(url) ==
  LET hostEnd == Find(url, {"/", "?", "#"}, authority)
  IN /\ Starts(url, <<"http:", "/", "/">>)
     /\ Len(url) >= authority /\ Len(url) <= MaxUrl /\ hostEnd > authority
     /\ \A i \in authority..hostEnd - 1 : url[i] # "@"
     /\ \A i \in DOMAIN url : url[i] \notin {" ", "\\"}

\* The parts of a path between its slashes.
Split(path) ==
  LET split[i \in 1..Len(path) + 1] ==
        IF i = Len(path) + 1 THEN <<>>
        ELSE LET end == Find(path, {"/"}, i)
             IN <<SubSeq(path, i, end - 1)>> \o
                (IF end >= Len(path) THEN <<>> ELSE split[end + 1])
  IN IF Len(path) < 2 THEN <<>> ELSE split[2]

Resolved(parts) ==
  LET walk[i \in 0..Len(parts)] ==
        IF i = 0 THEN <<>>
        ELSE LET done == walk[i - 1]
             IN IF parts[i] = <<".", ".">>
                THEN IF done = <<>> THEN done ELSE SubSeq(done, 1, Len(done) - 1)
                ELSE IF parts[i] \in {<<>>, <<".">>} THEN done ELSE Append(done, parts[i])
  IN walk[Len(parts)]

Join(parts) ==
  LET join[i \in 0..Len(parts)] ==
        IF i = 0 THEN <<>> ELSE join[i - 1] \o (IF i > 1 THEN <<"/">> ELSE <<>>) \o parts[i]
  IN join[Len(parts)]

Ends(s, tail) == Len(s) >= Len(tail) /\ From(s, Len(s) - Len(tail) + 1) = tail

normalize(url) ==
  LET pathStart == Find(url, {"/", "?", "#"}, authority)
      suffix == Find(url, {"?", "#"}, authority)
      path == SubSeq(url, pathStart, suffix - 1)
      components == Resolved(Split(path))
      slash == /\ components # <<>>
               /\ Ends(path, <<"/">>) \/ Ends(path, <<"/", ".">>) \/ Ends(path, <<"/", ".", ".">>)
  IN IF ~httpUrl(url) THEN <<>>
     ELSE IF pathStart > Len(url) \/ url[pathStart] # "/" THEN url
     ELSE SubSeq(url, 1, pathStart - 1) \o <<"/">> \o Join(components)
          \o (IF slash THEN <<"/">> ELSE <<>>) \o From(url, suffix)

\* urlGetHost without its last slash, and urlGetRoot.
Origin(url) == SubSeq(url, 1, Find(url, {"/", "?", "#"}, authority) - 1)
urlGetRoot(url) ==
  LET base == SubSeq(url, 1, Find(url, {"?", "#"}, 1) - 1)
      slashes == {i \in authority..Len(base) : base[i] = "/"}
  IN IF slashes = {} THEN Append(base, "/")
     ELSE SubSeq(base, 1, CHOOSE i \in slashes : \A j \in slashes : j <= i)

\* An address with a scheme that is not HTTP's is not a relative one.
OtherScheme(link) == Find(link, {"http:", "j:", ":"}, 1) < Find(link, {"/", "?", "#"}, 1)

\* adjustUrl, jumpUrl and parseUrl are this.
urlAdjust(link, base) ==
  IF link = <<>> THEN normalize(base)
  ELSE IF httpUrl(link) THEN normalize(link)
  ELSE IF ~httpUrl(base) THEN <<>>
  ELSE IF Starts(link, <<"/", "/">>) THEN normalize(<<"http:">> \o link)
  ELSE IF OtherScheme(link) THEN <<>>
  ELSE CASE link[1] = "#" -> normalize(SubSeq(base, 1, Find(base, {"#"}, 1) - 1) \o link)
         [] link[1] = "?" -> normalize(SubSeq(base, 1, Find(base, {"?", "#"}, 1) - 1) \o link)
         [] link[1] = "/" -> normalize(Origin(base) \o link)
         [] OTHER -> normalize(urlGetRoot(base) \o link)

\* The quoted text of a script, for links that are scripts.
strToUrl(attr) ==
  LET i == Find(attr, {"'", "q"}, 1)
  IN IF i > Len(attr) THEN <<>> ELSE SubSeq(attr, i + 1, Find(attr, {attr[i]}, i + 1) - 1)

createLink(href, onclick) ==
  LET script == Starts(href, <<"j:">>)
  IN IF href # <<>> /\ href[1] # "#" /\ ~script THEN href
     ELSE IF script /\ strToUrl(href) # <<>> THEN strToUrl(href)
     ELSE strToUrl(onclick)

\* getUrl of handle.cpp: the address of a refresh, without its quotes.
getUrl(content) ==
  LET plain == SelectSeq(content, LAMBDA c : c \notin {"'", "q"})
      at == Find(plain, {"url="}, 1)
  IN From(plain, at + 1)

-----------------------------------------------------------------------------
(* url_encode and url_decode, on bytes.                                    *)

Hex == <<48, 49, 50, 51, 52, 53, 54, 55, 56, 57, 97, 98, 99, 100, 101, 102>>
Alnum(c) == c \in 48..57 \cup 65..90 \cup 97..122
Plain(c) == Alnum(c) \/ c \in {45, 95, 46, 126}

url_encode(s) ==
  LET encode[i \in 0..Len(s)] ==
        IF i = 0 THEN <<>>
        ELSE encode[i - 1] \o
             (IF Plain(s[i]) THEN <<s[i]>> ELSE IF s[i] = 32 THEN <<43>>
              ELSE <<37, Hex[(s[i] \div 16) + 1], Hex[(s[i] % 16) + 1]>>)
  IN encode[Len(s)]

from_hex(c) == CHOOSE v \in 0..15 : Hex[v + 1] = c
IsHex(s, i) == i <= Len(s) /\ \E v \in 1..16 : Hex[v] = s[i]

url_decode(s) ==
  LET decode[i \in 1..Len(s) + 3] ==
        IF i > Len(s) THEN <<>>
        ELSE IF s[i] = 37 /\ IsHex(s, i + 1) /\ IsHex(s, i + 2)
        THEN <<16 * from_hex(s[i + 1]) + from_hex(s[i + 2])>> \o decode[i + 3]
        ELSE <<IF s[i] = 43 THEN 32 ELSE s[i]>> \o decode[i + 1]
  IN decode[1]

-----------------------------------------------------------------------------
(* Properties, of a page at `base` and a link on it.                       *)

\* A link leads to an HTTP address or nowhere; there it is in its final
\* form: resolved again, against any page, it stays what it is, which is
\* what the list of the history, the bookmarks and the forms do with it.
Settled(link, base) ==
  LET url == urlAdjust(link, base)
  IN url # <<>> => httpUrl(url) /\ urlAdjust(url, base) = url /\ urlAdjust(url, <<>>) = url

\* Only a link that names a host leaves the page's own, and the dots of a
\* path cannot climb out of it.
KeepsHost(link, base) ==
  LET url == urlAdjust(link, base)
      names == httpUrl(link) \/ Starts(link, <<"/", "/">>)
      path == SubSeq(url, Len(Origin(url)) + 1, Find(url, {"?", "#"}, authority) - 1)
  IN url # <<>> =>
       /\ names \/ Origin(url) = Origin(base)
       /\ \A i \in DOMAIN Split(path) : Split(path)[i] \notin {<<".">>, <<".", ".">>}

\* A field of a form arrives as it was typed, and cannot be taken for two.
ArrivesAsTyped(text) ==
  /\ url_decode(url_encode(text)) = text
  /\ \A i \in DOMAIN url_encode(text) : url_encode(text)[i] \notin {38, 61, 35, 63, 47, 32}
=============================================================================
