------------------------------ MODULE MCBrowse ------------------------------
(* Browse for TLC: a form whose address holds an HTML entity, one whose    *)
(* address holds none, a link to the same address, and a link to nowhere.  *)
EXTENDS Browse
CONSTANTS form, rawForm, search, ftp

MCDecoded == [u \in Urls |-> IF u = rawForm THEN form ELSE u]
MCButtons ==
  << [kind |-> "post", url |-> form], [kind |-> "dead", url |-> form],
     [kind |-> "link", url |-> form] >>
EntityButtons == << [kind |-> "post", url |-> rawForm] >>
ImageButtons == <<[kind |-> "link", url |-> form]>>
=============================================================================
