---- MODULE MCIngestion ----
(* Small instances of Ingestion for TLC. *)
EXTENDS Ingestion

CONSTANTS file1, url1, a, b

FileAndUrl == {file1, url1}
UrlOnly == {url1}
TwoContents == {a, b}
====
