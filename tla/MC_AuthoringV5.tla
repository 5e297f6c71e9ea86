--------------------------- MODULE MC_AuthoringV5 ---------------------------
(* Instances of AuthoringV5.  Packs of one or two and batches of one or two *)
(* make two or three sessions cover several packs, several preparation      *)
(* batches and several member chunks.                                       *)
EXTENDS AuthoringV5Refinement, TLC

CONSTANTS s1, s2, s3, r1

Imported == WithTranscript(FreshRow, "imported")
ReadyRow == QualityPassed(Imported, "automatic", 0)
PublishedRow == Published(DossierApplied(EnrichmentSatisfied(ReadyRow)))

(* One re-enriching request over a ready session with two pages, one that is *)
(* published already, and one whose transcript is not imported yet.         *)
OneSelection == r1 :> <<s1, s2, s3>>
MixedRows == (s1 :> ReadyRow) @@ (s2 :> PublishedRow) @@ (s3 :> FreshRow)
ThreePages == (s1 :> 2) @@ (s2 :> 1) @@ (s3 :> 1)
=============================================================================
