--------------------------- MODULE MCInstruments ---------------------------
(***************************************************************************)
(* The instruments for TLC: a behaviour is one of the SAE instrument, of   *)
(* the lens instrument, or of one generation's reads.                      *)
(***************************************************************************)
EXTENDS SaeInstrument, LensInstrument, ReadPlane

\* One pretrained release with two hook layers, one dictionary trained here.
SaeLayers == [a |-> {1, 2}, mine |-> {1}]
Widths == [a |-> {1, 2}, mine |-> {1}]

\* Lenses that share a layer, and one of another model.
SourceLayers == [A |-> {1, 2}, B |-> {2, 3}, X |-> {1}]

VARIABLE part

\* The two readout families are read alike: one of them, or both in the same way.
Usage(f, alive) == <<f \in want.attached, f \in want.gates, alive>>
Unused == <<FALSE, FALSE, FALSE>>
AlikeOrOne ==
  LET lens == Usage("lens", want.lensLive)
      sae == Usage("sae", want.saeLive)
  IN lens = Unused \/ sae = Unused \/ lens = sae

WantsNothing ==
  want = [attached |-> {}, gates |-> {}, live |-> FALSE, loom |-> FALSE, consumer |-> "none",
          hidden |-> FALSE, readings |-> FALSE, lensLive |-> FALSE, saeLive |-> FALSE, clean |-> FALSE]

MCInit ==
  /\ part \in {"sae", "lens", "reads"}
  /\ SaeInit /\ LensInstrumentInit /\ ReadsInit
  /\ part = "reads" => AlikeOrOne
  /\ part # "reads" => WantsNothing
  /\ part # "lens" => onDisk = Null

MCNext ==
  \/ part = "sae" /\ SaeNext /\ UNCHANGED <<part, lensInstrumentVars, readsVars>>
  \/ part = "lens" /\ LensInstrumentNext /\ UNCHANGED <<part, saeVars, readsVars>>
  \/ part = "reads" /\ ReadsNext /\ UNCHANGED <<part, saeVars, lensInstrumentVars>>

MCSpec == MCInit /\ [][MCNext]_<<part, saeVars, lensInstrumentVars, readsVars>>
=============================================================================
