------------------------------ MODULE MCSources -----------------------------
(***************************************************************************)
(* Trace files of up to three rows.  Native files have ties, times out of  *)
(* order and before 0, and rows without tokens; Azure files have dates on  *)
(* both sides of month ends, leap days, and years that only look like leap *)
(* years.                                                                  *)
(***************************************************************************)
EXTENDS ArrivalSources, SequencesExt

Row(t, p, o) == [time |-> t, prompt |-> p, output |-> o]
Date(y, m, d, h) == [year |-> y, month |-> m, day |-> d, hour |-> h]

MCNativeRows ==
  {Row(t, p, o) : t \in {-1000, 0, 2000}, p \in {0, 2}, o \in {0, 3}} \cup {Malformed}

MCAzureRows ==
  {Row(Date(2023, 11, 30, 23), 1, 1), Row(Date(2023, 12, 1, 0), 1, 1),
   Row(Date(2023, 12, 1, 0), 2, 1),
   Row(Date(2023, 12, 31, 23), 1, 1), Row(Date(2024, 1, 1, 0), 1, 1),
   Row(Date(2024, 2, 28, 12), 1, 1), Row(Date(2024, 2, 29, 0), 1, 1),
   Row(Date(2024, 3, 1, 1), 1, 1), Row(Date(2023, 2, 28, 5), 1, 1),
   Row(Date(2023, 3, 1, 5), 1, 1), Row(Date(2100, 2, 28, 9), 1, 1),
   Row(Date(2100, 3, 1, 9), 1, 1), Row(Date(2000, 2, 29, 9), 1, 1)}

MCFiles ==
  [is_azure : {FALSE}, rows : BoundedSeq(MCNativeRows, 3)]
    \cup [is_azure : {TRUE}, rows : BoundedSeq(MCAzureRows, 3)]
=============================================================================
