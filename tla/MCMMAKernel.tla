------------------------------- MODULE MCMMAKernel -----------------------------
(***************************************************************************)
(* Rows for the emulation kernels.  E4M3: 0 and 128 are zeros, 1 and 7     *)
(* subnormal, 56 is 1.0, 63 is 1.875, 184 is -1.0, 126 is 448, 127 a NaN.  *)
(* E2M1: 1 is 0.5, 2 is 1.0, 7 is 6.0, 9 is -0.5, 15 is -6.0.  E8M0 scales *)
(* are 2^(s - 127), 255 is a NaN.                                          *)
(***************************************************************************)
EXTENDS MMAKernel

Row(elem, sf) == [elem |-> [i \in 0 .. Len(elem) - 1 |-> elem[i + 1]],
                  sf   |-> [i \in 0 .. Len(sf) - 1 |-> sf[i + 1]]]

FP8Rows ==
    {Row(e, <<>>) : e \in {<<56, 63, 184, 126, 57>>, <<1, 56, 135, 7, 121>>,
                           <<126, 254, 8, 1, 190>>, <<0, 128, 127, 0, 0>>,
                           <<63, 191, 63, 191, 129>>, <<126, 126, 126, 126, 126>>,
                           <<9, 1, 1, 248, 120>>, <<0, 0, 0, 0, 133>>,
                           <<127, 254, 0, 255, 1>>}}

MXFP4Rows ==
    {Row(<<1, 7, 15, 2, 3, 9, 6, 14>>, sf) :
        sf \in {<<127, 127, 120, 130>>, <<254, 0, 127, 127>>, <<60, 62, 61, 40>>,
                <<127, 127, 127, 255>>, <<67, 63, 66, 64>>}}
    \cup {Row(<<0, 0, 8, 0, 5, 5, 13, 13>>, sf) :
        sf \in {<<254, 255, 254, 127>>, <<0, 100, 63, 64>>, <<0, 0, 61, 58>>}}
    \cup {Row(<<2, 0, 0, 3, 0, 0, 9, 1>>, sf) :
        sf \in {<<254, 0, 0, 60>>, <<127, 254, 1, 67>>}}

NVFP4Rows ==
    {Row(<<1, 7, 15, 2, 3, 9>>, sf) :
        sf \in {<<56, 63, 126>>, <<1, 7, 2>>, <<0, 57, 184>>, <<56, 127, 56>>,
                <<126, 1, 121>>}}
    \cup {Row(<<0, 8, 5, 13, 1, 1>>, sf) : sf \in {<<127, 56, 1>>, <<62, 120, 1>>, <<1, 1, 1>>}}

MCRows == [k \in Kernel |->
              IF k \in FP8Kernels THEN FP8Rows
              ELSE IF k \in {"mxfp4_gdfs", "mxfp4_cofda"} THEN MXFP4Rows ELSE NVFP4Rows]
===============================================================================
