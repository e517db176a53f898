------------------------------ MODULE MCCanBkp ------------------------------
(***************************************************************************)
(* The four models with two identifiers on the bus each: that of a status  *)
(* message and that of a measurement.  Bit 1 is a hard interlock and bit 6 *)
(* a soft one, in the models that have so many.                            *)
(***************************************************************************)
EXTENDS CanBkp

AllModels ==
    {"FAP_DCDC_20kHz", "FAP_ACDC", "FAC_Full_ACDC_10kHz", "FAC_Full_DCDC_20kHz"}

OneModel == {"FAP_DCDC_20kHz"}

StatusAndMeasures ==
    [m \in AllModels |->
        CASE m = "FAP_DCDC_20kHz" -> {"011", "013"}
          [] m = "FAP_ACDC" -> {"011", "014"}
          [] OTHER -> {"011", "021"}]

QuietOrTwoBits ==
    { [alarms |-> {}, interlocks |-> {}], [alarms |-> {1, 2}, interlocks |-> {1, 6}] }

=============================================================================
