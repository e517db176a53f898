----------------------------- MODULE MCWireTest -----------------------------
(***************************************************************************)
(* Campaigns for WireTest.  Each takes the channels that can disturb each  *)
(* other and at least one of each kind of fault on their lines.            *)
(***************************************************************************)
EXTENDS WireTest

\* An ordinary loopback, the one that only reads, and an ADC channel.
Mixed ==
    [tests |-> {<<"LOOPBACK_TEST", 16>>, <<"LOOPBACK_TEST", 29>>, <<"ADCP_TEST", 3>>},
     faults |-> {<<"GPDO1", 0>>, <<"GPDO1", ON>>, <<"GPDI1", ON>>, <<"PWM3", 50>>,
                 <<"CH3", 100>>, <<"SPI_STE_C28", 0>>},
     patient |-> TRUE]

\* The RS-485 test and the loopbacks that drive two of its direction lines.
Bus ==
    [tests |-> {<<"RS485_TEST", 0>>, <<"LOOPBACK_TEST", 26>>, <<"LOOPBACK_TEST", 27>>},
     faults |-> {<<"RS485_TX", 0>>, <<"UART_M3_TX", ON>>, <<"SCIRXDA", 0>>,
                 <<"SCITXDA", ON>>, <<"RS485_RX", ON>>, <<"INT_ARM", 0>>},
     patient |-> FALSE]

\* The tests of components.  (A cell stuck at the very byte that is written to
\* it is not among the faults: no run of the test can find it.)
ClockAndSupply ==
    [tests |-> {<<"RTC_TEST", 0>>, <<"ISO_PS_TEST", 0>>},
     faults |-> {<<"SRAM6", 0>>, <<"DCDC_STATUS", ON>>},
     patient |-> FALSE]

ExpandersAndRam ==
    [tests |-> {<<"EXIO_TEST", 0>>, <<"RAM_TEST", 0>>},
     faults |-> {<<"EXIO2_CONFIG", 255>>, <<"RAM12", 0>>},
     patient |-> FALSE]

AllCampaigns == {Mixed, Bus, ClockAndSupply, ExpandersAndRam}

ASSUME CampaignsTell == \A k \in AllCampaigns : Tellable(k)

\* The channel whose success is stored as that of another.
PassElsewhere ==
    { [tests |-> {<<"LOOPBACK_TEST", 10>>, <<"LOOPBACK_TEST", 15>>},
       faults |-> {<<"GPDO2", 0>>}, patient |-> TRUE] }

=============================================================================
