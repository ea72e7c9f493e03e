------------------------------- MODULE MCPeople -------------------------------
\* One member of staff, two days (the second is free), a leave of two days, a request of one
\* day and both permissions, two adjustments and two withdrawals.
EXTENDS People

CONSTANTS ada

MCDayType == <<"WORKING", "OFF">>
MCAsk == [r \in {"leave", "day", "late", "early"} |->
            [staff |-> ada,
             type  |-> CASE r = "late" -> "LATE_ARRIVAL" [] r = "early" -> "EARLY_DEPARTURE" [] OTHER -> "LEAVE",
             first |-> IF r = "day" THEN 2 ELSE 1,
             last  |-> IF r \in {"leave", "day"} THEN 2 ELSE 1]]
MCSalary == [s \in Staff |-> 6]
MCOpening == [s \in Staff |-> 2]
MCAdjusteeOf == [x \in Adjustable |-> ada]

\* The second month, in which one hired on day 2 goes over to commission on day 7.
MCSheets == [type : CompensationTypes, hired : {0, 1, 2, 6, 9}, first : {5}, last : {8},
             base : {1200}, commission : {1200}, scheduled : {{}, {5, 6, 7}}, missed : {{}}, extra : {{}, {8}},
             sold : {{}, {5, 8}}, allowances : {100}, bonus : {0}, late : {0}, words : {{}}, deducted : {0}]
         \cup [type : CompensationTypes, hired : {0, 2, 6}, first : {5}, last : {8},
             base : {1200}, commission : {1200}, scheduled : {5..8}, missed : {{}, {6}, {6, 8}}, extra : {{}},
             sold : {{6}}, allowances : {0}, bonus : {200}, late : {100},
             words : {{}, {"loan"}, {"fine"}, {"loan", "fine"}}, deducted : {300}]

MCScenarios == {{"time", "clock", "sweep", "correct"}, {"time", "clock", "sweep", "leave"},
                {"time", "clock", "extra", "generate"},
                {"adjustments", "generate", "approve_payroll", "recalculate"},
                {"generate", "approve_payroll", "send_back", "recalculate"},
                {"adjustments", "generate", "approve_payroll", "correct_payslip"},
                {"release", "bank", "withdraw"}, {"withdraw", "gateway"}, {"preview"}}
MCMaxCalls == [s \in MCScenarios |-> CASE "correct" \in s -> 3
                                        [] "preview" \in s -> 1
                                        [] "time" \in s -> 4
                                        [] "gateway" \in s -> 5
                                        [] OTHER -> 5]

===============================================================================
