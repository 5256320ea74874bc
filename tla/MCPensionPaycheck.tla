-------------------------- MODULE MCPensionPaycheck --------------------------
(* PensionPaycheck with the thresholds of SURS, small amounts, two members' files, *)
(* stateless requests around every boundary and scaled tax tables in both formats. *)
EXTENDS PensionPaycheck, TLC

Salary(start, end, salary) == [start |-> start, end |-> end, salary |-> salary]

\* A raise every July, a jump above the spike cap in 2008 and a year off in 2009.
YearOfWork(y, salary) == Salary(Date(y, 7, 1), Date(y, 7, 1) + YearDays - 1, salary)
MCHistory == {YearOfWork(y, 600 + 60 * (y - 2000) + (IF y = 2008 THEN 700 ELSE 0)) : y \in (2004..2014) \ {2009}}

Entry(id, type, credit, voided) == [id |-> id, type |-> type, credit |-> credit, voided |-> voided]
Credits == {Entry(1, "payroll", 95, FALSE), Entry(2, "military", 8, FALSE), Entry(3, "ope", 5, FALSE),
            Entry(4, "payroll", 10, TRUE)}

OnFile(plan, cert, birth, until) ==
    [plan |-> plan, cert |-> cert, birth |-> birth, salaries |-> MCHistory, credits |-> Credits,
     jobs |-> {[until |-> until, type |-> "police_fire"]}, contributions |-> Never]

MCMembers == {
    OnFile("traditional", Date(1990, 7, 1), Date(1955, 3, 10), Date(2015, 6, 30)),
    OnFile("portable", Date(2011, 1, 1), Date(1950, 8, 15), Never)}

MCRetirements == {Date(2015, 7, 15), Date(2015, 9, 9), Date(2016, 1, 1)}

Option(type, age, desired) == [type |-> type, age |-> age, desired |-> desired]
MCOptionForms == {Option("single_life", Never, Never), Option("js_50", 3, Never), Option("js_100", 9, Never),
              Option("reversionary", 2, 40), Option("reversionary", 3, 900)}

MCTable(low, high) == [b \in 1..5 |-> [m \in 1..5 |-> low + ((high - low) * b) \div (b + m)]]
MCJsFactor == [js_50 |-> MCTable(8000, 9900), js_75 |-> MCTable(7500, 9800), js_100 |-> MCTable(7000, 9700)]
MCReversionaryFactor == MCTable(100000, 600000)

MCSlots == [t \in {"military", "ope"} |-> t]

Body == [plan |-> "traditional", cert |-> Date(1985, 1, 1), birth |-> Date(1945, 5, 20),
         retirement |-> Date(2000, 5, 15), termination |-> Date(2000, 4, 1), system |-> 40, ope |-> 0,
         military |-> 0, reciprocal |-> 2, sickDays |-> 0, history |-> {YearOfWork(y, 1000 + 300 * (y % 2)) : y \in 1994..1999},
         purchase |-> [normal |-> 9000, ope |-> 500, military |-> 100], factor |-> Never,
         policeFire |-> TRUE, policeFireService |-> 80, option |-> Option("single_life", Never, Never)]

\* Every boundary of age, service and date the formulas know.
MCRequests ==
    {[Body EXCEPT !.birth = Date(y, 5, d), !.system = s, !.policeFireService = p, !.factor = f] :
        y \in 1938..1951, d \in {15, 20}, s \in {4, 38, 39, 79, 118, 140}, p \in {79, 80, 100}, f \in {Never, 40000}}
    \cup {[Body EXCEPT !.termination = t, !.retirement = t + 40, !.cert = c, !.sickDays = k,
                       !.birth = t - a * YearDays, !.history = {Salary(t - YearDays, t, 900)}, !.policeFire = (k = 180)] :
        t \in {Date(1969, 8, 14), Date(1973, 8, 26), Date(1977, 9, 13), Date(1997, 7, 6)},
        c \in {Date(1960, 1, 1), Date(1977, 9, 15)}, k \in {19, 20, 180}, a \in {59, 61, 63, 70}}

MCFund == [SursConfig(30) EXCEPT !.sickMethod = "proportional", !.alwaysBands = TRUE,
                                 !.bands = <<Band(15, 167), Band(Never, 200)>>, !.noReductionYears = 35,
                                 !.reductionI = 25, !.mpCutoff = Never, !.spikeRate = 500]

Order(id, kind, amount, pretax, from) ==
    [id |-> id, kind |-> kind, amount |-> amount, pretax |-> pretax, thirdParty |-> FALSE,
     from |-> from, until |-> Never]
MCOrderForms == {Order(1, "percent_of_gross", 100, TRUE, 1), Order(2, "fixed", 30, FALSE, 2)}
MCImportedOrders == {[Order(3, "percent_of_gross", 55, TRUE, 1) EXCEPT !.thirdParty = TRUE]}

Form(jurisdiction, status, type, extra, from) ==
    [jurisdiction |-> jurisdiction, status |-> status, type |-> type, extra |-> extra, exempt |-> FALSE,
     step2 |-> FALSE, credit |-> 0, income |-> 0, deductions |-> 0, from |-> from]
MCElectionForms == {Form("federal", "single", "formula", 0, 1),
                    Form("federal", "head_of_household", "flat_amount", 5, 2),
                    Form("state", "single", "exempt", 0, 1), Form("illinois", "single", "formula", 0, 1)}

Bracket(min, max, rate, base) == [min |-> min, max |-> max, rate |-> rate, base |-> base]
\* The second year's table for single has two wrong bases, as the seeded ones have.
MCFederal == [day \in 1..3 |-> IF day = 3 THEN Unbounded ELSE
    [brackets |-> [single |-> <<Bracket(0, 200, 10, 0), Bracket(200, 250, 12, 20),
                                Bracket(250, 300, 22, IF day = 1 THEN 26 ELSE 27),
                                Bracket(300, Unbounded, 24, IF day = 1 THEN 37 ELSE 36)>>,
                   married_filing_jointly |-> <<Bracket(0, 400, 10, 0), Bracket(400, Unbounded, 12, 40)>>],
     deduction |-> [single |-> 150, married_filing_jointly |-> 300, head_of_household |-> 220],
     higher |-> [single |-> 75, married_filing_jointly |-> 150, head_of_household |-> 110],
     step2Brackets |-> IF day = 1 THEN Unbounded
                       ELSE [single |-> <<Bracket(0, 100, 10, 0), Bracket(100, Unbounded, 22, 10)>>]]]
MCState == [day \in 1..3 |-> 495]
=============================================================================
