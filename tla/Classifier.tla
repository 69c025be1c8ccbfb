----------------------------- MODULE Classifier -----------------------------
(***************************************************************************)
(* The decision of agents/aca/classifier.py.  What the forest and the      *)
(* neighbour search say of a feature vector is an input: the best label    *)
(* with its probability, and whether the vector lies beyond the novelty    *)
(* threshold, or beyond five times it.  Probabilities are in hundredths.   *)
(***************************************************************************)
EXTENDS Integers

TrainLabels == {"NORMAL", "DDOS", "PORT_SCAN", "LATERAL"}
Readings == [label: TrainLabels, confidence: 0..100, outlier: BOOLEAN, extreme: BOOLEAN]

ConfirmConfidence == 60

\* attack_type_for_label: the labels of attacks are the names of their types.
AttackTypeForLabel(label) == IF label = "NORMAL" THEN "NOVEL" ELSE label

Verdict(classification, attackType, severity) ==
    [classification |-> classification, attack_type |-> attackType, severity |-> severity]

\* An extreme outlier is novel whatever its label; a strong label confirms.
predict(r) ==
    IF r.extreme THEN Verdict("SUSPICIOUS", "NOVEL", 55)
    ELSE IF r.label # "NORMAL" THEN
        IF r.confidence >= ConfirmConfidence
        THEN Verdict("CONFIRMED_THREAT", AttackTypeForLabel(r.label),
                     60 + (39 * r.confidence) \div 100)
        ELSE Verdict("SUSPICIOUS", AttackTypeForLabel(r.label),
                     40 + (30 * r.confidence) \div 100)
    ELSE IF r.outlier THEN Verdict("SUSPICIOUS", "NOVEL", 50)
    ELSE Verdict("NORMAL", "NOVEL", 0)
=============================================================================
